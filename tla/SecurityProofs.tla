--------------------------- MODULE SecurityProofs ---------------------------
(***************************************************************************)
(* Theorems about AccountSecurity: the variables have their types, somebody*)
(* can always administer, access that ended stays ended, a new password    *)
(* ends the access the old one gave and nobody has too many sessions.      *)
(* And one about GuessHistory: an account is locked when it should be.     *)
(***************************************************************************)
EXTENDS GuessHistory, FiniteSetTheorems, SequenceTheorems, TLAPS

-----------------------------------------------------------------------------
(* Types.                                                                  *)

\* Writing audit events keeps the type of the last one (writeSecurityAuditEvent).
LEMMA EventsKeepType ==
    ASSUME AccessTypeOK, NEW actor \in User, NEW count \in Nat,
           WriteEvents(actor, count)
    PROVE  lastEvent' \in [sequence : 0..MaxEvents, actor : User]
  BY PrincipalsAndScopes DEF AccessTypeOK, WriteEvents

\* Every operation that concerns nothing but access keeps the types.
LEMMA AccessKeepsTypes ==
    ASSUME AccessTypeOK, NEW actor \in User, AccessOperation(actor)
    PROVE  AccessTypeOK'
  <1> USE EventsKeepType, BuiltinCatalog, PrincipalsAndScopes
      DEF AccessTypeOK, Audited, Scope
  <1>1. CASE BootstrapAdministrator(actor)
    BY <1>1 DEF BootstrapAdministrator
  <1>2. CASE \E u \in User : CreateUser(actor, u) \/ EnableUser(actor, u)
    BY <1>2 DEF CreateUser, EnableUser
  <1>3. CASE \E entry \in Group \cup Role \cup Permission :
                CreateCatalogEntry(actor, entry)
    BY <1>3 DEF CreateCatalogEntry
  <1>4. CASE \E g \in Group, u \in User : AddGroupMember(actor, g, u)
    BY <1>4 DEF AddGroupMember
  <1>5. CASE \E membership \in members : RemoveGroupMember(actor, membership)
    BY <1>5 DEF RemoveGroupMember
  <1>6. CASE \E role \in Role, permission \in Permission :
                GrantRolePermission(actor, role, permission)
    BY <1>6 DEF GrantRolePermission
  <1>7. CASE \E grant \in grants : RevokeRolePermission(actor, grant)
    BY <1>7 DEF RevokeRolePermission
  <1>8. CASE \E assignment \in
                  [principal : User \cup Group, role : Role, scope : Scope] :
                AssignRole(actor, assignment)
    BY <1>8 DEF AssignRole
  <1>9. CASE \E assignment \in assignments :
                RevokeRoleAssignment(actor, assignment)
    BY <1>9 DEF RevokeRoleAssignment
  <1>10. CASE \E p \in Project, b \in Branch : CreateProject(actor, p, b)
    BY <1>10 DEF CreateProject
  <1>11. CASE \E b \in Branch : CreateBranch(actor, b)
    BY <1>11 DEF CreateBranch, accessTables
  <1> QED
    BY <1>1, <1>2, <1>3, <1>4, <1>5, <1>6, <1>7, <1>8, <1>9, <1>10, <1>11
       DEF AccessOperation

\* Revoking sessions keeps their type.
LEMMA RevokingKeepsTypes ==
    ASSUME CredentialTypeOK, NEW gone \in SUBSET Session,
           \A s \in gone : sessions[s] # NoSession,
           Revoke(gone)
    PROVE  sessions' \in [Session -> SessionRow \cup {NoSession}]
  BY DEF CredentialTypeOK, Revoke, SessionRow

\* Invalidating tokens keeps their type.
LEMMA InvalidatingKeepsTypes ==
    ASSUME CredentialTypeOK, NEW gone \in SUBSET Token,
           \A t \in gone : tokens[t] # NoToken
    PROVE  Invalidate(gone) \in [Token -> TokenRow \cup {NoToken}]
  BY DEF CredentialTypeOK, Invalidate, TokenRow

\* A new session has the type of a session.
LEMMA NewSessionKeepsTypes ==
    ASSUME CredentialTypeOK,
           NEW u \in User, NEW s \in Session, NEW from \in Nat,
           NEW lifetime \in Nat, NewSession(u, s, from, lifetime)
    PROVE  sessions' \in [Session -> SessionRow \cup {NoSession}]
  BY DEF CredentialTypeOK, NewSession, SessionRow, Never

\* Storing a credential keeps the types of the three columns.
LEMMA StoringKeepsTypes ==
    ASSUME CredentialTypeOK,
           NEW u \in User, NEW password \in Password,
           StoreCredential(u, password)
    PROVE  /\ credential' \in [User -> CredentialRow \cup {NoCredential}]
           /\ failures' \in [User -> 0..FailureLimit]
           /\ lockedUntil' \in [User -> Nat]
  <1>1. NextSalt(u) \in Nat
    BY DEF CredentialTypeOK, NextSalt, CredentialRow
  <1> QED
    BY <1>1, Limits
       DEF CredentialTypeOK, StoreCredential, CredentialRow, Never

\* The operations of managers on accounts keep the types.
LEMMA AccountOperationKeepsTypes ==
    ASSUME TypeOK, NEW actor \in User, NEW u \in User,
           AccountOperation(actor, u)
    PROVE  TypeOK'
  <1> USE Limits, EventsKeepType DEF TypeOK, Audited, Earlier, Time
  <1>1. CASE DisableUser(actor, u)
    <2>1. AccessTypeOK'
      BY <1>1 DEF DisableUser, DisableAccount, AccessTypeOK
    <2>2. sessions' \in [Session -> SessionRow \cup {NoSession}]
      BY <1>1, RevokingKeepsTypes DEF DisableUser, Unrevoked
    <2>3. tokens' \in [Token -> TokenRow \cup {NoToken}]
      BY <1>1, InvalidatingKeepsTypes DEF DisableUser, OpenTokens
    <2> QED
      BY <1>1, <2>1, <2>2, <2>3
         DEF DisableUser, CredentialTypeOK, credentialTables
  <1>2. ASSUME NEW s \in Session, NEW at \in Earlier, NEW lifetime \in Lifetime,
               IssueSession(actor, u, s, at, lifetime)
        PROVE  TypeOK'
    <2>1. sessions' \in [Session -> SessionRow \cup {NoSession}]
      BY <1>2, NewSessionKeepsTypes DEF IssueSession
    <2> QED
      BY <1>2, <2>1 DEF IssueSession, accessTables, AccessTypeOK,
                        CredentialTypeOK, credentialTables
  <1>3. ASSUME NEW t \in Token, NEW at \in Earlier, NEW lifetime \in Lifetime,
               IssuePasswordRecovery(actor, u, t, at, lifetime)
        PROVE  TypeOK'
    <2>1. Invalidate(OpenTokens(u)) \in [Token -> TokenRow \cup {NoToken}]
      BY InvalidatingKeepsTypes DEF OpenTokens
    <2>2. tokens' \in [Token -> TokenRow \cup {NoToken}]
      BY <1>3, <2>1 DEF IssuePasswordRecovery, TokenRow
    <2> QED
      BY <1>3, <2>2 DEF IssuePasswordRecovery, accessTables, AccessTypeOK,
                        CredentialTypeOK, credentialTables
  <1> QED
    BY <1>1, <1>2, <1>3 DEF AccountOperation

\* The operations on sessions keep the types.
LEMMA SessionOperationKeepsTypes ==
    ASSUME TypeOK, SessionOperation
    PROVE  TypeOK'
  <1> USE EventsKeepType DEF TypeOK, Earlier, Time
  <1>1. ASSUME NEW current \in Session, NEW s \in Session,
               RevokeOwnSession(current, s)
        PROVE  TypeOK'
    <2>1. sessions[current].user \in User
      BY <1>1 DEF RevokeOwnSession, Usable, CredentialTypeOK, SessionRow
    <2>2. sessions' \in [Session -> SessionRow \cup {NoSession}]
      BY <1>1, RevokingKeepsTypes DEF RevokeOwnSession, Running, Unrevoked
    <2> QED
      BY <1>1, <2>1, <2>2 DEF RevokeOwnSession, accessTables, AccessTypeOK,
                              CredentialTypeOK, credentialTables
  <1>2. ASSUME NEW current \in Session, RevokeOtherSessions(current)
        PROVE  TypeOK'
    <2>1. sessions[current].user \in User
      BY <1>2 DEF RevokeOtherSessions, Usable, CredentialTypeOK, SessionRow
    <2>2. sessions' \in [Session -> SessionRow \cup {NoSession}]
      BY <1>2, RevokingKeepsTypes DEF RevokeOtherSessions, Running, Unrevoked
    <2> QED
      BY <1>2, <2>1, <2>2 DEF RevokeOtherSessions, accessTables, AccessTypeOK,
                              CredentialTypeOK, credentialTables
  <1>3. ASSUME NEW actor \in User, NEW s \in Session, RevokeSession(actor, s)
        PROVE  TypeOK'
    <2>1. sessions' \in [Session -> SessionRow \cup {NoSession}]
      BY <1>3, RevokingKeepsTypes DEF RevokeSession
    <2> QED
      BY <1>3, <2>1 DEF RevokeSession, Audited, accessTables, AccessTypeOK,
                        CredentialTypeOK, credentialTables
  <1>4. ASSUME NEW actor \in User, NEW at \in Earlier, NEW cutoff \in Time,
               NEW limit \in 1..Cardinality(Session), NEW batch \in SUBSET Session,
               RedactSpentSessionTokens(actor, at, cutoff, limit, batch)
        PROVE  TypeOK'
    <2>1. Cardinality(batch) \in Nat
      BY Limits, FS_Subset, FS_CardinalityType
    <2>2. sessions' \in [Session -> SessionRow \cup {NoSession}]
      <3>1. \A s \in batch : sessions[s] \in SessionRow
        BY <1>4 DEF RedactSpentSessionTokens, Redactable, CredentialTypeOK
      <3>2. \A s \in batch : [sessions[s] EXCEPT !.redacted = TRUE] \in SessionRow
        BY ONLY <3>1 DEF SessionRow
      <3>3. /\ sessions \in [Session -> SessionRow \cup {NoSession}]
            /\ sessions' = [s \in Session |->
                              IF s \in batch THEN [sessions[s] EXCEPT !.redacted = TRUE]
                                             ELSE sessions[s]]
        BY <1>4 DEF RedactSpentSessionTokens, CredentialTypeOK
      <3> QED
        BY ONLY <3>2, <3>3
    <2> QED
      BY <1>4, <2>1, <2>2 DEF RedactSpentSessionTokens, accessTables,
                              AccessTypeOK, CredentialTypeOK, credentialTables
  <1> QED
    BY <1>1, <1>2, <1>3, <1>4 DEF SessionOperation

\* A call that starts to check a password, or is abandoned, keeps the types.
LEMMA CallStepKeepsTypes ==
    ASSUME TypeOK, NEW c \in Caller, CallStep(c)
    PROVE  TypeOK'
  <1> SUFFICES /\ UNCHANGED <<accessVars, clock, credentialTables, sessions, tokens>>
               /\ attempts' \in [Caller -> LoginCall \cup ChangeCall \cup {NoAttempt}]
    BY DEF TypeOK, AccessTypeOK, CredentialTypeOK, accessVars, accessTables,
           credentialTables
  <1>1. ASSUME NEW u \in User, NEW password \in Password, BeginLogin(c, u, password)
        PROVE  attempts' \in [Caller -> LoginCall \cup ChangeCall \cup {NoAttempt}]
    <2>1. credential[u] \in CredentialRow
      BY <1>1 DEF BeginLogin, TypeOK, CredentialTypeOK
    <2>2. [call |-> "login", user |-> u, password |-> password,
           seen |-> credential[u]] \in LoginCall
      BY <2>1 DEF LoginCall
    <2> QED
      BY <1>1, <2>2 DEF BeginLogin, TypeOK, CredentialTypeOK
  <1>2. ASSUME NEW s \in Session, NEW password \in Password, NEW new \in Password,
               BeginChange(c, s, password, new)
        PROVE  attempts' \in [Caller -> LoginCall \cup ChangeCall \cup {NoAttempt}]
    <2>1. sessions[s].user \in User
      BY <1>2 DEF BeginChange, Usable, TypeOK, CredentialTypeOK, SessionRow
    <2>2. credential[sessions[s].user] \in CredentialRow
      BY <1>2, <2>1 DEF BeginChange, TypeOK, CredentialTypeOK
    <2>3. [call |-> "change", user |-> sessions[s].user, password |-> password,
           seen |-> credential[sessions[s].user], session |-> s, new |-> new]
             \in ChangeCall
      BY <2>1, <2>2 DEF ChangeCall
    <2> QED
      BY <1>2, <2>3 DEF BeginChange, TypeOK, CredentialTypeOK
  <1>3. ASSUME AbandonAttempt(c)
        PROVE  attempts' \in [Caller -> LoginCall \cup ChangeCall \cup {NoAttempt}]
    BY <1>3 DEF AbandonAttempt, TypeOK, CredentialTypeOK
  <1>4. UNCHANGED <<accessVars, clock, credentialTables, sessions, tokens>>
    BY DEF CallStep, BeginLogin, BeginChange, AbandonAttempt
  <1> QED
    BY <1>1, <1>2, <1>3, <1>4 DEF CallStep

\* The account and the new password that a call in progress names are ones.
LEMMA AttemptTypes ==
    ASSUME TypeOK, NEW c \in Caller, attempts[c] # NoAttempt
    PROVE  /\ attempts[c].user \in User
           /\ attempts[c].password \in Password
           /\ attempts[c].call = "change" => attempts[c].new \in Password
           /\ attempts[c].call = "change" => attempts[c].session \in Session
  <1>1. attempts[c] \in LoginCall \cup ChangeCall
    BY DEF TypeOK, CredentialTypeOK
  <1> QED
    BY <1>1 DEF LoginCall, ChangeCall

\* Counting a wrong password keeps the types: the count stops at the limit.
LEMMA WrongGuessKeepsTypes ==
    ASSUME TypeOK, NEW u \in User, WrongGuess(u)
    PROVE  TypeOK'
  <1>1. PICK c \in Caller : /\ attempts[c] # NoAttempt
                            /\ attempts[c].user = u
                            /\ RejectPassword(c)
    BY DEF WrongGuess
  <1>2. CountedFailures(u) \in 0..FailureLimit
    BY Limits DEF CountedFailures, TypeOK, CredentialTypeOK
  <1>3. failures' \in [User -> 0..FailureLimit]
    BY <1>1, <1>2 DEF RejectPassword, TypeOK, CredentialTypeOK
  <1>4. clock + LockoutTime \in Nat /\ Never \in Nat
    BY Limits DEF TypeOK, CredentialTypeOK, Never
  <1>5. lockedUntil' \in [User -> Nat]
    BY <1>1, <1>4 DEF RejectPassword, TypeOK, CredentialTypeOK
  <1> QED
    BY <1>1, <1>3, <1>5 DEF RejectPassword, TypeOK, AccessTypeOK, CredentialTypeOK,
                            accessVars, accessTables

\* What shows somebody to be entitled to an account keeps the types.
LEMMA EntitledKeepsTypes ==
    ASSUME TypeOK, NEW u \in User, Entitled(u)
    PROVE  TypeOK'
  <1> USE Limits DEF TypeOK
  <1>1. ASSUME NEW c \in Caller, attempts[c] # NoAttempt, attempts[c].user = u,
               NEW s \in Session, NEW lifetime \in Lifetime,
               AcceptLogin(c, s, lifetime)
        PROVE  TypeOK'
    <2>1. sessions' \in [Session -> SessionRow \cup {NoSession}]
      BY <1>1, NewSessionKeepsTypes DEF AcceptLogin, CredentialTypeOK
    <2>2. lastEvent' \in [sequence : 0..MaxEvents, actor : User]
      BY <1>1, EventsKeepType DEF AcceptLogin
    <2>3. AccessTypeOK'
      BY <1>1, <2>2 DEF AcceptLogin, AccessTypeOK, accessTables
    <2>4. /\ failures' \in [User -> 0..FailureLimit]
          /\ lockedUntil' \in [User -> Nat]
          /\ attempts' \in [Caller -> LoginCall \cup ChangeCall \cup {NoAttempt}]
      BY <1>1 DEF AcceptLogin, CredentialTypeOK, Never
    <2> QED
      BY <1>1, <2>1, <2>3, <2>4 DEF AcceptLogin, CredentialTypeOK
  <1>2. ASSUME NEW c \in Caller, attempts[c] # NoAttempt, attempts[c].user = u,
               AcceptChange(c)
        PROVE  TypeOK'
    <2>1. attempts[c].new \in Password
      BY <1>2, AttemptTypes DEF AcceptChange
    <2>2. sessions' \in [Session -> SessionRow \cup {NoSession}]
      BY <1>2, RevokingKeepsTypes DEF AcceptChange, Unrevoked
    <2>3. tokens' \in [Token -> TokenRow \cup {NoToken}]
      BY <1>2, InvalidatingKeepsTypes DEF AcceptChange, OpenTokens
    <2>4. /\ credential' \in [User -> CredentialRow \cup {NoCredential}]
          /\ failures' \in [User -> 0..FailureLimit]
          /\ lockedUntil' \in [User -> Nat]
      BY <1>2, <2>1, StoringKeepsTypes DEF AcceptChange
    <2>5. lastEvent' \in [sequence : 0..MaxEvents, actor : User]
      BY <1>2, EventsKeepType DEF AcceptChange
    <2>6. AccessTypeOK'
      BY <1>2, <2>5 DEF AcceptChange, AccessTypeOK, accessTables
    <2>7. attempts' \in [Caller -> LoginCall \cup ChangeCall \cup {NoAttempt}]
      BY <1>2 DEF AcceptChange, CredentialTypeOK
    <2> QED
      BY <1>2, <2>2, <2>3, <2>4, <2>6, <2>7 DEF AcceptChange, CredentialTypeOK
  <1>3. ASSUME NEW actor \in User, NEW password \in Password,
               SetUserPassword(actor, u, password)
        PROVE  TypeOK'
    <2>1. sessions' \in [Session -> SessionRow \cup {NoSession}]
      BY <1>3, RevokingKeepsTypes DEF SetUserPassword, Unrevoked
    <2>2. tokens' \in [Token -> TokenRow \cup {NoToken}]
      BY <1>3, InvalidatingKeepsTypes DEF SetUserPassword, OpenTokens
    <2>3. /\ credential' \in [User -> CredentialRow \cup {NoCredential}]
          /\ failures' \in [User -> 0..FailureLimit]
          /\ lockedUntil' \in [User -> Nat]
      BY <1>3, StoringKeepsTypes DEF SetUserPassword
    <2>4. lastEvent' \in [sequence : 0..MaxEvents, actor : User]
      BY <1>3, EventsKeepType DEF SetUserPassword, Audited
    <2> QED
      BY <1>3, <2>1, <2>2, <2>3, <2>4
         DEF SetUserPassword, AccessTypeOK, CredentialTypeOK, accessTables
  <1>4. ASSUME NEW t \in Token, NEW password \in Password, tokens[t] # NoToken,
               tokens[t].user = u, RedeemPasswordRecovery(t, password)
        PROVE  TypeOK'
    <2>1. sessions' \in [Session -> SessionRow \cup {NoSession}]
      BY <1>4, RevokingKeepsTypes DEF RedeemPasswordRecovery, Unrevoked
    <2>2. tokens' \in [Token -> TokenRow \cup {NoToken}]
      BY <1>4 DEF RedeemPasswordRecovery, CredentialTypeOK, TokenRow
    <2>3. /\ credential' \in [User -> CredentialRow \cup {NoCredential}]
          /\ failures' \in [User -> 0..FailureLimit]
          /\ lockedUntil' \in [User -> Nat]
      BY <1>4, StoringKeepsTypes DEF RedeemPasswordRecovery
    <2>4. lastEvent' \in [sequence : 0..MaxEvents, actor : User]
      BY <1>4, EventsKeepType DEF RedeemPasswordRecovery
    <2> QED
      BY <1>4, <2>1, <2>2, <2>3, <2>4
         DEF RedeemPasswordRecovery, AccessTypeOK, CredentialTypeOK, accessTables
  <1> QED
    BY <1>1, <1>2, <1>3, <1>4 DEF Entitled

\* Every step keeps the types.
LEMMA NextKeepsTypes ==
    ASSUME TypeOK, [Next]_securityVars
    PROVE  TypeOK'
  <1>1. CASE Tick
    BY <1>1 DEF Tick, TypeOK, AccessTypeOK, CredentialTypeOK, accessVars,
                accessTables, credentialTables
  <1>2. ASSUME NEW actor \in User, AccessOperation(actor), UNCHANGED credentialVars
        PROVE  TypeOK'
    BY <1>2, AccessKeepsTypes DEF TypeOK, CredentialTypeOK, credentialVars,
                                  credentialTables
  <1>3. CASE UNCHANGED securityVars
    BY <1>3 DEF TypeOK, AccessTypeOK, CredentialTypeOK, securityVars, accessVars,
                accessTables, credentialVars, credentialTables
  <1> QED
    BY <1>1, <1>2, <1>3, AccountOperationKeepsTypes, SessionOperationKeepsTypes,
       CallStepKeepsTypes, WrongGuessKeepsTypes, EntitledKeepsTypes
       DEF Next, OtherOperation

\* Accounts, rights, credentials, sessions, tokens and calls in progress have
\* their types in every reachable state, the count of failures never more than
\* password_failure_limit (password_credentials.cpp:431).
THEOREM TypeCorrect == Spec => []TypeOK
  <1>1. Init => TypeOK
    BY BuiltinCatalog, PrincipalsAndScopes, Limits
       DEF Init, AccessInit, CredentialInit, TypeOK, AccessTypeOK,
           CredentialTypeOK, BuiltinPermission, Never
  <1> QED
    BY <1>1, NextKeepsTypes, PTL DEF Spec

-----------------------------------------------------------------------------
(* Administrators.                                                         *)

\* Before the bootstrap the built-in role has its permission; afterwards what
\* every audited operation checks is the case between any two steps.
AdministratorInvariant ==
    /\ Bootstrapped => ManagerLeft
    /\ ~Bootstrapped => <<SystemAdministrator, SecurityManage>> \in grants

\* The query of the audit frame finds those whom hasPermission lets administer.
LEMMA ManagersCanManage ==
    ManagerLeft <=> \E u \in User : CanManage(u)
  <1>1. Covering(System) = {System} /\ System \notin Branch
    BY PrincipalsAndScopes DEF Covering
  <1> QED
    BY <1>1 DEF ManagerLeft, CanManage, HasPermission

\* A step leaves a manager, or is the bootstrap, or changes nothing that makes
\* one except for adding assignments.
LEMMA AdministratorSteps ==
    ASSUME [Next]_securityVars
    PROVE  \/ ManagerLeft'
           \/ \E u \in User : BootstrapAdministrator(u)
           \/ /\ UNCHANGED <<account, members, grants>>
              /\ assignments \subseteq assignments'
  <1> DEFINE Conclusion == \/ ManagerLeft'
                           \/ \E u \in User : BootstrapAdministrator(u)
                           \/ /\ UNCHANGED <<account, members, grants>>
                              /\ assignments \subseteq assignments'
  <1> DEFINE Left == /\ UNCHANGED <<account, members, grants>>
                     /\ assignments \subseteq assignments'
  <1>1. ASSUME NEW actor \in User, AccessOperation(actor)
        PROVE  Conclusion
    <2>1. ASSUME NEW p \in Project, NEW b \in Branch, CreateProject(actor, p, b)
          PROVE  Left
      BY <2>1 DEF CreateProject
    <2>2. ASSUME NEW b \in Branch, CreateBranch(actor, b)
          PROVE  Left
      BY <2>2 DEF CreateBranch, accessTables
    <2>3. \/ BootstrapAdministrator(actor)
          \/ ManagerLeft'
          \/ \E p \in Project, b \in Branch : CreateProject(actor, p, b)
          \/ \E b \in Branch : CreateBranch(actor, b)
      BY <1>1 DEF AccessOperation, CreateUser, EnableUser, CreateCatalogEntry,
                  AddGroupMember, RemoveGroupMember, GrantRolePermission,
                  RevokeRolePermission, AssignRole, RevokeRoleAssignment, Audited
    <2> QED
      BY <2>1, <2>2, <2>3
  <1>2. ASSUME NEW actor \in User, NEW u \in User, AccountOperation(actor, u)
        PROVE  Conclusion
    BY <1>2 DEF AccountOperation, DisableUser, DisableAccount, IssueSession,
                IssuePasswordRecovery, Audited
  <1>3. ASSUME Tick
        PROVE  Left
    BY <1>3 DEF Tick, accessVars, accessTables
  <1>4. ASSUME SessionOperation
        PROVE  Conclusion
    <2>1. ASSUME NEW current \in Session, RevokeOtherSessions(current)
          PROVE  Left
      BY <2>1 DEF RevokeOtherSessions, accessTables
    <2>2. ASSUME NEW current \in Session, NEW s \in Session,
                 RevokeOwnSession(current, s)
          PROVE  Left
      BY <2>2 DEF RevokeOwnSession, accessTables
    <2>3. ASSUME NEW actor \in User, NEW s \in Session, RevokeSession(actor, s)
          PROVE  Left
      BY <2>3 DEF RevokeSession, accessTables
    <2>4. ASSUME NEW actor \in User, NEW at \in Earlier, NEW cutoff \in Time,
                 NEW limit \in 1..Cardinality(Session),
                 NEW batch \in SUBSET Session,
                 RedactSpentSessionTokens(actor, at, cutoff, limit, batch)
          PROVE  Left
      BY <2>4 DEF RedactSpentSessionTokens, accessTables
    <2> QED
      BY <1>4, <2>1, <2>2, <2>3, <2>4 DEF SessionOperation
  <1>5. ASSUME NEW c \in Caller, CallStep(c)
        PROVE  Left
    BY <1>5 DEF CallStep, BeginLogin, BeginChange, AbandonAttempt, accessVars,
                accessTables
  <1>6. CASE \E u \in User : WrongGuess(u) \/ Entitled(u)
    BY <1>6 DEF WrongGuess, RejectPassword, Entitled, AcceptLogin, AcceptChange,
                SetUserPassword, RedeemPasswordRecovery, accessVars, accessTables
  <1>7. CASE UNCHANGED securityVars
    BY <1>7 DEF securityVars, accessVars, accessTables
  <1> QED
    BY <1>1, <1>2, <1>3, <1>4, <1>5, <1>6, <1>7 DEF Next, OtherOperation

\* Once there is an administrator somebody can always administer, whatever the
\* order of the operations that take rights away (security_audit.cpp:140).
THEOREM AdministratorsRemain == Spec => []SomebodyCanAdminister
  <1>1. Init => AdministratorInvariant
    BY DEF Init, AccessInit, AdministratorInvariant, Bootstrapped,
           BuiltinPermission
  <1>2. ASSUME AdministratorInvariant, [Next]_securityVars, TypeOK
        PROVE  AdministratorInvariant'
    <2>1. CASE ManagerLeft'
      BY <2>1 DEF AdministratorInvariant, ManagerLeft, Bootstrapped
    <2>2. ASSUME NEW u \in User, BootstrapAdministrator(u)
          PROVE  AdministratorInvariant'
      <3> DEFINE first == [principal |-> u, role |-> SystemAdministrator,
                           scope |-> System]
      <3>1. account'[u] = "active" /\ first \in AssignmentsOf(u)'
        BY <2>2, <1>2 DEF BootstrapAdministrator, AssignmentsOf, TypeOK, AccessTypeOK
      <3>2. <<SystemAdministrator, SecurityManage>> \in grants'
        BY <2>2, <1>2 DEF BootstrapAdministrator, AdministratorInvariant, Bootstrapped
      <3>3. ManagerLeft'
        BY <3>1, <3>2 DEF ManagerLeft
      <3> QED
        BY <3>3, <2>1
    <2>3. CASE /\ UNCHANGED <<account, members, grants>>
               /\ assignments \subseteq assignments'
      <3>1. \A u \in User : AssignmentsOf(u) \subseteq AssignmentsOf(u)'
        BY <2>3 DEF AssignmentsOf
      <3> QED
        BY <3>1, <2>3, <1>2 DEF AdministratorInvariant, ManagerLeft, Bootstrapped
    <2> QED
      BY <2>1, <2>2, <2>3, <1>2, AdministratorSteps
  <1>3. AdministratorInvariant => SomebodyCanAdminister
    BY ManagersCanManage DEF AdministratorInvariant, SomebodyCanAdminister
  <1> QED
    BY <1>1, <1>2, <1>3, TypeCorrect, PTL DEF Spec

-----------------------------------------------------------------------------
(* What one step does to a session, a token and an account.                *)

\* An existing session keeps its user and its expiry, and stays revoked or
\* redacted; a new one belongs to an active user.
SessionStep(s) ==
    IF sessions[s] = NoSession
    THEN sessions'[s] # NoSession => account'[sessions'[s].user] = "active"
    ELSE /\ sessions'[s] # NoSession
         /\ sessions'[s].user = sessions[s].user
         /\ sessions'[s].expires = sessions[s].expires
         /\ sessions[s].revoked # Never => sessions'[s].revoked # Never
         /\ sessions[s].redacted => sessions'[s].redacted

\* An existing token keeps its user and its expiry, and stays closed; a new one
\* is the only open one of an active user.
TokenStep(t) ==
    IF tokens[t] = NoToken
    THEN tokens'[t] # NoToken => /\ (account[tokens[t].user] = "active")'
                                /\ (OpenTokens(tokens[t].user) \subseteq {t})'
    ELSE /\ tokens'[t] # NoToken
         /\ tokens'[t].user = tokens[t].user
         /\ tokens'[t].expires = tokens[t].expires
         /\ tokens[t].status # "open" => tokens'[t].status # "open"

\* Who is disabled keeps no session and no open token, and whose password is
\* replaced keeps no session and no open token but, when he redeemed one of his
\* own, the others.
AccountStep(u) ==
    /\ account[u] = "active" /\ account'[u] # "active" =>
          Unrevoked(u)' = {} /\ OpenTokens(u)' = {}
    /\ credential'[u] # credential[u] =>
          /\ Unrevoked(u)' = {}
          /\ \/ OpenTokens(u)' = {}
             \/ \E t \in OpenTokens(u) : OpenTokens(u)' \subseteq OpenTokens(u) \ {t}

Summary ==
    /\ \A s \in Session : SessionStep(s)
    /\ \A t \in Token : TokenStep(t)
    /\ \A u \in User : AccountStep(u)
    /\ clock' >= clock

\* Revoking keeps what a session step keeps, and leaves nothing unrevoked of
\* what it revokes.
LEMMA RevokingSessions ==
    ASSUME TypeOK, NEW gone \in SUBSET Session,
           \A s \in gone : sessions[s] # NoSession, Revoke(gone)
    PROVE  /\ \A s \in Session : SessionStep(s)
           /\ \A s \in gone : sessions'[s].revoked # Never
           /\ \A s \in Session : sessions'[s] = NoSession <=> sessions[s] = NoSession
  <1> USE DEF TypeOK, CredentialTypeOK, Revoke, Never
  <1>1. ASSUME NEW s \in gone
        PROVE  /\ sessions'[s] # NoSession
               /\ sessions'[s].user = sessions[s].user
               /\ sessions'[s].expires = sessions[s].expires
               /\ sessions'[s].revoked = clock
               /\ sessions'[s].redacted = sessions[s].redacted
    <2>1. sessions[s] \in SessionRow
      BY <1>1
    <2>2. /\ sessions'[s] = [sessions[s] EXCEPT !.revoked = clock]
          /\ sessions'[s] \in SessionRow
      BY <2>1 DEF SessionRow
    <2> QED
      BY <2>1, <2>2, NullsAreNoValues DEF SessionRow
  <1>2. \A s \in Session \ gone : sessions'[s] = sessions[s]
    OBVIOUS
  <1>3. \A s \in Session : SessionStep(s)
    <2>1. ASSUME NEW s \in gone
          PROVE  SessionStep(s)
      BY <1>1, <2>1 DEF SessionStep
    <2>2. ASSUME NEW s \in Session \ gone
          PROVE  SessionStep(s)
      BY <1>2, <2>2 DEF SessionStep
    <2> QED
      BY <2>1, <2>2
  <1>4. \A s \in gone : sessions'[s].revoked # Never
    BY <1>1
  <1>5. \A s \in Session : sessions'[s] = NoSession <=> sessions[s] = NoSession
    BY <1>1, <1>2
  <1> QED
    BY <1>3, <1>4, <1>5

\* A new session satisfies a session step when its user is active.
LEMMA StartingSession ==
    ASSUME TypeOK, NEW u \in User, NEW s \in Session, NEW from \in Nat,
           NEW lifetime \in Nat, NewSession(u, s, from, lifetime),
           account'[u] = "active"
    PROVE  /\ \A r \in Session : SessionStep(r)
           /\ \A r \in Session \ {s} : sessions'[r] = sessions[r]
           /\ sessions'[s].user = u
  BY DEF TypeOK, CredentialTypeOK, NewSession, SessionStep

\* Invalidating tokens keeps what a token step keeps, and closes them.
LEMMA ClosingTokens ==
    ASSUME TypeOK, NEW gone \in SUBSET Token,
           \A t \in gone : tokens[t] # NoToken, tokens' = Invalidate(gone)
    PROVE  /\ \A t \in Token : TokenStep(t)
           /\ \A t \in gone : tokens'[t].status # "open"
           /\ \A t \in Token : tokens'[t] = NoToken <=> tokens[t] = NoToken
  <1> USE DEF TypeOK, CredentialTypeOK, Invalidate
  <1>1. ASSUME NEW t \in gone
        PROVE  /\ tokens'[t] # NoToken
               /\ tokens'[t].user = tokens[t].user
               /\ tokens'[t].expires = tokens[t].expires
               /\ tokens'[t].status = "invalidated"
    <2>1. tokens[t] \in TokenRow
      BY <1>1
    <2>2. /\ tokens'[t] = [tokens[t] EXCEPT !.status = "invalidated"]
          /\ tokens'[t] \in TokenRow
      BY <2>1 DEF TokenRow
    <2> QED
      BY <2>1, <2>2, NullsAreNoValues DEF TokenRow
  <1>2. \A t \in Token \ gone : tokens'[t] = tokens[t]
    OBVIOUS
  <1> QED
    BY <1>1, <1>2 DEF TokenStep

\* After revoking all unrevoked sessions of a user none is left.
LEMMA RevokingAllSessions ==
    ASSUME TypeOK, NEW u \in User, Revoke(Unrevoked(u))
    PROVE  Unrevoked(u)' = {} /\ \A s \in Session : SessionStep(s)
  <1>1. Unrevoked(u) \in SUBSET Session /\ \A s \in Unrevoked(u) : sessions[s] # NoSession
    BY DEF Unrevoked
  <1>2. /\ \A s \in Session : SessionStep(s)
        /\ \A s \in Unrevoked(u) : sessions'[s].revoked # Never
        /\ \A s \in Session : sessions'[s] = NoSession <=> sessions[s] = NoSession
    BY <1>1, RevokingSessions
  <1> QED
    BY <1>2 DEF Unrevoked, SessionStep

\* After invalidating all open tokens of a user none is left.
LEMMA ClosingAllTokens ==
    ASSUME TypeOK, NEW u \in User, tokens' = Invalidate(OpenTokens(u))
    PROVE  OpenTokens(u)' = {} /\ \A t \in Token : TokenStep(t)
  <1>1. OpenTokens(u) \in SUBSET Token /\ \A t \in OpenTokens(u) : tokens[t] # NoToken
    BY DEF OpenTokens
  <1>2. /\ \A t \in Token : TokenStep(t)
        /\ \A t \in OpenTokens(u) : tokens'[t].status # "open"
        /\ \A t \in Token : tokens'[t] = NoToken <=> tokens[t] = NoToken
    BY <1>1, ClosingTokens
  <1> QED
    BY <1>2 DEF OpenTokens, TokenStep

\* A step that touches neither accounts, credentials, sessions nor tokens.
LEMMA QuietSteps ==
    ASSUME TypeOK, UNCHANGED <<sessions, tokens, credential>>, clock' >= clock,
           \A u \in User : account[u] = "active" => account'[u] = "active"
    PROVE  Summary
  BY DEF Summary, SessionStep, TokenStep, AccountStep

\* Nothing that concerns only access disables an account.
LEMMA AccessDisablesNobody ==
    ASSUME TypeOK, NEW actor \in User, AccessOperation(actor)
    PROVE  \A u \in User : account[u] = "active" => account'[u] = "active"
  BY DEF AccessOperation, BootstrapAdministrator, CreateUser, EnableUser,
         CreateCatalogEntry, AddGroupMember, RemoveGroupMember,
         GrantRolePermission, RevokeRolePermission, AssignRole,
         RevokeRoleAssignment, CreateProject, CreateBranch, accessTables,
         TypeOK, AccessTypeOK

\* A manager's operation on an account keeps the summary.
LEMMA AccountOperationSummary ==
    ASSUME TypeOK, NEW actor \in User, NEW u \in User, AccountOperation(actor, u)
    PROVE  Summary
  <1>1. CASE DisableUser(actor, u)
    <2>1. Unrevoked(u)' = {} /\ \A s \in Session : SessionStep(s)
      BY <1>1, RevokingAllSessions DEF DisableUser
    <2>2. OpenTokens(u)' = {} /\ \A t \in Token : TokenStep(t)
      BY <1>1, ClosingAllTokens DEF DisableUser
    <2>3. \A v \in User : AccountStep(v)
      BY <1>1, <2>1, <2>2 DEF AccountStep, DisableUser, DisableAccount, TypeOK,
                              AccessTypeOK, credentialTables
    <2>4. clock' >= clock
      BY <1>1 DEF DisableUser, TypeOK, CredentialTypeOK
    <2> QED
      BY <2>1, <2>2, <2>3, <2>4 DEF Summary
  <1>2. ASSUME NEW s \in Session, NEW at \in Earlier, NEW lifetime \in Lifetime,
               IssueSession(actor, u, s, at, lifetime)
        PROVE  Summary
    <2>1. at \in Nat /\ lifetime \in Nat
      BY Limits DEF Earlier, Time
    <2>2. account'[u] = "active" /\ NewSession(u, s, at, lifetime)
      BY <1>2 DEF IssueSession, accessTables
    <2>3. \A r \in Session : SessionStep(r)
      BY <2>1, <2>2, StartingSession
    <2>4. /\ UNCHANGED <<account, credential, tokens, clock>>
          /\ clock \in Nat
      BY <1>2 DEF IssueSession, accessTables, credentialTables, TypeOK, CredentialTypeOK
    <2> QED
      BY <2>3, <2>4 DEF Summary, TokenStep, AccountStep
  <1>3. ASSUME NEW t \in Token, NEW at \in Earlier, NEW lifetime \in Lifetime,
               IssuePasswordRecovery(actor, u, t, at, lifetime)
        PROVE  Summary
    <2> DEFINE row == [user |-> u, issued |-> at, expires |-> at + lifetime,
                       status |-> "open"]
    <2> DEFINE closed == Invalidate(OpenTokens(u))
    <2>1. row \in TokenRow /\ row # NoToken
      BY Limits, NullsAreNoValues DEF Earlier, Time, TokenRow
    <2>2. closed \in [Token -> TokenRow \cup {NoToken}]
      BY InvalidatingKeepsTypes DEF OpenTokens, TypeOK
    <2>3. /\ tokens[t] = NoToken
          /\ tokens'[t] = row
          /\ \A r \in Token \ {t} : tokens'[r] = closed[r]
      BY <1>3, <2>2 DEF IssuePasswordRecovery
    <2>4. \A r \in OpenTokens(u) :
             /\ closed[r] # NoToken
             /\ closed[r].user = tokens[r].user
             /\ closed[r].expires = tokens[r].expires
             /\ closed[r].status = "invalidated"
      <3> SUFFICES ASSUME NEW r \in OpenTokens(u)
                   PROVE  /\ closed[r] # NoToken
                          /\ closed[r].user = tokens[r].user
                          /\ closed[r].expires = tokens[r].expires
                          /\ closed[r].status = "invalidated"
        OBVIOUS
      <3>1. r \in Token /\ tokens[r] \in TokenRow
        BY DEF OpenTokens, TypeOK, CredentialTypeOK
      <3>2. closed[r] = [tokens[r] EXCEPT !.status = "invalidated"]
        BY <3>1 DEF Invalidate
      <3>3. closed[r] \in TokenRow
        BY <3>1, <3>2 DEF TokenRow
      <3> QED
        BY <3>1, <3>2, <3>3, NullsAreNoValues DEF TokenRow
    <2>5. \A r \in Token \ OpenTokens(u) : closed[r] = tokens[r]
      BY DEF Invalidate
    <2>6. account'[u] = "active" /\ UNCHANGED <<account, credential, sessions, clock>>
          /\ clock \in Nat
      BY <1>3 DEF IssuePasswordRecovery, accessTables, credentialTables, TypeOK,
                  CredentialTypeOK
    <2> HIDE DEF row, closed
    <2>7. OpenTokens(u)' \subseteq {t}
      BY <2>3, <2>4, <2>5 DEF OpenTokens
    <2>8. row.user = u
      BY DEF row
    <2>9. TokenStep(t)
      BY <2>1, <2>3, <2>6, <2>7, <2>8 DEF TokenStep, OpenTokens
    <2>10. \A r \in Token \ {t} : TokenStep(r)
      BY <2>3, <2>4, <2>5 DEF TokenStep, OpenTokens
    <2> QED
      BY <2>6, <2>9, <2>10 DEF Summary, SessionStep, AccountStep
  <1> QED
    BY <1>1, <1>2, <1>3 DEF AccountOperation

\* An operation on sessions keeps the summary.
LEMMA SessionOperationSummary ==
    ASSUME TypeOK, SessionOperation
    PROVE  Summary
  <1>1. ASSUME NEW gone \in SUBSET Session, Revoke(gone),
               \A s \in gone : sessions[s] # NoSession
        PROVE  \A s \in Session : SessionStep(s)
    BY <1>1, RevokingSessions
  <1>2. \A s \in Session : SessionStep(s)
    <2>1. ASSUME NEW current \in Session, NEW s \in Session,
                 RevokeOwnSession(current, s)
          PROVE  Revoke({s}) /\ sessions[s] # NoSession
      BY <2>1 DEF RevokeOwnSession, Running, Unrevoked
    <2>2. ASSUME NEW current \in Session, RevokeOtherSessions(current)
          PROVE  \A s \in Session : SessionStep(s)
      BY <2>2, <1>1 DEF RevokeOtherSessions, Running, Unrevoked
    <2>3. ASSUME NEW actor \in User, NEW s \in Session, RevokeSession(actor, s)
          PROVE  Revoke({s}) /\ sessions[s] # NoSession
      BY <2>3 DEF RevokeSession
    <2>4. ASSUME NEW actor \in User, NEW at \in Earlier, NEW cutoff \in Time,
                 NEW limit \in 1..Cardinality(Session), NEW batch \in SUBSET Session,
                 RedactSpentSessionTokens(actor, at, cutoff, limit, batch),
                 NEW s \in Session
          PROVE  SessionStep(s)
      <3>1. CASE s \in batch
        <4>1. sessions[s] \in SessionRow
          BY <2>4, <3>1 DEF RedactSpentSessionTokens, Redactable, TypeOK,
                            CredentialTypeOK
        <4>2. sessions'[s] = [sessions[s] EXCEPT !.redacted = TRUE]
          BY <2>4, <3>1 DEF RedactSpentSessionTokens
        <4>3. sessions'[s] \in SessionRow
          BY <4>1, <4>2 DEF SessionRow
        <4> QED
          BY <4>1, <4>2, <4>3, NullsAreNoValues DEF SessionStep, SessionRow
      <3>2. CASE s \notin batch
        BY <2>4, <3>2 DEF RedactSpentSessionTokens, SessionStep
      <3> QED
        BY <3>1, <3>2
    <2> QED
      BY <1>1, <2>1, <2>2, <2>3, <2>4 DEF SessionOperation
  <1>3. UNCHANGED <<account, credential, tokens, clock>> /\ clock \in Nat
    BY DEF SessionOperation, RevokeOwnSession, RevokeOtherSessions, RevokeSession,
           RedactSpentSessionTokens, accessTables, credentialTables, TypeOK,
           CredentialTypeOK
  <1> QED
    BY <1>2, <1>3 DEF Summary, TokenStep, AccountStep

\* Showing to be entitled to an account keeps the summary.
LEMMA EntitledSummary ==
    ASSUME TypeOK, NEW u \in User, Entitled(u)
    PROVE  Summary
  <1>1. ASSUME NEW c \in Caller, attempts[c] # NoAttempt, attempts[c].user = u,
               NEW s \in Session, NEW lifetime \in Lifetime,
               AcceptLogin(c, s, lifetime)
        PROVE  Summary
    <2>1. clock \in Nat /\ lifetime \in Nat
      BY Limits DEF TypeOK, CredentialTypeOK
    <2>2. account'[u] = "active" /\ NewSession(u, s, clock, lifetime)
      BY <1>1 DEF AcceptLogin, Current, accessTables
    <2>3. \A r \in Session : SessionStep(r)
      BY <2>1, <2>2, StartingSession
    <2>4. UNCHANGED <<account, credential, tokens, clock>>
      BY <1>1 DEF AcceptLogin, accessTables
    <2> QED
      BY <2>1, <2>3, <2>4 DEF Summary, TokenStep, AccountStep
  <1>2. ASSUME Revoke(Unrevoked(u)), tokens' = Invalidate(OpenTokens(u)),
               UNCHANGED <<account, clock>>,
               \A v \in User \ {u} : credential'[v] = credential[v]
        PROVE  Summary
    <2>1. Unrevoked(u)' = {} /\ \A s \in Session : SessionStep(s)
      BY <1>2, RevokingAllSessions
    <2>2. OpenTokens(u)' = {} /\ \A t \in Token : TokenStep(t)
      BY <1>2, ClosingAllTokens
    <2>3. \A v \in User : AccountStep(v)
      BY <1>2, <2>1, <2>2 DEF AccountStep
    <2>4. clock' >= clock
      BY <1>2 DEF TypeOK, CredentialTypeOK
    <2> QED
      BY <2>1, <2>2, <2>3, <2>4 DEF Summary
  <1>3. ASSUME NEW c \in Caller, attempts[c] # NoAttempt, attempts[c].user = u,
               AcceptChange(c)
        PROVE  Summary
    BY <1>3, <1>2 DEF AcceptChange, StoreCredential, accessTables, TypeOK,
                      CredentialTypeOK
  <1>4. ASSUME NEW actor \in User, NEW password \in Password,
               SetUserPassword(actor, u, password)
        PROVE  Summary
    BY <1>4, <1>2 DEF SetUserPassword, StoreCredential, accessTables, TypeOK,
                      CredentialTypeOK
  <1>5. ASSUME NEW t \in Token, NEW password \in Password, tokens[t] # NoToken,
               tokens[t].user = u, RedeemPasswordRecovery(t, password)
        PROVE  Summary
    <2>1. Unrevoked(u)' = {} /\ \A s \in Session : SessionStep(s)
      BY <1>5, RevokingAllSessions DEF RedeemPasswordRecovery
    <2>2. /\ tokens[t] \in TokenRow
          /\ tokens'[t] = [tokens[t] EXCEPT !.status = "used"]
      BY <1>5 DEF RedeemPasswordRecovery, TypeOK, CredentialTypeOK
    <2>3. tokens'[t] \in TokenRow
      BY <2>2 DEF TokenRow
    <2>4. /\ tokens'[t] # NoToken
          /\ tokens'[t].user = tokens[t].user
          /\ tokens'[t].expires = tokens[t].expires
          /\ tokens'[t].status = "used"
      BY <2>2, <2>3, NullsAreNoValues DEF TokenRow
    <2>5. \A r \in Token \ {t} : tokens'[r] = tokens[r]
      BY <1>5 DEF RedeemPasswordRecovery, TypeOK, CredentialTypeOK
    <2>6. \A r \in Token : TokenStep(r)
      BY <1>5, <2>4, <2>5 DEF TokenStep
    <2>7. t \in OpenTokens(u) /\ OpenTokens(u)' \subseteq OpenTokens(u) \ {t}
      BY <1>5, <2>4, <2>5 DEF RedeemPasswordRecovery, Redeemable, OpenTokens
    <2>8. /\ UNCHANGED <<account, clock>>
          /\ \A v \in User \ {u} : credential'[v] = credential[v]
          /\ clock \in Nat
      BY <1>5 DEF RedeemPasswordRecovery, StoreCredential, accessTables, TypeOK,
                  CredentialTypeOK
    <2>9. \A v \in User : AccountStep(v)
      BY <2>1, <2>7, <2>8 DEF AccountStep
    <2> QED
      BY <2>1, <2>6, <2>8, <2>9 DEF Summary
  <1> QED
    BY <1>1, <1>3, <1>4, <1>5 DEF Entitled

\* Every step does to sessions, tokens and accounts what the summary says.
LEMMA EveryStepSummary ==
    ASSUME TypeOK, [Next]_securityVars
    PROVE  Summary
  <1> USE DEF TypeOK, CredentialTypeOK
  <1>1. CASE Tick
    BY <1>1, QuietSteps DEF Tick, accessVars, accessTables, credentialTables
  <1>2. ASSUME NEW actor \in User, AccessOperation(actor), UNCHANGED credentialVars
        PROVE  Summary
    BY <1>2, QuietSteps, AccessDisablesNobody DEF credentialVars, credentialTables
  <1>3. ASSUME NEW c \in Caller, CallStep(c)
        PROVE  Summary
    BY <1>3, QuietSteps DEF CallStep, BeginLogin, BeginChange, AbandonAttempt,
                            accessVars, accessTables, credentialTables
  <1>4. ASSUME NEW u \in User, WrongGuess(u)
        PROVE  Summary
    BY <1>4, QuietSteps DEF WrongGuess, RejectPassword, accessVars, accessTables
  <1>5. CASE UNCHANGED securityVars
    BY <1>5, QuietSteps DEF securityVars, accessVars, accessTables, credentialVars,
                            credentialTables
  <1> QED
    BY <1>1, <1>2, <1>3, <1>4, <1>5, AccountOperationSummary,
       SessionOperationSummary, EntitledSummary
       DEF Next, OtherOperation

-----------------------------------------------------------------------------
(* Spent access.                                                           *)

\* What is not revoked or still open belongs to an active user, and no user has
\* two open tokens.
LiveAccess ==
    /\ \A u \in User : account[u] # "active" =>
          Unrevoked(u) = {} /\ OpenTokens(u) = {}
    /\ \A u \in User : \A t1, t2 \in OpenTokens(u) : t1 = t2

\* LiveAccess holds initially and every step keeps it.
LEMMA LiveAccessIsInvariant == Spec => []LiveAccess
  <1>1. Init => LiveAccess
    BY DEF Init, CredentialInit, LiveAccess, Unrevoked, OpenTokens
  <1>2. ASSUME LiveAccess, Summary, TypeOK, TypeOK'
        PROVE  LiveAccess'
    <2>1. ASSUME NEW u \in User, account'[u] # "active"
          PROVE  Unrevoked(u)' = {} /\ OpenTokens(u)' = {}
      <3>1. CASE account[u] = "active"
        BY <1>2, <2>1, <3>1 DEF Summary, AccountStep
      <3>2. CASE account[u] # "active"
        <4>1. Unrevoked(u) = {} /\ OpenTokens(u) = {}
          BY <1>2, <3>2 DEF LiveAccess
        <4>2. ASSUME NEW s \in Session, s \in Unrevoked(u)' PROVE FALSE
          BY <1>2, <2>1, <4>1, <4>2 DEF Unrevoked, Summary, SessionStep
        <4>3. ASSUME NEW t \in Token, t \in OpenTokens(u)' PROVE FALSE
          BY <1>2, <2>1, <4>1, <4>3 DEF OpenTokens, Summary, TokenStep
        <4>4. Unrevoked(u)' \subseteq Session /\ OpenTokens(u)' \subseteq Token
          BY DEF Unrevoked, OpenTokens
        <4> QED
          BY <4>2, <4>3, <4>4
      <3> QED
        BY <3>1, <3>2
    <2>2. ASSUME NEW u \in User, NEW t1 \in OpenTokens(u)', NEW t2 \in OpenTokens(u)'
          PROVE  t1 = t2
      <3>1. /\ t1 \in Token /\ tokens'[t1] # NoToken /\ tokens'[t1].user = u
            /\ t2 \in Token /\ tokens'[t2] # NoToken /\ tokens'[t2].user = u
            /\ tokens'[t1].status = "open" /\ tokens'[t2].status = "open"
        BY DEF OpenTokens
      <3>2. TokenStep(t1) /\ TokenStep(t2)
        BY <1>2, <3>1 DEF Summary
      <3>3. CASE tokens[t1] = NoToken \/ tokens[t2] = NoToken
        BY <3>1, <3>2, <3>3 DEF TokenStep, OpenTokens
      <3>4. CASE tokens[t1] # NoToken /\ tokens[t2] # NoToken
        <4>1. t1 \in OpenTokens(u) /\ t2 \in OpenTokens(u)
          BY <3>1, <3>2, <3>4 DEF TokenStep, OpenTokens
        <4> QED
          BY <1>2, <4>1 DEF LiveAccess
      <3> QED
        BY <3>3, <3>4
    <2> QED
      BY <2>1, <2>2 DEF LiveAccess
  <1> QED
    BY <1>1, <1>2, EveryStepSummary, NextKeepsTypes, TypeCorrect, PTL DEF Spec

\* A session or a token that does not work will never work again.
THEOREM SpentStaysSpent == Spec => SpentAccessStaysSpent
  <1>1. ASSUME LiveAccess, Summary, TypeOK, TypeOK'
        PROVE  /\ \A s \in Session :
                     sessions[s] # NoSession /\ ~Usable(s) => ~Usable(s)'
               /\ \A t \in Token :
                     tokens[t] # NoToken /\ ~Redeemable(t) => ~Redeemable(t)'
    <2>1. clock \in Nat /\ clock' \in Nat /\ clock' >= clock
      BY <1>1 DEF TypeOK, CredentialTypeOK, Summary
    <2>2. ASSUME NEW s \in Session, sessions[s] # NoSession, ~Usable(s)
          PROVE  ~Usable(s)'
      <3>1. sessions[s] \in SessionRow /\ SessionStep(s)
        BY <1>1, <2>2 DEF TypeOK, CredentialTypeOK, Summary
      <3>2. sessions[s].user \in User /\ sessions[s].expires \in Nat
        BY <3>1 DEF SessionRow
      <3>3. CASE account[sessions[s].user] # "active"
        <4>1. sessions[s].revoked # Never
          BY <1>1, <2>2, <3>2, <3>3 DEF LiveAccess, Unrevoked
        <4> QED
          BY <2>2, <3>1, <4>1 DEF SessionStep, Usable
      <3>4. CASE sessions[s].expires <= clock
        BY <2>1, <2>2, <3>1, <3>2, <3>4 DEF SessionStep, Usable
      <3>5. CASE sessions[s].redacted \/ sessions[s].revoked # Never
        BY <2>2, <3>1, <3>5 DEF SessionStep, Usable
      <3> QED
        BY <2>1, <2>2, <3>2, <3>3, <3>4, <3>5 DEF Usable
    <2>3. ASSUME NEW t \in Token, tokens[t] # NoToken, ~Redeemable(t)
          PROVE  ~Redeemable(t)'
      <3>1. tokens[t] \in TokenRow /\ TokenStep(t)
        BY <1>1, <2>3 DEF TypeOK, CredentialTypeOK, Summary
      <3>2. tokens[t].user \in User /\ tokens[t].expires \in Nat
        BY <3>1 DEF TokenRow
      <3>3. CASE account[tokens[t].user] # "active"
        <4>1. tokens[t].status # "open"
          BY <1>1, <2>3, <3>2, <3>3 DEF LiveAccess, OpenTokens
        <4> QED
          BY <2>3, <3>1, <4>1 DEF TokenStep, Redeemable
      <3>4. CASE tokens[t].expires <= clock
        BY <2>1, <2>3, <3>1, <3>2, <3>4 DEF TokenStep, Redeemable
      <3>5. CASE tokens[t].status # "open"
        BY <2>3, <3>1, <3>5 DEF TokenStep, Redeemable
      <3> QED
        BY <2>1, <2>3, <3>2, <3>3, <3>4, <3>5 DEF Redeemable
    <2> QED
      BY <2>2, <2>3
  <1> QED
    BY <1>1, EveryStepSummary, NextKeepsTypes, TypeCorrect, LiveAccessIsInvariant,
       PTL DEF Spec, SpentAccessStaysSpent

\* When a password is replaced nothing issued under the old one works.  For the
\* redeeming of a token that is so because it was the user's only open one
\* (password_credentials.cpp:691).
THEOREM NewPasswordsEndAccess == Spec => NewPasswordEndsOldAccess
  <1>1. ASSUME LiveAccess, Summary
        PROVE  \A u \in User : credential'[u] # credential[u] =>
                  /\ \A s \in Session : (Usable(s) => sessions[s].user # u)'
                  /\ \A t \in Token : (Redeemable(t) => tokens[t].user # u)'
    <2> SUFFICES ASSUME NEW u \in User, credential'[u] # credential[u]
                 PROVE  /\ \A s \in Session : (Usable(s) => sessions[s].user # u)'
                        /\ \A t \in Token : (Redeemable(t) => tokens[t].user # u)'
      OBVIOUS
    <2>1. Unrevoked(u)' = {}
      BY <1>1 DEF Summary, AccountStep
    <2>2. OpenTokens(u)' = {}
      BY <1>1 DEF Summary, AccountStep, LiveAccess
    <2> QED
      BY <2>1, <2>2 DEF Unrevoked, OpenTokens, Usable, Redeemable
  <1> QED
    BY <1>1, EveryStepSummary, TypeCorrect, LiveAccessIsInvariant,
       PTL DEF Spec, NewPasswordEndsOldAccess

-----------------------------------------------------------------------------
(* Passwords checked before the lock.                                      *)

\* A change of password in progress names a session of its user.
ChangesNameTheOwner ==
    \A c \in Caller : attempts[c] # NoAttempt /\ attempts[c].call = "change" =>
        /\ sessions[attempts[c].session] # NoSession
        /\ sessions[attempts[c].session].user = attempts[c].user

\* Only its own steps change a call in progress: one of them begins a call when
\* there was none.
LEMMA AttemptSteps ==
    ASSUME TypeOK, [Next]_securityVars, NEW c \in Caller
    PROVE  \/ attempts'[c] = attempts[c]
           \/ attempts'[c] = NoAttempt
           \/ attempts'[c] \in LoginCall
           \/ \E s \in Session, password, new \in Password :
                 BeginChange(c, s, password, new)
  <1> DEFINE Conclusion == \/ attempts'[c] = attempts[c]
                           \/ attempts'[c] = NoAttempt
                           \/ attempts'[c] \in LoginCall
                           \/ \E s \in Session, password, new \in Password :
                                 BeginChange(c, s, password, new)
  <1> USE DEF TypeOK, CredentialTypeOK
  <1>1. CASE OtherOperation /\ ~\E d \in Caller : CallStep(d)
    BY <1>1 DEF OtherOperation, Tick, AccountOperation, DisableUser, IssueSession,
                IssuePasswordRecovery, SessionOperation, RevokeOwnSession,
                RevokeOtherSessions, RevokeSession, RedactSpentSessionTokens,
                credentialVars
  <1>2. ASSUME NEW d \in Caller, NEW u \in User, NEW password \in Password,
               BeginLogin(d, u, password)
        PROVE  Conclusion
    <2>1. [call |-> "login", user |-> u, password |-> password,
           seen |-> credential[u]] \in LoginCall
      BY <1>2 DEF BeginLogin, LoginCall
    <2> QED
      BY <1>2, <2>1 DEF BeginLogin
  <1>3. ASSUME NEW d \in Caller, NEW s \in Session, NEW password \in Password,
               NEW new \in Password, BeginChange(d, s, password, new)
        PROVE  Conclusion
    <2>1. CASE d = c
      BY <1>3, <2>1
    <2>2. CASE d # c
      BY <1>3, <2>2 DEF BeginChange
    <2> QED
      BY <2>1, <2>2
  <1>4. ASSUME NEW d \in Caller, AbandonAttempt(d)
        PROVE  Conclusion
    BY <1>4 DEF AbandonAttempt
  <1>5. ASSUME NEW u \in User, WrongGuess(u) \/ Entitled(u)
        PROVE  Conclusion
    BY <1>5 DEF WrongGuess, RejectPassword, Entitled, AcceptLogin, AcceptChange,
                SetUserPassword, RedeemPasswordRecovery
  <1>6. CASE UNCHANGED securityVars
    BY <1>6 DEF securityVars, credentialVars
  <1> QED
    BY <1>1, <1>2, <1>3, <1>4, <1>5, <1>6 DEF Next, CallStep

\* ChangesNameTheOwner holds in every reachable state.
LEMMA ChangesNameTheOwnerIsInvariant == Spec => []ChangesNameTheOwner
  <1>1. Init => ChangesNameTheOwner
    BY DEF Init, CredentialInit, ChangesNameTheOwner
  <1>2. ASSUME ChangesNameTheOwner, TypeOK, [Next]_securityVars, Summary
        PROVE  ChangesNameTheOwner'
    <2> SUFFICES ASSUME NEW c \in Caller, attempts'[c] # NoAttempt,
                        attempts'[c].call = "change"
                 PROVE  /\ sessions'[attempts'[c].session] # NoSession
                        /\ sessions'[attempts'[c].session].user = attempts'[c].user
      BY DEF ChangesNameTheOwner
    <2>1. CASE attempts'[c] = attempts[c]
      <3>1. attempts[c].session \in Session
        BY <1>2, <2>1, AttemptTypes
      <3> QED
        BY <1>2, <2>1, <3>1 DEF ChangesNameTheOwner, Summary, SessionStep
    <2>2. attempts'[c] \notin LoginCall
      BY DEF LoginCall
    <2>3. ASSUME NEW s \in Session, NEW password \in Password, NEW new \in Password,
                 BeginChange(c, s, password, new)
          PROVE  /\ sessions'[attempts'[c].session] # NoSession
                 /\ sessions'[attempts'[c].session].user = attempts'[c].user
      <3>1. /\ attempts'[c].session = s
            /\ attempts'[c].user = sessions[s].user
            /\ sessions' = sessions
            /\ sessions[s] # NoSession
        BY <1>2, <2>3 DEF BeginChange, Usable, TypeOK, CredentialTypeOK
      <3> QED
        BY <3>1
    <2> QED
      BY <1>2, <2>1, <2>2, <2>3, AttemptSteps
  <1> QED
    BY <1>1, <1>2, EveryStepSummary, TypeCorrect, PTL DEF Spec

\* A call that ends and has opened a session or replaced a password has used
\* the current password of an active user.
LEMMA AcceptedPasswords ==
    ASSUME TypeOK, ChangesNameTheOwner, [Next]_securityVars, NEW c \in Caller,
           attempts[c] # NoAttempt, attempts'[c] = NoAttempt,
           \/ \E s \in Session : sessions[s] = NoSession /\ sessions'[s] # NoSession
           \/ credential' # credential
    PROVE  /\ account[attempts[c].user] = "active"
           /\ credential[attempts[c].user].password = attempts[c].password
  <1> USE DEF TypeOK, CredentialTypeOK
  <1>1. ~UNCHANGED <<sessions, credential>> /\ ~UNCHANGED attempts
    OBVIOUS
  <1>2. ~OtherOperation
    <2>1. ~\E d \in Caller : CallStep(d)
      BY <1>1 DEF CallStep, BeginLogin, BeginChange, AbandonAttempt, credentialTables
    <2> QED
      BY <1>1, <2>1 DEF OtherOperation, Tick, AccountOperation, DisableUser,
             IssueSession, IssuePasswordRecovery, SessionOperation,
             RevokeOwnSession, RevokeOtherSessions, RevokeSession,
             RedactSpentSessionTokens, credentialVars
  <1>3. ~UNCHANGED securityVars /\ ~\E u \in User : WrongGuess(u)
    <2>1. ASSUME NEW d \in Caller, RejectPassword(d)
          PROVE  FALSE
      BY <1>1, <2>1 DEF RejectPassword
    <2> QED
      BY <1>1, <2>1 DEF securityVars, credentialVars, WrongGuess
  <1>4. PICK u \in User : Entitled(u)
    BY <1>2, <1>3 DEF Next
  <1>5. PICK d \in Caller :
           /\ attempts[d] # NoAttempt
           /\ \/ \E s \in Session, lifetime \in Lifetime : AcceptLogin(d, s, lifetime)
              \/ AcceptChange(d)
    BY <1>1, <1>4 DEF Entitled, SetUserPassword, RedeemPasswordRecovery
  <1>6. d = c
    BY <1>5 DEF AcceptLogin, AcceptChange
  <1>7. /\ Current(c)
        /\ Matches(c)
        /\ attempts[c] \in LoginCall \cup ChangeCall
    BY <1>5, <1>6 DEF AcceptLogin, AcceptChange
  <1>8. credential[attempts[c].user].password = attempts[c].password
    BY <1>7 DEF Current, Matches
  <1>9. account[attempts[c].user] = "active"
    BY <1>7 DEF Current, Usable, ChangesNameTheOwner, LoginCall, ChangeCall
  <1> QED
    BY <1>8, <1>9

\* A password that was checked before the lock opens nothing after it was
\* replaced or its user disabled (password_credentials.cpp:398).
THEOREM OldPasswordsAreRefused == Spec => OldPasswordsOpenNothing
  <1>1. ASSUME TypeOK, ChangesNameTheOwner, [Next]_securityVars
        PROVE  \A c \in Caller :
                  (/\ attempts[c] # NoAttempt
                   /\ attempts'[c] = NoAttempt
                   /\ \/ \E s \in Session :
                            sessions[s] = NoSession /\ sessions'[s] # NoSession
                      \/ credential' # credential) =>
                         /\ account[attempts[c].user] = "active"
                         /\ credential[attempts[c].user].password = attempts[c].password
    BY <1>1, AcceptedPasswords
  <1> QED
    BY <1>1, TypeCorrect, ChangesNameTheOwnerIsInvariant, PTL
       DEF Spec, OldPasswordsOpenNothing

-----------------------------------------------------------------------------
(* The number of sessions.                                                 *)

\* A session begins alone, and only when its user has fewer running than allowed.
StartsWithinLimit ==
    \A s \in Session : sessions[s] = NoSession /\ sessions'[s] # NoSession =>
        /\ \A r \in Session \ {s} : sessions'[r] = sessions[r]
        /\ UNCHANGED clock
        /\ HasSessionCapacity(sessions'[s].user, clock)

\* The sessions that run now ran at an earlier time, too: a count taken then
\* is not too small.
LEMMA EarlierCountsMore ==
    ASSUME TypeOK, NEW u \in User, NEW at \in Earlier, HasSessionCapacity(u, at)
    PROVE  HasSessionCapacity(u, clock)
  <1>1. \A s \in Unrevoked(u) : sessions[s].expires \in Nat
    BY DEF Unrevoked, TypeOK, CredentialTypeOK, SessionRow
  <1>2. at \in Nat /\ at <= clock /\ clock \in Nat
    BY DEF Earlier, Time, TypeOK, CredentialTypeOK
  <1>3. Running(u, clock) \subseteq Running(u, at)
    BY <1>1, <1>2 DEF Running
  <1>4. Running(u, at) \subseteq Session
    BY DEF Running, Unrevoked
  <1>5. IsFiniteSet(Running(u, at))
    BY <1>4, Limits, FS_Subset
  <1>6. /\ Cardinality(Running(u, clock)) <= Cardinality(Running(u, at))
        /\ Cardinality(Running(u, clock)) \in Nat
        /\ Cardinality(Running(u, at)) \in Nat
    BY <1>3, <1>5, FS_Subset, FS_CardinalityType
  <1> QED
    BY <1>6, Limits DEF HasSessionCapacity

\* No step but the issuing of a session and a login starts one.
LEMMA EveryStepStartsWithinLimit ==
    ASSUME TypeOK, [Next]_securityVars
    PROVE  StartsWithinLimit
  <1>1. CASE \A s \in Session : sessions[s] = NoSession => sessions'[s] = NoSession
    BY <1>1 DEF StartsWithinLimit
  <1>2. ASSUME NEW actor \in User, NEW u \in User, NEW s \in Session,
               NEW at \in Earlier, NEW lifetime \in Lifetime,
               IssueSession(actor, u, s, at, lifetime)
        PROVE  StartsWithinLimit
    <2>1. at \in Nat /\ lifetime \in Nat
      BY Limits DEF Earlier, Time
    <2>2. /\ \A r \in Session \ {s} : sessions'[r] = sessions[r]
          /\ sessions'[s].user = u
      BY <1>2, <2>1, StartingSession DEF IssueSession, accessTables
    <2>3. HasSessionCapacity(u, clock)
      BY <1>2, EarlierCountsMore DEF IssueSession
    <2> QED
      BY <1>2, <2>2, <2>3 DEF IssueSession, StartsWithinLimit
  <1>3. ASSUME NEW c \in Caller, attempts[c] # NoAttempt, NEW s \in Session,
               NEW lifetime \in Lifetime, AcceptLogin(c, s, lifetime)
        PROVE  StartsWithinLimit
    <2> DEFINE u == attempts[c].user
    <2>1. u \in User /\ clock \in Nat /\ lifetime \in Nat
      BY <1>3, Limits, AttemptTypes DEF TypeOK, CredentialTypeOK
    <2>2. account'[u] = "active" /\ NewSession(u, s, clock, lifetime)
      BY <1>3 DEF AcceptLogin, Current, accessTables
    <2>3. /\ \A r \in Session \ {s} : sessions'[r] = sessions[r]
          /\ sessions'[s].user = u
      BY <2>1, <2>2, StartingSession
    <2> QED
      BY <1>3, <2>3 DEF AcceptLogin, StartsWithinLimit
  <1>4. ASSUME NEW gone \in SUBSET Session, \A s \in gone : sessions[s] # NoSession,
               Revoke(gone)
        PROVE  \A s \in Session : sessions[s] = NoSession => sessions'[s] = NoSession
    BY <1>4, RevokingSessions
  <1>5. ASSUME NEW u, Revoke(Unrevoked(u)) PROVE StartsWithinLimit
    BY <1>1, <1>4, <1>5 DEF Unrevoked
  <1>6. CASE SessionOperation
    <2>1. ASSUME NEW current \in Session, NEW s \in Session,
                 RevokeOwnSession(current, s)
          PROVE  Revoke({s}) /\ sessions[s] # NoSession
      BY <2>1 DEF RevokeOwnSession, Running, Unrevoked
    <2>2. ASSUME NEW current \in Session, RevokeOtherSessions(current)
          PROVE  StartsWithinLimit
      BY <2>2, <1>1, <1>4 DEF RevokeOtherSessions, Running, Unrevoked
    <2>3. ASSUME NEW actor \in User, NEW s \in Session, RevokeSession(actor, s)
          PROVE  Revoke({s}) /\ sessions[s] # NoSession
      BY <2>3 DEF RevokeSession
    <2>4. ASSUME NEW actor \in User, NEW at \in Earlier, NEW cutoff \in Time,
                 NEW limit \in 1..Cardinality(Session), NEW batch \in SUBSET Session,
                 RedactSpentSessionTokens(actor, at, cutoff, limit, batch)
          PROVE  StartsWithinLimit
      BY <2>4, <1>1 DEF RedactSpentSessionTokens, Redactable
    <2> QED
      BY <1>1, <1>4, <1>6, <2>1, <2>2, <2>3, <2>4 DEF SessionOperation
  <1>7. ASSUME NEW actor \in User, NEW u \in User, AccountOperation(actor, u)
        PROVE  StartsWithinLimit
    BY <1>1, <1>2, <1>5, <1>7 DEF AccountOperation, DisableUser, IssuePasswordRecovery
  <1>8. ASSUME NEW u \in User, Entitled(u)
        PROVE  StartsWithinLimit
    BY <1>3, <1>5, <1>8 DEF Entitled, AcceptChange, SetUserPassword,
                            RedeemPasswordRecovery
  <1>9. CASE UNCHANGED sessions
    BY <1>1, <1>9
  <1>10. CASE OtherOperation /\ ~SessionOperation
               /\ ~\E actor, u \in User : AccountOperation(actor, u)
    BY <1>9, <1>10 DEF OtherOperation, Tick, credentialVars, CallStep, BeginLogin,
                       BeginChange, AbandonAttempt
  <1>11. CASE UNCHANGED securityVars \/ \E u \in User : WrongGuess(u)
    BY <1>9, <1>11 DEF securityVars, credentialVars, WrongGuess, RejectPassword
  <1> QED
    BY <1>6, <1>7, <1>8, <1>10, <1>11 DEF Next

\* No user ever has more sessions running than allowed, although the number is
\* counted as of a time that was taken before the wait for the lock
\* (sessions.cpp:75).
THEOREM SessionLimitHolds == Spec => []SessionsWithinLimit
  <1>1. Init => SessionsWithinLimit
    <2> SUFFICES ASSUME Init, NEW u \in User
                 PROVE  Cardinality(Running(u, clock)) <= MaxActiveSessions
      BY DEF SessionsWithinLimit
    <2>1. Running(u, clock) = {}
      BY DEF Init, CredentialInit, Running, Unrevoked
    <2>2. Cardinality(Running(u, clock)) = 0
      BY <2>1, FS_EmptySet
    <2> QED
      BY <2>2, Limits
  <1>2. ASSUME TypeOK, TypeOK', SessionsWithinLimit, Summary, StartsWithinLimit
        PROVE  SessionsWithinLimit'
    <2> SUFFICES ASSUME NEW u \in User
                 PROVE  Cardinality(Running(u, clock)') <= MaxActiveSessions
      BY DEF SessionsWithinLimit
    <2> DEFINE old == Running(u, clock)
               now == Running(u, clock)'
    <2>1. old \subseteq Session /\ IsFiniteSet(old) /\ Cardinality(old) \in Nat
      <3>1. old \subseteq Session
        BY DEF Running, Unrevoked
      <3> QED
        BY <3>1, Limits, FS_Subset, FS_CardinalityType
    <2>2. Cardinality(old) <= MaxActiveSessions
      BY <1>2 DEF SessionsWithinLimit
    <2>3. \A s \in now : s \in Session /\ sessions'[s] # NoSession
      BY DEF Running, Unrevoked
    <2>4. \A s \in now : sessions[s] # NoSession => s \in old
      <3> SUFFICES ASSUME NEW s \in now, sessions[s] # NoSession PROVE s \in old
        OBVIOUS
      <3>1. s \in Session /\ sessions[s] \in SessionRow /\ SessionStep(s)
        BY <1>2, <2>3 DEF TypeOK, CredentialTypeOK, Summary
      <3>2. sessions[s].expires \in Nat /\ clock \in Nat /\ clock' \in Nat
            /\ clock' >= clock
        BY <1>2, <3>1 DEF SessionRow, TypeOK, CredentialTypeOK, Summary
      <3> QED
        BY <3>1, <3>2 DEF Running, Unrevoked, SessionStep
    <2>5. CASE \A s \in now : sessions[s] # NoSession
      <3>1. now \subseteq old
        BY <2>4, <2>5
      <3>2. Cardinality(now) <= Cardinality(old) /\ Cardinality(now) \in Nat
        BY <2>1, <3>1, FS_Subset, FS_CardinalityType
      <3> HIDE DEF old, now
      <3>3. Cardinality(now) <= MaxActiveSessions
        BY <2>1, <2>2, <3>2, Limits
      <3> QED
        BY <3>3 DEF now
    <2>6. ASSUME NEW s \in now, sessions[s] = NoSession
          PROVE  Cardinality(now) <= MaxActiveSessions
      <3>1. /\ \A r \in Session \ {s} : sessions'[r] = sessions[r]
            /\ HasSessionCapacity(sessions'[s].user, clock)
            /\ sessions'[s].user = u
        BY <1>2, <2>3, <2>6 DEF StartsWithinLimit, Running, Unrevoked
      <3>2. Cardinality(old) < MaxActiveSessions
        BY <3>1 DEF HasSessionCapacity
      <3>3. s \notin old
        BY <2>6 DEF Running, Unrevoked
      <3>4. now \subseteq old \cup {s}
        BY <2>3, <2>4, <3>1
      <3>5. /\ IsFiniteSet(old \cup {s})
            /\ Cardinality(old \cup {s}) = Cardinality(old) + 1
        BY <2>1, <3>3, FS_AddElement
      <3>6. Cardinality(now) <= Cardinality(old \cup {s}) /\ Cardinality(now) \in Nat
        BY <3>4, <3>5, FS_Subset, FS_CardinalityType
      <3> HIDE DEF old, now
      <3> QED
        BY <2>1, <3>2, <3>5, <3>6, Limits
    <2> QED
      BY <2>5, <2>6
  <1> QED
    BY <1>1, <1>2, EveryStepSummary, EveryStepStartsWithinLimit, NextKeepsTypes,
       TypeCorrect, PTL DEF Spec

-----------------------------------------------------------------------------
(* The end of a session, and the audit log.                                *)

\* A step after which a usable session is revoked, or its user disabled, leaves
\* one event, by its user or by a manager, and does not redact it.
EndsByRight(s) ==
    /\ lastEvent'.sequence = lastEvent.sequence + 1
    /\ ~sessions'[s].redacted
    /\ \/ lastEvent'.actor = sessions[s].user
       \/ CanManage(lastEvent'.actor)

\* An audited step writes one event of a manager.
LEMMA AuditedEvent ==
    ASSUME TypeOK, NEW actor \in User, Audited(actor)
    PROVE  /\ lastEvent'.sequence = lastEvent.sequence + 1
           /\ CanManage(lastEvent'.actor)
  BY DEF Audited, WriteEvents

\* Revoking redacts nothing.
LEMMA RevokingRedactsNothing ==
    ASSUME TypeOK, NEW gone, Revoke(gone), NEW s \in Session, Usable(s)
    PROVE  /\ ~sessions'[s].redacted
           /\ s \notin gone => sessions'[s] = sessions[s]
  <1>1. sessions[s] \in SessionRow /\ ~sessions[s].redacted
    BY DEF Usable, TypeOK, CredentialTypeOK
  <1>2. CASE s \in gone
    <2>1. sessions'[s] = [sessions[s] EXCEPT !.revoked = clock]
      BY <1>2 DEF Revoke
    <2> QED
      BY <1>1, <1>2, <2>1 DEF SessionRow
  <1>3. CASE s \notin gone
    BY <1>1, <1>3 DEF Revoke
  <1> QED
    BY <1>2, <1>3

\* A step by which a usable session stops working other than by its expiry.
LEMMA SessionEndSteps ==
    ASSUME TypeOK, TypeOK', LiveAccess, [Next]_securityVars, NEW s \in Session,
           Usable(s), ~Usable(s)', sessions[s].expires # clock'
    PROVE  EndsByRight(s)
  <1> DEFINE same == UNCHANGED <<sessions, account, clock>>
  <1>1. ~same
    BY DEF Usable
  <1>2. sessions[s] \in SessionRow /\ s \in Unrevoked(sessions[s].user)
    BY DEF Usable, Unrevoked, TypeOK, CredentialTypeOK
  <1>3. ~Tick
    <2>1. clock \in Nat /\ sessions[s].expires \in Nat
      BY <1>2 DEF SessionRow, TypeOK, CredentialTypeOK
    <2> QED
      BY <2>1 DEF Tick, accessVars, accessTables, Usable
  <1>4. ASSUME NEW actor \in User, AccessOperation(actor), UNCHANGED credentialVars
        PROVE  FALSE
    <2>1. account'[sessions[s].user] = "active"
      BY <1>2, <1>4, AccessDisablesNobody DEF Usable, SessionRow
    <2> QED
      BY <1>4, <2>1 DEF credentialVars, Usable
  <1>5. ASSUME NEW actor \in User, NEW u \in User, AccountOperation(actor, u)
        PROVE  EndsByRight(s)
    <2>1. CASE DisableUser(actor, u)
      BY <2>1, RevokingRedactsNothing, AuditedEvent
         DEF DisableUser, DisableAccount, EndsByRight
    <2>2. ASSUME NEW r \in Session, NEW at \in Earlier, NEW lifetime \in Lifetime,
                 IssueSession(actor, u, r, at, lifetime)
          PROVE  FALSE
      <3>1. r # s /\ sessions'[s] = sessions[s]
        BY <2>2 DEF IssueSession, NewSession, Usable, TypeOK, CredentialTypeOK
      <3> QED
        BY <2>2, <3>1 DEF IssueSession, accessTables, Usable
    <2>3. ~\E t \in Token, at \in Earlier, lifetime \in Lifetime :
             IssuePasswordRecovery(actor, u, t, at, lifetime)
      BY <1>1 DEF IssuePasswordRecovery, accessTables
    <2> QED
      BY <1>5, <2>1, <2>2, <2>3 DEF AccountOperation
  <1>6. CASE SessionOperation
    <2> USE DEF EndsByRight
    <2>1. ASSUME NEW gone, Revoke(gone), UNCHANGED <<account, clock>>
          PROVE  s \in gone /\ ~sessions'[s].redacted
      BY <2>1, RevokingRedactsNothing DEF Usable
    <2>2. ASSUME NEW current \in Session, NEW r \in Session,
                 RevokeOwnSession(current, r)
          PROVE  EndsByRight(s)
      <3>1. s = r /\ ~sessions'[s].redacted
        BY <2>1, <2>2 DEF RevokeOwnSession, accessTables
      <3> QED
        BY <2>2, <3>1 DEF RevokeOwnSession, WriteEvents, Running, Unrevoked
    <2>3. ASSUME NEW current \in Session, RevokeOtherSessions(current)
          PROVE  EndsByRight(s)
      <3>1. /\ s \in Running(sessions[current].user, clock)
            /\ ~sessions'[s].redacted
        BY <2>1, <2>3 DEF RevokeOtherSessions, accessTables
      <3> QED
        BY <2>3, <3>1 DEF RevokeOtherSessions, WriteEvents, Running, Unrevoked
    <2>4. ASSUME NEW actor \in User, NEW r \in Session, RevokeSession(actor, r)
          PROVE  EndsByRight(s)
      <3>1. ~sessions'[s].redacted
        BY <2>1, <2>4 DEF RevokeSession, accessTables
      <3> QED
        BY <2>4, <3>1, AuditedEvent DEF RevokeSession
    <2>5. ASSUME NEW actor \in User, NEW at \in Earlier, NEW cutoff \in Time,
                 NEW limit \in 1..Cardinality(Session), NEW batch \in SUBSET Session,
                 RedactSpentSessionTokens(actor, at, cutoff, limit, batch)
          PROVE  FALSE
      <3>1. at \in Nat /\ at <= clock /\ clock \in Nat /\ sessions[s].expires \in Nat
        BY <1>2 DEF Earlier, Time, SessionRow, TypeOK, CredentialTypeOK
      <3>2. s \notin Redactable(at, cutoff)
        BY <3>1 DEF Redactable, Usable
      <3>3. sessions'[s] = sessions[s]
        BY <2>5, <3>2 DEF RedactSpentSessionTokens
      <3> QED
        BY <2>5, <3>3 DEF RedactSpentSessionTokens, accessTables, Usable
    <2> QED
      BY <1>6, <2>2, <2>3, <2>4, <2>5 DEF SessionOperation
  <1>7. ~\E c \in Caller : CallStep(c)
    BY <1>1 DEF CallStep, BeginLogin, BeginChange, AbandonAttempt, accessVars,
                accessTables
  <1>8. ~\E u \in User : WrongGuess(u)
    BY <1>1 DEF WrongGuess, RejectPassword, accessVars, accessTables
  <1>9. ASSUME NEW u \in User, Entitled(u)
        PROVE  EndsByRight(s)
    <2>1. ASSUME NEW c \in Caller, NEW r \in Session, NEW lifetime \in Lifetime,
                 AcceptLogin(c, r, lifetime)
          PROVE  FALSE
      <3>1. r # s /\ sessions'[s] = sessions[s]
        BY <2>1 DEF AcceptLogin, NewSession, Usable, TypeOK, CredentialTypeOK
      <3> QED
        BY <2>1, <3>1 DEF AcceptLogin, accessTables, Usable
    <2>2. ASSUME Revoke(Unrevoked(u)), UNCHANGED <<account, clock>>
          PROVE  sessions[s].user = u /\ ~sessions'[s].redacted
      BY <2>2, RevokingRedactsNothing DEF Usable, Unrevoked
    <2>3. ASSUME NEW c \in Caller, attempts[c].user = u, AcceptChange(c)
          PROVE  EndsByRight(s)
      BY <2>2, <2>3 DEF AcceptChange, accessTables, WriteEvents, EndsByRight
    <2>4. ASSUME NEW actor \in User, NEW password \in Password,
                 SetUserPassword(actor, u, password)
          PROVE  EndsByRight(s)
      BY <2>2, <2>4, AuditedEvent DEF SetUserPassword, accessTables, EndsByRight
    <2>5. ASSUME NEW t \in Token, NEW password \in Password, tokens[t].user = u,
                 RedeemPasswordRecovery(t, password)
          PROVE  EndsByRight(s)
      BY <2>2, <2>5 DEF RedeemPasswordRecovery, accessTables, WriteEvents, EndsByRight
    <2> QED
      BY <1>9, <2>1, <2>3, <2>4, <2>5 DEF Entitled
  <1>10. ~UNCHANGED securityVars
    BY <1>1 DEF securityVars, accessVars, accessTables, credentialVars
  <1> QED
    BY <1>3, <1>4, <1>5, <1>6, <1>7, <1>8, <1>9, <1>10 DEF Next, OtherOperation

\* A session ends when it expires or by an audited operation of somebody who has
\* the right to end it (sessions.cpp:405).
THEOREM SessionsEndOnlyByRight == Spec => SessionsEndByRight
  <1>1. ASSUME TypeOK, TypeOK', LiveAccess, [Next]_securityVars
        PROVE  \A s \in Session : Usable(s) /\ ~Usable(s)' =>
                  \/ sessions[s].expires = clock'
                  \/ /\ lastEvent'.sequence = lastEvent.sequence + 1
                     /\ ~sessions'[s].redacted
                     /\ \/ lastEvent'.actor = sessions[s].user
                        \/ CanManage(lastEvent'.actor)
    BY <1>1, SessionEndSteps DEF EndsByRight
  <1> QED
    BY <1>1, NextKeepsTypes, TypeCorrect, LiveAccessIsInvariant, PTL
       DEF Spec, SessionsEndByRight

\* Every change of accounts, rights, credentials, sessions or tokens leaves an
\* audit event in the same step (security_audit.cpp:128).
THEOREM ChangesLeaveEvents == Spec => ChangesAreAudited
  <1> DEFINE written == lastEvent'.sequence > lastEvent.sequence
             quiet == /\ UNCHANGED <<account, catalog, members, grants, credential,
                                     sessions, tokens>>
                      /\ assignments' = assignments \/ resources' # resources
  <1>1. ASSUME TypeOK, NEW actor, NEW count \in Nat \ {0}, WriteEvents(actor, count)
        PROVE  written
    BY <1>1 DEF WriteEvents, TypeOK, AccessTypeOK
  <1>2. ASSUME TypeOK, NEW actor, Audited(actor) \/ WriteEvents(actor, 1)
        PROVE  written
    BY <1>1, <1>2 DEF Audited
  <1> HIDE DEF written
  <1>3. ASSUME TypeOK, NEW actor \in User, AccessOperation(actor),
               UNCHANGED credentialVars
        PROVE  written \/ quiet
    <2>1. ASSUME NEW p \in Project, NEW b \in Branch, CreateProject(actor, p, b)
          PROVE  quiet
      BY <1>3, <2>1 DEF CreateProject, credentialVars, credentialTables
    <2>2. ASSUME NEW b \in Branch, CreateBranch(actor, b)
          PROVE  quiet
      BY <1>3, <2>2 DEF CreateBranch, accessTables, credentialVars, credentialTables
    <2> HIDE DEF quiet
    <2>3. \/ \E p \in Project, b \in Branch : CreateProject(actor, p, b)
          \/ \E b \in Branch : CreateBranch(actor, b)
          \/ Audited(actor)
          \/ WriteEvents(actor, 1)
      BY <1>3 DEF AccessOperation, BootstrapAdministrator, CreateUser, EnableUser,
                  CreateCatalogEntry, AddGroupMember, RemoveGroupMember,
                  GrantRolePermission, RevokeRolePermission, AssignRole,
                  RevokeRoleAssignment
    <2> QED
      BY <1>2, <1>3, <2>1, <2>2, <2>3
  <1>4. ASSUME TypeOK, NEW actor \in User, NEW u \in User, AccountOperation(actor, u)
        PROVE  written
    BY <1>2, <1>4 DEF AccountOperation, DisableUser, DisableAccount, IssueSession,
                      IssuePasswordRecovery
  <1>5. ASSUME TypeOK, SessionOperation
        PROVE  written
    <2>1. ASSUME NEW batch \in SUBSET Session, batch # {}
          PROVE  Cardinality(batch) \in Nat \ {0}
      BY <2>1, Limits, FS_Subset, FS_CardinalityType, FS_EmptySet
    <2>2. ASSUME NEW actor \in User, NEW at \in Earlier, NEW cutoff \in Time,
                 NEW limit \in 1..Cardinality(Session), NEW batch \in SUBSET Session,
                 RedactSpentSessionTokens(actor, at, cutoff, limit, batch)
          PROVE  written
      <3>1. Cardinality(batch) \in Nat \ {0} /\ WriteEvents(actor, Cardinality(batch))
        BY <2>1, <2>2 DEF RedactSpentSessionTokens
      <3> QED
        BY <1>1, <1>5, <3>1
    <2> QED
      BY <1>1, <1>2, <1>5, <2>2 DEF SessionOperation, RevokeOwnSession,
                                     RevokeOtherSessions, RevokeSession
  <1>6. ASSUME TypeOK, NEW u \in User, Entitled(u)
        PROVE  written
    BY <1>1, <1>2, <1>6 DEF Entitled, AcceptLogin, AcceptChange, SetUserPassword,
                            RedeemPasswordRecovery
  <1>7. ASSUME \/ Tick \/ UNCHANGED securityVars
               \/ \E c \in Caller : CallStep(c)
               \/ \E u \in User : WrongGuess(u)
        PROVE  quiet
    BY <1>7 DEF Tick, CallStep, BeginLogin, BeginChange, AbandonAttempt, WrongGuess,
                RejectPassword, securityVars, accessVars, accessTables,
                credentialVars, credentialTables
  <1>8. ASSUME TypeOK, [Next]_securityVars
        PROVE  written \/ quiet
    <2> HIDE DEF quiet
    <2> QED
      BY <1>3, <1>4, <1>5, <1>6, <1>7, <1>8 DEF Next, OtherOperation
  <1>9. ASSUME TypeOK, [Next]_securityVars
        PROVE  <<account, catalog, members, grants, credential, sessions, tokens>>'
                  # <<account, catalog, members, grants, credential, sessions, tokens>>
               \/ (assignments' # assignments /\ resources' = resources)
                  => lastEvent'.sequence > lastEvent.sequence
    BY <1>8, <1>9 DEF written
  <1> QED
    BY <1>9, TypeCorrect, PTL DEF Spec, ChangesAreAudited

-----------------------------------------------------------------------------
(* Authority.                                                              *)

\* Assignments are made within what exists, and a branch within its project.
ScopesExist ==
    /\ \A a \in assignments : a.scope \in {System} \cup resources
    /\ \A b \in Branch : b \in resources => ProjectOf[b] \in resources

\* A step is the bootstrap, or a manager's by his event, or creates a project or
\* a branch, or touches nothing that permissions depend on.
LEMMA AuthoritySteps ==
    ASSUME TypeOK, [Next]_securityVars
    PROVE  \/ \E u \in User : BootstrapAdministrator(u)
           \/ CanManage(lastEvent'.actor) /\ UNCHANGED resources
           \/ \E actor \in User, p \in Project, b \in Branch :
                 CreateProject(actor, p, b)
           \/ \E actor \in User, b \in Branch : CreateBranch(actor, b)
           \/ UNCHANGED <<account, members, grants, assignments, resources>>
  <1> DEFINE idle == UNCHANGED <<account, members, grants, assignments, resources>>
  <1> DEFINE Conclusion ==
        \/ \E u \in User : BootstrapAdministrator(u)
        \/ CanManage(lastEvent'.actor) /\ UNCHANGED resources
        \/ \E actor \in User, p \in Project, b \in Branch : CreateProject(actor, p, b)
        \/ \E actor \in User, b \in Branch : CreateBranch(actor, b)
        \/ idle
  <1>1. ASSUME NEW actor \in User, AccessOperation(actor)
        PROVE  Conclusion
    BY <1>1, AuditedEvent
       DEF AccessOperation, CreateUser, EnableUser, CreateCatalogEntry,
           AddGroupMember, RemoveGroupMember, GrantRolePermission,
           RevokeRolePermission, AssignRole, RevokeRoleAssignment
  <1>2. ASSUME NEW actor \in User, NEW u \in User, AccountOperation(actor, u)
        PROVE  Conclusion
    BY <1>2, AuditedEvent
       DEF AccountOperation, DisableUser, DisableAccount, IssueSession,
           IssuePasswordRecovery
  <1>3. ASSUME Tick \/ SessionOperation \/ \E c \in Caller : CallStep(c)
        PROVE  idle
    BY <1>3 DEF Tick, SessionOperation, RevokeOwnSession, RevokeOtherSessions,
                RevokeSession, RedactSpentSessionTokens, CallStep, BeginLogin,
                BeginChange, AbandonAttempt, accessVars, accessTables
  <1>4. ASSUME NEW u \in User, WrongGuess(u) \/ Entitled(u)
        PROVE  idle
    BY <1>4 DEF WrongGuess, RejectPassword, Entitled, AcceptLogin, AcceptChange,
                SetUserPassword, RedeemPasswordRecovery, accessVars, accessTables
  <1>5. ASSUME UNCHANGED securityVars
        PROVE  idle
    BY <1>5 DEF securityVars, accessVars, accessTables
  <1> HIDE DEF idle
  <1>6. Conclusion
    BY <1>1, <1>2, <1>3, <1>4, <1>5 DEF Next, OtherOperation
  <1> QED
    BY <1>6 DEF idle

\* New assignments name what exists, and nothing is ever removed.
LEMMA ScopeSteps ==
    ASSUME [Next]_securityVars
    PROVE  /\ resources \subseteq resources'
           /\ \A a \in assignments' \ assignments : a.scope \in {System} \cup resources'
           /\ \A b \in Branch : b \in resources' \ resources => ProjectOf[b] \in resources'
  <1> DEFINE Conclusion ==
        /\ resources \subseteq resources'
        /\ \A a \in assignments' \ assignments : a.scope \in {System} \cup resources'
        /\ \A b \in Branch : b \in resources' \ resources => ProjectOf[b] \in resources'
  <1>1. ASSUME NEW actor \in User, AccessOperation(actor)
        PROVE  Conclusion
    <2>1. ASSUME NEW p \in Project, NEW b \in Branch, CreateProject(actor, p, b)
          PROVE  Conclusion
      BY <2>1, PrincipalsAndScopes DEF CreateProject
    <2>2. ASSUME NEW b \in Branch, CreateBranch(actor, b)
          PROVE  Conclusion
      BY <2>2 DEF CreateBranch, accessTables
    <2>3. ASSUME UNCHANGED resources, assignments' \subseteq assignments
          PROVE  Conclusion
      BY <2>3
    <2>4. ASSUME BootstrapAdministrator(actor)
          PROVE  Conclusion
      BY <2>4 DEF BootstrapAdministrator
    <2>5. ASSUME NEW a \in [principal : User \cup Group, role : Role, scope : Scope],
                 AssignRole(actor, a)
          PROVE  Conclusion
      BY <2>5 DEF AssignRole
    <2>6. \/ UNCHANGED resources /\ assignments' \subseteq assignments
          \/ BootstrapAdministrator(actor)
          \/ \E a \in [principal : User \cup Group, role : Role, scope : Scope] :
                AssignRole(actor, a)
          \/ \E p \in Project, b \in Branch : CreateProject(actor, p, b)
          \/ \E b \in Branch : CreateBranch(actor, b)
      BY <1>1 DEF AccessOperation, CreateUser, EnableUser, CreateCatalogEntry,
                  AddGroupMember, RemoveGroupMember, GrantRolePermission,
                  RevokeRolePermission, RevokeRoleAssignment
    <2> HIDE DEF Conclusion
    <2> QED
      BY <2>1, <2>2, <2>3, <2>4, <2>5, <2>6
  <1>2. CASE UNCHANGED <<resources, assignments>>
    BY <1>2
  <1>3. ASSUME NEW actor \in User, NEW u \in User, AccountOperation(actor, u)
        PROVE  UNCHANGED <<resources, assignments>>
    BY <1>3 DEF AccountOperation, DisableUser, DisableAccount, IssueSession,
                IssuePasswordRecovery, accessTables
  <1>4. CASE Tick \/ SessionOperation \/ \E c \in Caller : CallStep(c)
    <2>1. ASSUME Tick
          PROVE  UNCHANGED <<resources, assignments>>
      BY <2>1 DEF Tick, accessVars, accessTables
    <2>2. ASSUME SessionOperation
          PROVE  UNCHANGED <<resources, assignments>>
      BY <2>2 DEF SessionOperation, RevokeOwnSession, RevokeOtherSessions,
                  RevokeSession, RedactSpentSessionTokens, accessTables
    <2>3. ASSUME NEW c \in Caller, CallStep(c)
          PROVE  UNCHANGED <<resources, assignments>>
      BY <2>3 DEF CallStep, BeginLogin, BeginChange, AbandonAttempt, accessVars,
                  accessTables
    <2> HIDE DEF Conclusion
    <2> QED
      BY <1>2, <1>4, <2>1, <2>2, <2>3
  <1>5. CASE \E u \in User : WrongGuess(u) \/ Entitled(u)
    BY <1>2, <1>5 DEF WrongGuess, RejectPassword, Entitled, AcceptLogin, AcceptChange,
                SetUserPassword, RedeemPasswordRecovery, accessVars, accessTables
  <1>6. CASE UNCHANGED securityVars
    BY <1>2, <1>6 DEF securityVars, accessVars, accessTables
  <1> QED
    BY <1>1, <1>2, <1>3, <1>4, <1>5, <1>6 DEF Next, OtherOperation

\* ScopesExist holds in every reachable state.
LEMMA ScopesExistIsInvariant == Spec => []ScopesExist
  <1>1. Init => ScopesExist
    BY DEF Init, AccessInit, ScopesExist
  <1>2. ASSUME ScopesExist, [Next]_securityVars
        PROVE  ScopesExist'
    BY <1>2, ScopeSteps DEF ScopesExist
  <1> QED
    BY <1>1, <1>2, PTL DEF Spec

\* Whoever can do more after a project or a branch was created can do so in what
\* was created, and created the project or had the permission around it.
LEMMA CreatingGrants ==
    ASSUME TypeOK, ScopesExist, NEW actor \in User, NEW b \in Branch,
           \/ \E p \in Project : CreateProject(actor, p, b)
           \/ CreateBranch(actor, b),
           NEW u \in User, NEW permission \in Permission, NEW scope \in Scope,
           ~HasPermission(u, permission, scope),
           HasPermission(u, permission, scope)'
    PROVE  /\ scope \in resources' \ resources
           /\ \/ HasPermission(u, ProjectCreate, System)
              \/ \E wider \in Covering(scope) \ {scope} :
                    HasPermission(u, permission, wider)
  <1>1. /\ UNCHANGED <<account, members, grants>>
        /\ assignments \subseteq assignments'
    BY DEF CreateProject, CreateBranch, accessTables
  <1>2. PICK a \in AssignmentsOf(u)' :
           /\ a.scope \in Covering(scope)
           /\ <<a.role, permission>> \in grants
    BY <1>1 DEF HasPermission, Covering
  <1>3. /\ scope \in Branch => scope \in resources'
        /\ account[u] = "active"
    BY <1>1 DEF HasPermission
  <1>4. a \in assignments' /\ (a.principal = u \/ <<a.principal, u>> \in members)
    BY <1>1, <1>2 DEF AssignmentsOf
  <1>5. CASE a \in assignments
    <2>1. a \in AssignmentsOf(u)
      BY <1>4, <1>5 DEF AssignmentsOf
    <2>2. scope \in Branch /\ scope \notin resources
      BY <1>2, <1>3, <2>1 DEF HasPermission
    <2>3. a.scope \in {System} \cup resources
      BY <1>5 DEF ScopesExist
    <2>4. a.scope # scope
      BY <2>2, <2>3, PrincipalsAndScopes
    <2>5. a.scope \in {System} \cup Project
      BY <1>2, <2>2, <2>4, PrincipalsAndScopes DEF Covering
    <2>6. HasPermission(u, permission, a.scope)
      BY <1>2, <1>3, <2>1, <2>5, PrincipalsAndScopes DEF HasPermission, Covering
    <2> QED
      BY <1>2, <1>3, <2>2, <2>4, <2>6
  <1>6. CASE a \notin assignments
    <2>1. PICK p \in Project : CreateProject(actor, p, b)
      BY <1>4, <1>6 DEF CreateBranch, accessTables
    <2>2. /\ p = ProjectOf[b]
          /\ HasPermission(actor, ProjectCreate, System)
          /\ {p, b} \cap resources = {}
          /\ resources' = resources \cup {p, b}
          /\ a.principal = actor
          /\ a.scope = p
      BY <1>4, <1>6, <2>1 DEF CreateProject
    <2>3. u = actor
      BY <1>4, <2>2, PrincipalsAndScopes DEF TypeOK, AccessTypeOK
    <2>4. scope = p \/ (scope \in Branch /\ ProjectOf[scope] = p)
      BY <1>2, <2>2, PrincipalsAndScopes DEF Covering
    <2>5. scope \in Branch => scope = b
      BY <1>3, <2>2, <2>4, PrincipalsAndScopes DEF ScopesExist
    <2>6. scope \in resources' \ resources
      BY <2>2, <2>4, <2>5
    <2> QED
      BY <2>2, <2>3, <2>6
  <1> QED
    BY <1>5, <1>6

\* Nobody but a manager gives anybody a permission in what exists already
\* (identity.cpp:407).
THEOREM ManagersGrantAuthority == Spec => OnlyManagersGrantAuthority
  <1>1. ASSUME TypeOK, ScopesExist, [Next]_securityVars, NEW u \in User,
               NEW permission \in Permission, NEW scope \in Scope,
               ~HasPermission(u, permission, scope),
               HasPermission(u, permission, scope)'
        PROVE  \/ ~Bootstrapped
               \/ CanManage(lastEvent'.actor)
               \/ /\ scope \in resources' \ resources
                  /\ \/ HasPermission(u, ProjectCreate, System)
                     \/ \E wider \in Covering(scope) \ {scope} :
                           HasPermission(u, permission, wider)
    <2>1. CASE \E v \in User : BootstrapAdministrator(v)
      BY <2>1 DEF BootstrapAdministrator, Bootstrapped
    <2>2. CASE \/ \E actor \in User, p \in Project, b \in Branch :
                    CreateProject(actor, p, b)
               \/ \E actor \in User, b \in Branch : CreateBranch(actor, b)
      BY <1>1, <2>2, CreatingGrants
    <2>3. ~UNCHANGED <<account, members, grants, assignments, resources>>
      BY <1>1 DEF HasPermission, AssignmentsOf, Covering
    <2> QED
      BY <1>1, <2>1, <2>2, <2>3, AuthoritySteps
  <1>2. ASSUME TypeOK, ScopesExist, [Next]_securityVars
        PROVE  \A u \in User, permission \in Permission, scope \in Scope :
          ~HasPermission(u, permission, scope) /\ HasPermission(u, permission, scope)' =>
              \/ ~Bootstrapped
              \/ CanManage(lastEvent'.actor)
              \/ /\ scope \in resources' \ resources
                 /\ \/ HasPermission(u, ProjectCreate, System)
                    \/ \E wider \in Covering(scope) \ {scope} :
                          HasPermission(u, permission, wider)
    BY <1>1, <1>2
  <1> QED
    BY <1>2, TypeCorrect, ScopesExistIsInvariant, PTL
       DEF Spec, OnlyManagersGrantAuthority

-----------------------------------------------------------------------------
(* Lockouts.                                                               *)

\* A multiple of a number that is smaller than the number is zero.
LEMMA SmallMultiples ==
    ASSUME NEW m \in Nat \ {0}, NEW x \in Int, m * x < m, -m < m * x
    PROVE  x = 0
  <1>1. CASE x >= 1
    <2>1. PICK y \in Nat : x = y + 1
      BY <1>1
    <2>2. m * y >= 0
      BY <2>1
    <2>3. m * x = m * y + m
      BY <2>1
    <2> QED
      BY <2>2, <2>3
  <1>2. CASE x <= -1
    <2>1. PICK y \in Nat : x = -1 - y
      <3>1. -1 - x \in Nat /\ x = -1 - (-1 - x)
        BY <1>2
      <3> QED
        BY <3>1
    <2>2. m * y >= 0
      BY <2>1
    <2>3. m * x = -m - m * y
      BY <2>1
    <2> QED
      BY <2>2, <2>3
  <1> QED
    BY <1>1, <1>2

\* A number has one remainder.
LEMMA RemaindersAreUnique ==
    ASSUME NEW m \in Nat \ {0}, NEW p \in Int, NEW q \in Int,
           NEW r \in 0..(m - 1), NEW s \in 0..(m - 1), m * p + r = m * q + s
    PROVE  r = s
  <1>1. m * (p - q) = s - r
    <2>1. m * (p - q) = m * p - m * q
      OBVIOUS
    <2> QED
      BY <2>1
  <1>2. p - q = 0
    BY <1>1, SmallMultiples
  <1> QED
    BY <1>1, <1>2

\* The remainder of the next number.
LEMMA CountingOn ==
    ASSUME NEW m \in Nat \ {0}, NEW n \in Nat
    PROVE  (n + 1) % m = IF (n % m) + 1 = m THEN 0 ELSE (n % m) + 1
  <1>1. n % m \in 0..(m - 1) /\ (n + 1) % m \in 0..(m - 1)
    OBVIOUS
  <1>2. n = (m * (n \div m)) + (n % m) /\ n \div m \in Int
    OBVIOUS
  <1>3. n + 1 = (m * ((n + 1) \div m)) + ((n + 1) % m) /\ (n + 1) \div m \in Int
    OBVIOUS
  <1> DEFINE p == n \div m
             q == (n + 1) \div m
             r == n % m
             s == (n + 1) % m
  <1>4. /\ p \in Int /\ q \in Int /\ r \in 0..(m - 1) /\ s \in 0..(m - 1)
        /\ n = (m * p) + r /\ n + 1 = (m * q) + s
    BY <1>1, <1>2, <1>3
  <1>5. s = IF r + 1 = m THEN 0 ELSE r + 1
    <2> HIDE DEF p, q, r, s
    <2>1. CASE r + 1 = m
      <3>1. m * (p + 1) + 0 = m * q + s
        <4>1. m * (p + 1) = m * p + m
          BY <1>4
        <4> QED
          BY <1>4, <2>1, <4>1
      <3> QED
        BY <3>1, <1>4, <2>1, RemaindersAreUnique
    <2>2. CASE r + 1 # m
      <3>1. m * p + (r + 1) = m * q + s
        BY <1>4
      <3> QED
        BY <3>1, <1>4, <2>2, RemaindersAreUnique
    <2> QED
      BY <2>1, <2>2
  <1> QED
    BY <1>5

\* What the count of failures and the lock of a user say of the wrong passwords
\* counted since the last reset.
GuessesAreCounted(u) ==
    LET guesses == wrongGuesses[u] IN
    /\ guesses \in Seq(Nat)
    /\ IF lockedUntil[u] = Never
       THEN /\ failures[u] < FailureLimit
            /\ Len(guesses) % FailureLimit = failures[u]
            /\ failures[u] = 0 => guesses = <<>>
       ELSE /\ guesses # <<>>
            /\ Len(guesses) % FailureLimit = 0
            /\ lockedUntil[u] = guesses[Len(guesses)] + LockoutTime

\* Why LockoutFollowsGuesses holds: it compares the lock with the time only, and
\* needs the count to know how far the next wrong password is from a lockout.
GuessInvariant ==
    /\ TypeOK
    /\ wrongGuesses \in [User -> Seq(Nat)]
    /\ \A u \in User : GuessesAreCounted(u)

\* After a reset the count starts again.
LEMMA ForgottenGuesses ==
    ASSUME NEW u \in User, wrongGuesses'[u] = <<>>, failures'[u] = 0,
           lockedUntil'[u] = Never
    PROVE  GuessesAreCounted(u)'
  <1>1. 0 % FailureLimit = 0
    BY Limits
  <1> QED
    BY <1>1, Limits DEF GuessesAreCounted

\* One more wrong password is counted as RejectPassword counts it: with the one
\* that reaches the limit the account is locked, and after a lockout the count
\* starts with one.
LEMMA CountedGuess ==
    ASSUME TypeOK, NEW u \in User, GuessesAreCounted(u),
           lockedUntil[u] <= clock,
           wrongGuesses'[u] = Append(wrongGuesses[u], clock),
           failures'[u] = CountedFailures(u),
           lockedUntil'[u] = IF CountedFailures(u) = FailureLimit
                             THEN clock + LockoutTime ELSE Never
    PROVE  GuessesAreCounted(u)'
  <1> PICK g : g = wrongGuesses[u]
    OBVIOUS
  <1> PICK h : h = wrongGuesses'[u]
    OBVIOUS
  <1>1. g \in Seq(Nat) /\ clock \in Nat /\ h = Append(g, clock)
    BY DEF GuessesAreCounted, TypeOK, CredentialTypeOK
  <1>2. /\ h \in Seq(Nat) /\ h # <<>> /\ Len(h) = Len(g) + 1
        /\ h[Len(h)] = clock /\ Len(g) \in Nat
    BY <1>1, AppendProperties
  <1>3. FailureLimit \in Nat \ {0} /\ LockoutTime \in Nat \ {0}
    BY Limits
  <1>4. Len(h) % FailureLimit =
            IF (Len(g) % FailureLimit) + 1 = FailureLimit
            THEN 0 ELSE (Len(g) % FailureLimit) + 1
    BY <1>2, <1>3, CountingOn
  <1>5. /\ failures[u] \in 0..FailureLimit /\ lockedUntil[u] \in Nat
        /\ clock # 0
    BY DEF TypeOK, CredentialTypeOK
  <1>6. IF lockedUntil[u] = Never
        THEN failures[u] < FailureLimit /\ Len(g) % FailureLimit = failures[u]
        ELSE Len(g) % FailureLimit = 0
    BY DEF GuessesAreCounted
  <1>7. PICK r : r = Len(g) % FailureLimit
    OBVIOUS
  <1>8. PICK s : s = Len(h) % FailureLimit
    OBVIOUS
  <1>9. PICK n : n = CountedFailures(u)
    OBVIOUS
  <1>10. n = r + 1 /\ n \in 1..FailureLimit
    <2>1. CASE lockedUntil[u] = Never
      <3>1. r = failures[u] /\ failures[u] < FailureLimit
        BY <1>6, <1>7, <2>1
      <3> QED
        BY <1>3, <1>5, <1>9, <2>1, <3>1 DEF CountedFailures
    <2>2. CASE lockedUntil[u] # Never
      <3>1. r = 0
        BY <1>6, <1>7, <2>2
      <3> QED
        BY <1>3, <1>9, <2>2, <3>1 DEF CountedFailures
    <2> QED
      BY <2>1, <2>2
  <1>11. s = IF n = FailureLimit THEN 0 ELSE n
    BY <1>4, <1>7, <1>8, <1>10
  <1>12. /\ failures'[u] = n
         /\ lockedUntil'[u] = IF n = FailureLimit THEN clock + LockoutTime ELSE Never
         /\ clock + LockoutTime # Never
    BY <1>1, <1>3, <1>9 DEF Never
  <1>13. CASE n = FailureLimit
    <2>1. lockedUntil'[u] = h[Len(h)] + LockoutTime /\ lockedUntil'[u] # Never
      BY <1>2, <1>12, <1>13
    <2>2. Len(h) % FailureLimit = 0
      BY <1>8, <1>11, <1>13
    <2> QED
      BY <1>2, <2>1, <2>2 DEF GuessesAreCounted
  <1>14. CASE n # FailureLimit
    <2>1. /\ lockedUntil'[u] = Never
          /\ failures'[u] < FailureLimit
          /\ failures'[u] # 0
      BY <1>3, <1>10, <1>12, <1>14
    <2>2. Len(h) % FailureLimit = failures'[u]
      BY <1>8, <1>11, <1>12, <1>14
    <2> QED
      BY <1>2, <2>1, <2>2 DEF GuessesAreCounted
  <1> QED
    BY <1>13, <1>14

\* The invariant decides when an account is locked.
LEMMA CountsDecideLocks ==
    ASSUME GuessInvariant
    PROVE  LockoutFollowsGuesses
  <1> SUFFICES ASSUME NEW u \in User
               PROVE  lockedUntil[u] > clock <=>
                         /\ wrongGuesses[u] # <<>>
                         /\ Len(wrongGuesses[u]) % FailureLimit = 0
                         /\ clock < wrongGuesses[u][Len(wrongGuesses[u])]
                                        + LockoutTime
    BY DEF LockoutFollowsGuesses
  <1>1. clock \in Nat \ {0} /\ lockedUntil[u] \in Nat
    BY DEF GuessInvariant, TypeOK, CredentialTypeOK
  <1>2. GuessesAreCounted(u)
    BY DEF GuessInvariant
  <1>3. CASE lockedUntil[u] = Never
    <2>1. ~(lockedUntil[u] > clock)
      BY <1>1, <1>3 DEF Never
    <2>2. wrongGuesses[u] = <<>> \/ Len(wrongGuesses[u]) % FailureLimit # 0
      BY <1>2, <1>3 DEF GuessesAreCounted
    <2> QED
      BY <2>1, <2>2
  <1>4. CASE lockedUntil[u] # Never
    <2>1. /\ wrongGuesses[u] # <<>>
          /\ Len(wrongGuesses[u]) % FailureLimit = 0
          /\ lockedUntil[u] = wrongGuesses[u][Len(wrongGuesses[u])] + LockoutTime
      BY <1>2, <1>4 DEF GuessesAreCounted
    <2> QED
      BY <1>1, <2>1
  <1> QED
    BY <1>3, <1>4

\* The operations that neither count nor reset.
LEMMA OtherOperationsCountNothing ==
    ASSUME OtherOperation
    PROVE  UNCHANGED <<failures, lockedUntil>>
  <1> USE DEF credentialTables, credentialVars
  <1>1. CASE Tick
    BY <1>1 DEF Tick
  <1>2. ASSUME NEW actor \in User, NEW u \in User, AccountOperation(actor, u)
        PROVE  UNCHANGED <<failures, lockedUntil>>
    BY <1>2 DEF AccountOperation, DisableUser, IssueSession, IssuePasswordRecovery
  <1>3. CASE SessionOperation
    BY <1>3 DEF SessionOperation, RevokeOwnSession, RevokeOtherSessions,
                RevokeSession, RedactSpentSessionTokens
  <1>4. ASSUME NEW c \in Caller, CallStep(c)
        PROVE  UNCHANGED <<failures, lockedUntil>>
    BY <1>4 DEF CallStep, BeginLogin, BeginChange, AbandonAttempt
  <1> QED
    BY <1>1, <1>2, <1>3, <1>4 DEF OtherOperation

\* Whoever is entitled to an account has its failures forgotten, and only its.
LEMMA EntitledForgets ==
    ASSUME TypeOK, NEW u \in User, Entitled(u)
    PROVE  /\ failures' = [failures EXCEPT ![u] = 0]
           /\ lockedUntil' = [lockedUntil EXCEPT ![u] = Never]
  BY DEF Entitled, AcceptLogin, AcceptChange, SetUserPassword,
         RedeemPasswordRecovery, StoreCredential

\* The invariant is inductive.
LEMMA GuessStepsKeepCounts ==
    ASSUME GuessInvariant, [GuessNext]_guessVars
    PROVE  GuessInvariant'
  <1>1. TypeOK'
    <2>1. [Next]_securityVars
      BY DEF GuessNext, Next, guessVars
    <2> QED
      BY <2>1, NextKeepsTypes DEF GuessInvariant
  <1>2. TypeOK /\ wrongGuesses \in [User -> Seq(Nat)]
        /\ failures \in [User -> 0..FailureLimit] /\ lockedUntil \in [User -> Nat]
        /\ clock \in Nat
    BY DEF GuessInvariant, TypeOK, CredentialTypeOK
  <1>3. ASSUME UNCHANGED <<failures, lockedUntil, wrongGuesses>>
        PROVE  GuessInvariant'
    BY <1>1, <1>3 DEF GuessInvariant, GuessesAreCounted
  <1>4. CASE UNCHANGED guessVars
    BY <1>3, <1>4 DEF guessVars, securityVars, credentialVars, credentialTables
  <1>5. CASE OtherOperation /\ UNCHANGED wrongGuesses
    BY <1>3, <1>5, OtherOperationsCountNothing
  <1>6. ASSUME NEW u \in User, NEW v \in User \ {u},
               failures'[v] = failures[v], lockedUntil'[v] = lockedUntil[v],
               wrongGuesses'[v] = wrongGuesses[v]
        PROVE  GuessesAreCounted(v)'
    BY <1>6 DEF GuessInvariant, GuessesAreCounted
  <1>7. ASSUME NEW u \in User, WrongGuess(u),
               wrongGuesses' = [wrongGuesses EXCEPT ![u] = Append(@, clock)]
        PROVE  GuessInvariant'
    <2>1. PICK c \in Caller : attempts[c].user = u /\ RejectPassword(c)
      BY <1>7 DEF WrongGuess
    <2>2. /\ lockedUntil[u] <= clock
          /\ failures' = [failures EXCEPT ![u] = CountedFailures(u)]
          /\ lockedUntil' = [lockedUntil EXCEPT ![u] =
                                IF CountedFailures(u) = FailureLimit
                                THEN clock + LockoutTime ELSE Never]
      BY <2>1 DEF RejectPassword, Current
    <2>3. GuessesAreCounted(u)'
      <3>1. GuessesAreCounted(u)
        BY DEF GuessInvariant
      <3> QED
        BY <1>2, <1>7, <2>2, <3>1, CountedGuess
    <2>4. \A v \in User \ {u} : GuessesAreCounted(v)'
      BY <1>2, <1>6, <1>7, <2>2
    <2>5. wrongGuesses' \in [User -> Seq(Nat)]
      <3>1. Append(wrongGuesses[u], clock) \in Seq(Nat)
        BY <1>2
      <3> QED
        BY <1>2, <1>7, <3>1
    <2> QED
      BY <1>1, <2>3, <2>4, <2>5 DEF GuessInvariant
  <1>8. ASSUME NEW u \in User, Entitled(u),
               wrongGuesses' = [wrongGuesses EXCEPT ![u] = <<>>]
        PROVE  GuessInvariant'
    <2>1. /\ failures' = [failures EXCEPT ![u] = 0]
          /\ lockedUntil' = [lockedUntil EXCEPT ![u] = Never]
      BY <1>2, <1>8, EntitledForgets
    <2>2. GuessesAreCounted(u)'
      BY <1>2, <1>8, <2>1, ForgottenGuesses
    <2>3. \A v \in User \ {u} : GuessesAreCounted(v)'
      BY <1>2, <1>6, <1>8, <2>1
    <2>4. wrongGuesses' \in [User -> Seq(Nat)]
      BY <1>2, <1>8
    <2> QED
      BY <1>1, <2>2, <2>3, <2>4 DEF GuessInvariant
  <1> QED
    BY <1>4, <1>5, <1>7, <1>8 DEF GuessNext

\* An account is locked exactly while the last wrong password was one of every
\* FailureLimit in a row and LockoutTime has not passed since, for all limits,
\* users, calls in progress and interleavings of theirs
\* (password_credentials.cpp:436 and :259).
THEOREM LockoutsFollowGuesses == GuessSpec => []LockoutFollowsGuesses
  <1>1. GuessInit => GuessInvariant
    <2> SUFFICES ASSUME GuessInit PROVE GuessInvariant
      OBVIOUS
    <2>1. TypeOK
      BY BuiltinCatalog, PrincipalsAndScopes, Limits
         DEF GuessInit, Init, AccessInit, CredentialInit, TypeOK, AccessTypeOK,
             CredentialTypeOK, BuiltinPermission, Never
    <2>2. 0 % FailureLimit = 0
      BY Limits
    <2> QED
      BY <2>1, <2>2, Limits DEF GuessInit, Init, CredentialInit, GuessInvariant,
                        GuessesAreCounted
  <1> QED
    BY <1>1, GuessStepsKeepCounts, CountsDecideLocks, PTL DEF GuessSpec
=============================================================================
