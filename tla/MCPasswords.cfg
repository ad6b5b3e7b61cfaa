SPECIFICATION MCSpec
CONSTANTS
    User = {a, u}
    Group = {}
    Role = {sysadmin, owner}
    Permission = {manage, create, branch}
    System = System
    Project = {}
    Branch = {}
    ProjectOf <- MCProjectOf
    SystemAdministrator = sysadmin
    ProjectOwner = owner
    SecurityManage = manage
    ProjectCreate = create
    ProjectBranchCreate = branch
    ProjectRead = branch
    ProjectPermission = {branch}
    MaxEvents = 5
    Password = {p1, p2}
    Session = {s1, s2}
    Token = {t1, t2}
    Caller = {c1, c2}
    NoCredential = NoCredential
    NoSession = NoSession
    NoToken = NoToken
    NoAttempt = NoAttempt
    Lifetime = {2}
    LockoutTime = 1
    FailureLimit = 2
    MaxActiveSessions = 1
    MaxWait = 1
    MaxTime = 2
    MaxSalt = 2
    RightsChange = FALSE
SYMMETRY MCSymmetry
\* Callers may stop calling, and the bounds stop every run.
CHECK_DEADLOCK FALSE
INVARIANTS TypeOK LockoutFollowsGuesses
PROPERTIES OldPasswordsOpenNothing NewPasswordEndsOldAccess SpentAccessStaysSpent
