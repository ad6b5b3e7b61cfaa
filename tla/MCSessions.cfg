SPECIFICATION MCSpec
CONSTANTS
    User = {a, u}
    Group = {}
    Role = {sysadmin, owner}
    Permission = {manage, create, branch}
    System = System
    Project = {}
    Branch = {}
    ProjectOf <- MCProjectOf
    SystemAdministrator = sysadmin
    ProjectOwner = owner
    SecurityManage = manage
    ProjectCreate = create
    ProjectBranchCreate = branch
    ProjectRead = branch
    ProjectPermission = {branch}
    MaxEvents = 7
    Password = {}
    Session = {s1, s2, s3}
    Token = {}
    Caller = {}
    NoCredential = NoCredential
    NoSession = NoSession
    NoToken = NoToken
    NoAttempt = NoAttempt
    Lifetime = {1, 2}
    LockoutTime = 1
    FailureLimit = 1
    MaxActiveSessions = 2
    MaxWait = 1
    MaxTime = 3
    MaxSalt = 0
    RightsChange = TRUE
SYMMETRY MCSymmetry
\* Callers may stop calling, and the bounds stop every run.
CHECK_DEADLOCK FALSE
INVARIANT SessionsWithinLimit
PROPERTIES SessionsEndByRight ChangesAreAudited
