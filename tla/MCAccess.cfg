SPECIFICATION MCSpec
CONSTANTS
    User = {a, u}
    Group = {g}
    Role = {sysadmin, owner}
    Permission = {manage, create, branch, read}
    System = System
    Project = {p}
    Branch = {b, b2}
    ProjectOf <- MCProjectOf
    SystemAdministrator = sysadmin
    ProjectOwner = owner
    SecurityManage = manage
    ProjectCreate = create
    ProjectBranchCreate = branch
    ProjectRead = read
    ProjectPermission = {branch, read}
    MaxEvents = 7
    Password = {}
    Session = {}
    Token = {}
    Caller = {}
    NoCredential = NoCredential
    NoSession = NoSession
    NoToken = NoToken
    NoAttempt = NoAttempt
    Lifetime = {}
    LockoutTime = 1
    FailureLimit = 1
    MaxActiveSessions = 1
    MaxWait = 0
    MaxTime = 1
    MaxSalt = 0
    RightsChange = TRUE
\* Callers may stop calling, and the bounds stop every run.
CHECK_DEADLOCK FALSE
INVARIANT SomebodyCanAdminister
PROPERTY OnlyManagersGrantAuthority
