SPECIFICATION Spec
CONSTANTS
    Kernels = {k1, k2, k3}
    NoKernel = NoKernel
    Requests = {r1, r2, r3}
    Leaving = {r3}
    Hello = Hello
    MaxSockets = 3
    Sessions = {s1}
    Clients = {c1, c2}
    NoSession = NoSession
    MaxQueue = 2
    Task = {t1, t2}
    MaxRelease = 2
    HashMayFail = TRUE
INVARIANTS
    TypeOK
    SetupsApart
    OneKernel
    ExeRecoverable
    OnlyVerified
PROPERTIES
    Settles
    Released
    KillHonoured
CHECK_DEADLOCK FALSE
