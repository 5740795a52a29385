CONSTANTS
    Conns = {c1, c2}
    Servers = {m1, m2}
    u1 = u1  u2 = u2  p1 = p1  p2 = p2
    Users = {u1, u2}
    Passwords = {p1, p2}
    PasswordOf <- Alike
    Known = {u1}
    Schemas = {d1}
    PoolEnabled = TRUE
    WaitTimeout = 1
    MaxLag = 1
    MaxTime = 0
    NoConn = NoConn
    NoPool = NoPool
    Sessions = {s1}
    Hostgroups = {0, 1}
    Destinations = {0, 1}
    ShareConnections = TRUE
    ClientsWait = TRUE
    ClientsTidy = FALSE
    Commands = {"QUERY", "STMT", "OTHER", "CHANGE_USER", "AUTH", "QUIT"}
    CountsFit = FALSE
    DefaultSchema = d1
    Wild = Wild
    NoSession = NoSession
    Gone = Gone
    NoServer = NoServer
    NoHg = NoHg
    NoPkt = NoPkt
    NoUser = NoUser
    NoPass = NoPass
    NoSchema = NoSchema
SYMMETRY SessionSymmetry
SPECIFICATION Spec
INVARIANTS OwnedOnce PooledMatches BackendMatches OwnAnswersOnly BrokenIsClosed
