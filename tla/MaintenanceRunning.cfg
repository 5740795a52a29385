CONSTANTS
    Conns = {c1, c2}
    Servers = {m1, m2}
    u1 = u1  p1 = p1
    Users = {u1}
    Passwords = {p1}
    PasswordOf <- MCPasswordOf
    Known = {u1}
    Schemas = {d1}
    PoolEnabled = TRUE
    WaitTimeout = 1
    MaxLag = 1
    MaxTime = 0
    NoConn = NoConn
    NoPool = NoPool
    Sessions = {s1}
    Hostgroups = {0}
    Destinations = {0}
    ShareConnections = FALSE
    ClientsWait = TRUE
    ClientsTidy = TRUE
    Commands = {"QUERY"}
    CountsFit = TRUE
    DefaultSchema = d1
    Wild = Wild
    NoSession = NoSession
    Gone = Gone
    NoServer = NoServer
    NoHg = NoHg
    NoPkt = NoPkt
    NoUser = NoUser
    NoPass = NoPass
    NoSchema = NoSchema
SYMMETRY SessionSymmetry
SPECIFICATION MSpec
INVARIANTS MaintenanceKeepsRunning
