CONSTANTS
    Conns = {c1, c2}
    Servers = {m1}
    u1 = u1  p1 = p1
    Users = {u1}
    Passwords = {p1}
    PasswordOf <- MCPasswordOf
    Known = {u1}
    Schemas = {d1}
    PoolEnabled = TRUE
    WaitTimeout = 1
    MaxLag = 1
    MaxTime = 0
    NoConn = NoConn
    NoPool = NoPool
    Sessions = {s1}
    Hostgroups = {0, 1}
    Destinations = {0, 1}
    ShareConnections = FALSE
    ClientsWait = TRUE
    ClientsTidy = TRUE
    Commands = {"OTHER"}
    CountsFit = TRUE
    DefaultSchema = d1
    Wild = Wild
    NoSession = NoSession
    Gone = Gone
    NoServer = NoServer
    NoHg = NoHg
    NoPkt = NoPkt
    NoUser = NoUser
    NoPass = NoPass
    NoSchema = NoSchema
SPECIFICATION MSpec
INVARIANTS OneCommandAtATime AckMeansRemoved
PROPERTIES FlushReturns ServedWhileStocked
