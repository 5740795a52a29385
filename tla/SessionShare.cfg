CONSTANTS
    Conns = {c1, c2}
    Servers = {m1}
    u1 = u1  u2 = u2  p1 = p1  p2 = p2
    Users = {u1}
    Passwords = {p1}
    PasswordOf <- Single
    Known = {u1}
    Schemas = {d1, d2}
    PoolEnabled = TRUE
    WaitTimeout = 1
    MaxLag = 1
    MaxTime = 2
    NoConn = NoConn
    NoPool = NoPool
    Sessions = {s1, s2}
    Hostgroups = {0, 1}
    Destinations = {0}
    ShareConnections = TRUE
    ClientsWait = TRUE
    ClientsTidy = TRUE
    Commands = {"QUERY", "INIT_DB"}
    CountsFit = TRUE
    DefaultSchema = d1
    Wild = Wild
    NoSession = NoSession
    Gone = Gone
    NoServer = NoServer
    NoHg = NoHg
    NoPkt = NoPkt
    NoUser = NoUser
    NoPass = NoPass
    NoSchema = NoSchema
SYMMETRY SessionSymmetry
SPECIFICATION Spec
INVARIANTS OwnTransactionOnly OwnAnswersOnly BackendMatches
PROPERTIES HandedOutYoung
