CONSTANTS
    Sessions = {s1, s2}
    Queries = {q1}
    Servers = {m1}
    Cells = {e1, e2, e3, e4}
    NoServer = NoServer
    NoCell = NoCell
    MaxDone = 2
SPECIFICATION Spec
INVARIANTS CountedOnce EntriesOwnedOnce
PROPERTIES AllReported
