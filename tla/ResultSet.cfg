CONSTANTS
    Queries = {q1}
    MaxCols = 2
    MaxRows = 2
    MaxResultsetSize = 6
    ShareConnections = TRUE
    Counts = {0, 1, 127, 128, 251, 70000}
    Lengths = {0, 1, 250, 251, 300, 65535}
    Junk = {0, 255}
    NoQuery = NoQuery
    NoEntry = NoEntry
SPECIFICATION Spec
INVARIANTS NothingLost NothingHeldBack CachedWhole
PROPERTIES ReleasedClean
