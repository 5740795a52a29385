CONSTANTS
    Sessions = {s1, s2, s3}
    Fds = {f1, f2, f3, f4}
    NoFd = NoFd
    Listening = 3
    MIN_FDS_PER_THREAD = 4
    MAX_FDS_PER_SESSION = 2
    Spare = 2
SYMMETRY Symmetry
SPECIFICATION Spec
INVARIANTS OwnEvents
