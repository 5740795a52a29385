CONSTANTS
    Blocks = {1, 2, 3}
    per_block = 3
    period = 4
    spare_blocks = 1
    NoAddr = NoAddr
    MaxFreeCnt = 13
SPECIFICATION Spec
INVARIANTS CellsOwnedOnce
PROPERTIES LossBounded
