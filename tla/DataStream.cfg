CONSTANTS
    Size = 5
    Hdr = 4
    Payloads = {0, 3}
    MaxPkts = 3
    NoPkt = NoPkt
\* a session may end
CHECK_DEADLOCK FALSE
SPECIFICATION Spec
INVARIANTS WholePackets
PROPERTIES BytesInOrder AllDelivered
