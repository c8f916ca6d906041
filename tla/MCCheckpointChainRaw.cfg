CONSTANTS
    a1 = a1
    a2 = a2
    a3 = a3
    w1 = w1
    Absent = Absent
    Payment = {a1, a2, a3}
    Instant <- MCInstant
    Period <- MCPeriod
    Late = {a2}
    Failing = {}
    MaxDiscovered = 2
    Worker = {w1}
SPECIFICATION CheckpointSpec
INVARIANT
    NoRunFails
CHECK_DEADLOCK FALSE
