CONSTANTS
    i1 = i1
    i2 = i2
    i3 = i3
    j1 = j1
    l1 = l1
    NoAnswer = NoAnswer
    Invocation = {i1, i2, i3, j1}
    DayOf <- MCDayOf
    MaxEvents = 4
    Keep = 1
SYMMETRY Symmetric
SPECIFICATION BackupSpec
INVARIANT
    RecordedKept
CHECK_DEADLOCK FALSE
