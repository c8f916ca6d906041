CONSTANTS
    s1 = s1
    s2 = s2
    s3 = s3
    k1 = k1
    k2 = k2
    m1 = m1
    None = None
    Session = {s1, s2, s3}
    Key = {k1, k2}
    Account = {1, 2}
    Expense = {2}
    RoleAccount = {2}
    Budgeted = {2}
    Linked = {2}
    FirstAccounts = {1, 2}
    Month = {m1}
    Payload <- MCOnePayload
SYMMETRY SessionSymmetry
SPECIFICATION Spec
INVARIANT
    RetriedReversalReplays
CHECK_DEADLOCK FALSE
