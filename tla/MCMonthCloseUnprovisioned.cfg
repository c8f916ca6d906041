CONSTANTS
    s1 = s1
    s2 = s2
    c1 = c1
    c2 = c2
    k1 = k1
    k2 = k2
    d1 = d1
    d2 = d2
    None = None
    Session = {s1, s2}
    Closer = {c1, c2}
    Key = {k1, k2}
    CloseKey = {d1, d2}
    Account = {1, 2}
    Expense = {2}
    RoleAccount = {2}
    Budgeted = {2}
    Linked = {1, 2}
    FirstAccounts = {1}
    MidasAccount = {}
    Unclassified = {}
    Ceiling <- MCCeiling
    Month = {1}
    Payload <- MCPayload
SYMMETRY Symmetric
SPECIFICATION CloseSpec
PROPERTY
    CoherentPostingBoundary
CHECK_DEADLOCK FALSE
