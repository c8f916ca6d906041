CONSTANTS
    s1 = s1
    s2 = s2
    s3 = s3
    k1 = k1
    k2 = k2
    k3 = k3
    m1 = m1
    None = None
    Session = {s1, s2, s3}
    Key = {k1, k2, k3}
    Account = {1, 2}
    Expense = {2}
    RoleAccount = {2}
    Budgeted = {2}
    Linked = {2}
    FirstAccounts = {1, 2}
    Month = {m1}
    Payload <- MCPayload
SYMMETRY SessionSymmetry
SPECIFICATION Spec
INVARIANTS
    PostedOncePerKey
    ReversedAtMostOnce
    AnswerIsCommitted
    ExpenseCountedOnce
PROPERTY
    NoPostingToArchived
CHECK_DEADLOCK FALSE
