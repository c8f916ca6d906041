CONSTANTS
    Today = {s1}
    Tomorrow = {s2}
    OverBudget = TRUE
    NoSpend = TRUE
    Hour = {9, 10, 22}
SPECIFICATION EventsSpec
PROPERTY
    AnnouncedOnDueDate
CHECK_DEADLOCK FALSE
