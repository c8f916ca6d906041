CONSTANTS
    Exercised = {"close", "backups", "dispatch", "savings", "enrollment", "imports", "checkpoints", "cards", "people", "long term", "rewards", "income", "sharing", "plans", "campaigns", "reconciliation"}
    None = None
    s1 = s1
    s2 = s2
    e1 = e1
    e2 = e2
    e3 = e3
    k1 = k1
    k2 = k2
    d1 = d1
    d2 = d2
    d3 = d3
    Session = {s1}
    Closer = {e1, e2, e3}
    Key = {k1}
    CloseKey = {d1, d2, d3}
    Account = {1, 2}
    Expense = {2}
    RoleAccount = {2}
    Budgeted = {2}
    Linked = {1, 2}
    FirstAccounts = {1, 2}
    MidasAccount = {}
    Unclassified = {}
    Ceiling <- MCCeiling
    Month = {1, 2, 3}
    Payload <- MCPayload

    i1 = i1
    i2 = i2
    i3 = i3
    j1 = j1
    NoAnswer = NoAnswer
    Invocation = {i1, i2, i3, j1}
    DayOf <- MCDayOf
    MaxEvents = 4
    Keep = 1

    r1 = r1
    r2 = r2
    r3 = r3
    n1 = n1
    h1 = h1
    NoPair = NoPair
    Run = {r1, r2, r3}
    SlotOf <- MCSlot
    DueEvent = {n1}
    Device = {h1}
    MaxAttempts = 2
    MaxRevision = 2

    v1 = v1
    v2 = v2
    v3 = v3
    v4 = v4
    g1 = g1
    g2 = g2
    NoReply = NoReply
    Free = Free
    OtherBucket = OtherBucket
    Caller = {v1, v2, v3, v4}
    Goal = {g1, g2}
    Existing <- MCExisting
    MayAsk <- MCMayAsk
    JournalAmount <- MCJournalAmount
    MaxBalance = 2

    p1 = p1
    p2 = p2
    p3 = p3
    p4 = p4
    NoSource = NoSource
    Visit = {p1, p2, p3, p4}
    Aims <- MCAims
    Copies = 2

    t1 = t1
    t2 = t2
    t3 = t3
    t4 = t4
    b1 = b1
    b2 = b2
    x1 = x1
    m1 = m1
    u1 = u1
    u2 = u2
    u3 = u3
    at1 = at1
    at2 = at2
    so1 = so1
    Nobody = Nobody
    Row <- MCRow
    BatchOf <- MCBatchOf
    Identity <- MCIdentity
    Scope = {at1, at2}
    Detail = {so1}
    Incoming = {t1, t2, t3, t4, m1}
    Origin <- MCOrigin
    Manual = {m1}
    Alike <- MCAlike
    Refused = {}
    Reviewer = {u1, u2, u3}
    Reviews <- MCReviews
    Chosen = b1
    Limit = 1

    a1 = a1
    a2 = a2
    a3 = a3
    c1 = c1
    c2 = c2
    c3 = c3
    w1 = w1
    w2 = w2
    Absent = Absent
    Payment = {a1, a2, a3, c1, c2}
    Instant <- MCInstant
    Period <- MCPeriod
    Late = {a2}
    Failing = {c1}
    MaxDiscovered = 2
    PaidFirst = {c1}
    Worker = {w1, w2}

    o1 = o1
    o2 = o2
    o3 = o3
    o4 = o4
    o5 = o5
    y1 = y1
    q1 = q1
    Silent = Silent
    Client = {o1, o2, o3, o4, o5}
    Statement = {y1}
    Purchase = {q1}
    Orders <- MCOrders
    Unearmarked = 2

    z1 = z1
    z2 = z2
    z3 = z3
    z4 = z4
    l1 = l1
    l2 = l2
    f1 = f1
    NoOne = NoOne
    Party = {z1, z2, z3, z4}
    Receivables <- MCReceivables
    Payables = {f1}
    Petitions <- MCPetitions

    sa = sa
    sb = sb
    sc = sc
    sd = sd
    Awaited = Awaited
    Sender = {sa, sb, sc, sd}
    Instructions <- MCInstructions
    Deposited = 3
    Movement <- MCMovement

    ra = ra
    rb = rb
    rc = rc
    rd = rd
    ac1 = ac1
    ac2 = ac2
    Undecided = Undecided
    Shopper = {ra, rb, rc, rd}
    RewardAccount = {ac1, ac2}
    Wishes <- MCWishes

    ga = ga
    gb = gb
    gc = gc
    gd = gd
    rx = rx
    ry = ry
    nx = nx
    ny = ny
    employer = employer
    Undetermined = Undetermined
    Claimant = {ga, gb, gc, gd}
    Receipt = {rx, ry}
    Entitlement = {nx, ny}
    IncomeSource = {employer}
    SourceOf <- MCSourceOf
    Received <- MCReceived
    Awarded <- MCAwarded
    Claims <- MCClaims

    wa = wa
    wb = wb
    wc = wc
    wd = wd
    Wordless = Wordless
    Asker = {wa, wb, wc, wd}
    Person = {1, 2}
    Demands <- MCDemands

    pa = pa
    pb = pb
    pd = pd
    Unplanned = Unplanned
    Unheard = Unheard
    NoPlanner = NoPlanner
    Planner = {pa, pb, pd}
    Intents <- MCIntents
    Incomes <- MCIncomes

    na = na
    nb = nb
    nc = nc
    nd = nd
    bx = bx
    by = by
    NoVerdict = NoVerdict
    Campaigner = {na, nb, nc, nd}
    Bought = {bx, by}
    BoughtWith <- MCBoughtWith
    Prices <- MCPrices
    FirstPrice <- MCFirstPrice
    Calls <- MCCalls
    Starts <- MCStarts

    ka = ka
    kb = kb
    kc = kc
    ix = ix
    iy = iy
    px = px
    friend = friend
    Self = Self
    Nowhere = Nowhere
    NoFinding = NoFinding
    Reconciler = {ka, kb, kc}
    Invoice = {ix, iy}
    Charge = {px}
    Friend = {friend}
    Submissions <- MCSubmissions
    InvoiceAmounts = {1, 2}
    Divisions <- MCDivisions
    MaxInvoiced = 3
    MaxDivided = 2
    MaxChanges = 2
    Watched = {ix}

SPECIFICATION BackendSpec
INVARIANTS
    BackendTypeOK
    AppliedWithinOwed
    BackupsInStep
    PushedOnce
    RecordsAreReal
    SavingsInStep
    StateConsistent
    UsedOnce
    ImportedOnce
    ReportsInLine
    StatementsInStep
    DebtsAddUp
    TasksAccounted
    PointsInStep
    IncomeInStep
    SharesInStep
    PlansInStep
    CampaignsInStep
    ReconciliationsInStep
    ReadInItsTime
PROPERTIES
    ExcessIsLast
CHECK_DEADLOCK FALSE
