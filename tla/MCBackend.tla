------------------------------ MODULE MCBackend ------------------------------
(***************************************************************************)
(* The components that share no state with each other, side by side in one *)
(* instance for TLC.  Every behaviour exercises one of them, and the rest  *)
(* stays as it is at first: the states are the sum of theirs, not the      *)
(* product, and what holds here is what holds of each on its own.          *)
(***************************************************************************)
EXTENDS MonthClose, BackupRuns, NotificationDispatch, EarmarkedSavings,
        PasskeyEnrollment, StatementImports, CheckpointChain, CardStatements,
        PersonSettlements, LongTermTasks, RewardPoints, IncomeSettlements,
        SharedPurchases, BudgetPlans, CampaignRewards, StatementReconciliation, TLC

-----------------------------------------------------------------------------
(* The instances.                                                          *)

\* Close: account 1 is the ledger account of the Midas account, 2 the
\* mandatory-expense role account.
MCPayload == {[month |-> 1, lines |-> (1 :> -3) @@ (2 :> 3)]}
MCCeiling == [a \in Budgeted |-> 4]
CONSTANTS e1, e2, e3, d1, d2, d3
PlanOfClose == e1 :> <<1, d1>> @@ e2 :> <<2, d2>> @@ e3 :> <<3, d3>>
AsPlanned == \A c \in Closer : wanted[c] # None => <<wanted[c].month, wanted[c].key>> = PlanOfClose[c]

\* Backups: three invocations of one day, or two and one of the next day.
\* Those of one day differ in nothing, so that the order they start in is fixed.
CONSTANTS i1, i2, i3, j1
MCDayOf == [i \in Invocation |-> IF i = j1 THEN 2 ELSE 1]
FewInvocations ==
    /\ point[i3] = "idle" \/ point[j1] = "idle"
    /\ point[i1] = "idle" => point[i2] = "idle"
    /\ point[i2] = "idle" => point[i3] = "idle"

\* Notifications: two runs of one hour and one of the next.
CONSTANTS r1, r2, r3
MCSlot == [r \in Run |-> IF r = r3 THEN 2 ELSE 1]

\* Savings: the same funding by two clients, its reversal, withdrawals and
\* changes of the goals.
CONSTANTS v1, v2, v3, v4, g1, g2
Fund(k, n) == [op |-> "transfer", key |-> k, from |-> Free, to |-> g1, amount |-> n]
Undo(k, c) == [op |-> "reverse", key |-> k, target |-> c]
MCMayAsk ==
    (v1 :> {Fund(1, 1)}) @@
    (v2 :> {Fund(1, 1), Fund(2, 1), [op |-> "transfer", key |-> 3, from |-> g1, to |-> Free, amount |-> 1]}) @@
    (v3 :> {Undo(4, v1), Undo(4, v2), [op |-> "update", key |-> 6, goal |-> g1, expected |-> 1, cap |-> 1]}) @@
    (v4 :> {Undo(5, v1), Undo(5, v3),
            [op |-> "finish", key |-> 7, goal |-> g1, expected |-> 1, status |-> "CANCELLED"],
            [op |-> "create", key |-> 9, goal |-> g2, cap |-> 0, position |-> 1],
            [op |-> "reorder", key |-> 9, order |-> <<g1>>]})
MCJournalAmount == {-1}
MCExisting == <<g1>>

\* Passkeys.
CONSTANTS p1, p2, p3, p4
MCAims == p1 :> {"BOOTSTRAP"} @@ p2 :> {"BOOTSTRAP"} @@ p3 :> {"RECOVERY", "ADD_CREDENTIAL"}
          @@ p4 :> {"RECOVERY", "SIGN_IN"}

\* Imports: three rows of one batch and one of another, three of them with
\* the same external id; t3 comes without its account, and is mapped to one of
\* two, as t4 is anew.
CONSTANTS t1, t2, t3, t4, b1, b2, x1, m1, u1, u2, u3, at1, at2, so1
MCRow == <<t1, t2, t3, t4>>
MCBatchOf == t1 :> b1 @@ t2 :> b1 @@ t3 :> b1 @@ t4 :> b2
MCIdentity == t1 :> x1 @@ t2 :> Nobody @@ t3 :> x1 @@ t4 :> x1
On1 == [scope |-> at1, detail |-> so1]
On2 == [scope |-> at2, detail |-> so1]
MCOrigin == [i \in {t1, t2, t3, t4, m1} |-> IF i = t3 THEN [On1 EXCEPT !.scope = Nobody] ELSE On1]
MCAlike == t1 :> {} @@ t2 :> {m1} @@ t3 :> {} @@ t4 :> {m1}
Ask(k, o, r, n) == [op |-> o, key |-> k, row |-> r, expected |-> n]
Map(k, r, n, m) == Ask(k, "map", r, n) @@ [to |-> m]
MCReviews == u1 :> {Ask(1, "confirm", t2, 1), Map(1, t4, 1, On2), Map(1, t4, 2, On2)}
    @@ u2 :> {Ask(1, "confirm", t2, 1), Ask(2, "apply", t1, 1), Ask(3, "link", t4, 1) @@ [target |-> m1],
              Map(2, t3, 1, On2), Ask(2, "link", t4, 3) @@ [target |-> m1]}
    @@ u3 :> {Map(4, t3, 1, On1), Map(4, t4, 1, [On1 EXCEPT !.detail = Nobody]),
              Ask(5, "skip", t2, 2), Ask(4, "apply", t4, 2)}

\* Checkpoints: a2 is recorded after the later a3, and c2 has the instant of
\* a3; c1, which may fail, and c3 are of the month before, and c1 may be fixed
\* to be the first payment of all.
CONSTANTS a1, a2, a3, c1, c2, c3, PaidFirst
PaidInOrder == requests \subseteq PaidFirst \/ PaidFirst \subseteq requests
MCInstant == [p \in Payment |-> IF p \in {a2, c3} THEN 2 ELSE IF p \in {a3, c2} THEN 3 ELSE 1]
MCPeriod == [p \in Payment |-> IF p \in {c1, c3} THEN 1 ELSE 2]

\* Cards: the requests that race for one statement and one purchase.
CONSTANTS o1, o2, o3, o4, o5, y1, q1
Draw(op, k, e, a, pl) == [op |-> op, key |-> k, statement |-> y1, expected |-> e, amount |-> a, placement |-> pl]
On(op, k, e) == [op |-> op, key |-> k, statement |-> y1, expected |-> e]
Buy(op, k, e, a) == [op |-> op, key |-> k, purchase |-> q1, expected |-> e, amount |-> a]
MCOrders == [c \in Client |->
    CASE c = o1 -> {Buy("purchase", "k1", 0, 2), Buy("amend", "k6", 1, 1)}
      [] c = o2 -> {Draw("create", "k2", 0, 2, "MIDAS_FUND"), Draw("create", "k2", 0, 1, "OUTSIDE_MIDAS"),
                    Draw("create", "k2", 0, 3, "MIDAS_FUND")}
      [] c = o3 -> {On("pay", "k3", 1), On("pay", "k3", 2)}
      [] c = o4 -> {On("reopen", "k4", 2), On("reopen", "k4", 3), On("void", "k4", 1), [op |-> "archive", key |-> "k4"]}
      [] OTHER  -> {On("pay", "k3", 1), On("pay", "k5", 3), Draw("update", "k5", 1, 1, "OUTSIDE_MIDAS"),
                    Draw("update", "k5", 3, 1, "MIDAS_FUND"), Buy("purchase", "k7", 0, 2), Buy("cancel", "k6", 1, 0)}]

\* People: two receivables and a payable of one person.
CONSTANTS z1, z2, z3, z4, l1, l2, f1
MCReceivables == <<l1, l2>>
Lend(k, o, n) == [op |-> "record", key |-> k, obligation |-> o, amount |-> n]
Give(k, o, n, v) == [op |-> "settle", key |-> k, obligation |-> o, cash |-> n, via |-> v]
Collect(k, n, v) == [op |-> "collect", key |-> k, cash |-> n, via |-> v]
Take(k, d, o) == [op |-> "unsettle", key |-> k, target |-> d, obligation |-> o]
Change(op, k, o) == [op |-> op, key |-> k, obligation |-> o, expected |-> 1]
MCPetitions == [c \in Party |->
    CASE c = z1 -> {Lend(1, l1, 2)}
      [] c = z2 -> {Lend(2, l2, 1), Lend(2, f1, 1), Give(2, l1, 1, "midas")}
      [] c = z3 -> {Collect(3, 4, "midas"), Collect(3, 2, "midas"), Give(3, f1, 1, "midas"),
                    Give(2, l1, 3, "midas"), Give(3, f1, 1, "cash")}
      [] OTHER  -> {Collect(3, 4, "midas"), Collect(4, 3, "cash"), Take(4, z3, l1), Take(4, z3, f1),
                    Change("update", 4, l1) @@ [amount |-> 1], Change("void", 4, l1),
                    [op |-> "archive", key |-> 4]} \cup {Take(4, d, l1) : d \in Party \cap {z2}}]

\* Long-term investments: an allocation, its retry, and what becomes of it.
CONSTANTS sa, sb, sc, sd
Earmark(k, n) == [op |-> "allocate", key |-> k, amount |-> n]
Of(op, k, c, n) == [op |-> op, key |-> k, task |-> c, expected |-> n]
MCInstructions == [c \in Sender |->
    CASE c = sa -> {Earmark(1, 2)}
      [] c = sb -> {Earmark(1, 2), Earmark(2, 1), Of("send", 3, sa, 1)}
      [] c = sc -> {Of("send", 3, sa, 1), Of("cancel", 4, sa, 1), Of("reopen", 5, sa, 2), Of("send", 9, sb, 1)}
      [] OTHER  -> {Of("reopen", 5, sa, 2), Of("send", 4, sa, 1), Of("send", 6, sa, 3),
                    Of("cancel", 6, sb, 1), Earmark(1, 2)}]
MCMovement == {-1}

\* Rewards: two accounts, and keys that are used for both.
CONSTANTS ra, rb, rc, rd, ac1, ac2
Points(op, k, a, n) == [op |-> op, key |-> k, account |-> a, points |-> n]
Revoke(k, c) == [op |-> "VOID", key |-> k, event |-> c]
MCWishes == [c \in Shopper |->
    CASE c = ra -> {Points("OPENING_BALANCE", 1, ac1, 2)}
      [] c = rb -> {Points("OPENING_BALANCE", 1, ac1, 2), Points("OPENING_BALANCE", 2, ac1, 1),
                    Points("MANUAL_EARN", 2, ac1, 1), Points("MANUAL_EARN", 1, ac2, 1), Revoke(6, rc)}
      [] c = rc -> {Points("REDEEM_PURCHASE", 3, ac1, 2), Points("EXPIRE", 3, ac1, 2), Revoke(3, ra)}
      [] OTHER  -> {Points("REDEEM_PURCHASE", 3, ac1, 2), Points("EXPIRE", 5, ac1, 1), Revoke(4, ra),
                    Revoke(4, rc), [op |-> "ARCHIVE", key |-> 4, account |-> ac1]}]

\* Income: a receipt and an entitlement there are, one of each that may come.
CONSTANTS ga, gb, gc, gd, rx, ry, nx, ny, employer
MCSourceOf == [x \in Receipt \cup Entitlement |-> employer]
MCReceived == rx :> 2 @@ ry :> 0
MCAwarded == nx :> 2 @@ ny :> 0
Share(m, n) == nx :> m @@ ny :> n
Attribute(k, r, s) == [op |-> "settle", key |-> k, receipt |-> r, given |-> s]
Receive(k, r, n) == [op |-> "receive", key |-> k, receipt |-> r, amount |-> n]
Entitle(k, e, n) == [op |-> "entitle", key |-> k, entitlement |-> e, amount |-> n]
OnReceipt(op, k) == [op |-> op, key |-> k, receipt |-> rx, expected |-> 1]
OnMonth(op, k) == [op |-> op, key |-> k, entitlement |-> nx, expected |-> 1]
MCClaims == [c \in Claimant |->
    CASE c = ga -> {Attribute(1, rx, Share(1, 0)), Receive(1, ry, 2)}
      [] c = gb -> {Attribute(1, rx, Share(1, 0)), Attribute(2, ry, Share(2, 0)), Entitle(2, ny, 1)}
      [] c = gc -> {OnReceipt("resettle", 3) @@ [given |-> Share(1, 1)], OnReceipt("correct", 3) @@ [amount |-> 1],
                    OnMonth("adjust", 3) @@ [amount |-> 1], Entitle(2, ny, 1)}
      [] OTHER  -> {OnReceipt("resettle", 3) @@ [given |-> Share(0, 0)], OnReceipt("resettle", 4) @@ [given |-> Share(0, 0)],
                    OnReceipt("correct", 4) @@ [amount |-> 3], OnReceipt("void receipt", 4),
                    OnMonth("void entitlement", 4), Entitle(4, ny, 2), Attribute(5, rx, Share(2, 0))}]

\* Shared purchases: one that is recorded, shared, changed and undone; the key
\* 3 amends it alone or together with its split.
CONSTANTS wa, wb, wc, wd
Billing(op, k, e, n) == [op |-> op, key |-> k, expected |-> e, amount |-> n]
Sharing(op, k, e, m, u, p, q) ==
    [op |-> op, key |-> k, expected |-> e, method |-> m, weight |-> (0 :> u) @@ (1 :> p) @@ (2 :> q)]
Unsharing(k, e) == Sharing("unshare", k, e, "RATIO", 0, 0, 0)
Jointly(b, s) == [purchase |-> b, split |-> s]
MCDemands == [c \in Asker |->
    CASE c = wa -> {Jointly(Billing("record", 1, 0, 3), s) : s \in {NoPart, Sharing("share", 1, 0, "RATIO", 1, 1, 0)}}
      [] c = wb -> {Jointly(NoPart, Sharing("share", 2, 0, "MANUAL", 0, 0, 2)),
                    Jointly(NoPart, Sharing("reshare", 4, 1, "RATIO", 1, 1, 1)),
                    Jointly(Billing("amend", 4, 2, 3), Sharing("reshare", 4, 2, "RATIO", 1, 1, 1))}
      [] c = wc -> {Jointly(Billing("amend", 3, 1, 2), s) : s \in {NoPart, Sharing("reshare", 3, 1, "MANUAL", 0, 0, 2)}}
                   \cup {Jointly(Billing("amend", 3, 1, 3), NoPart)}
      [] OTHER  -> {Jointly(Billing("amend", 3, 1, 2), Sharing("reshare", 5, 3, "RATIO", 0, 1, 1)),
                    Jointly(Billing("cancel", 6, 1, 0), NoPart), Jointly(Billing("cancel", 6, 1, 0), Unsharing(6, 1)),
                    Jointly(NoPart, Unsharing(5, 2)), Jointly(NoPart, Sharing("reshare", 5, 2, "MANUAL", 0, 1, 0))}]

\* Budget plans of one month, of both policies: creations with one key and
\* with another, refreshes of one revision, a void and a close.
CONSTANTS pa, pb, pd
February == [month |-> 2, version |-> "V1"]
Resolved == [month |-> 2, version |-> "V2"]
Knowing(s, r) == [sources |-> s, receipts |-> r]
MCIncomes == <<Knowing(1, 1), Knowing(2, 2)>>
Budgeting(op, k, p) == [op |-> op, key |-> k, plan |-> p, why |-> "said"]
Given(op, k, n) == Budgeting(op, k, Resolved) @@ [reference |-> n]
Expecting(op, k) == Budgeting(op, k, February) @@ [expected |-> 1]
MCIntents == [c \in Planner |->
    CASE c = pa -> {Budgeting("create", 1, February), Given("create", 1, 1), Expecting("refresh", 3)}
      [] c = pb -> {Budgeting("create", 1, February), Budgeting("create", 2, February),
                    Given("create", 1, 2), Given("refresh", 3, 2) @@ [expected |-> 1],
                    Expecting("refresh", 3), Expecting("close", 5)}
      [] OTHER -> {Budgeting("create", 1, February), Given("create", 1, 1),
                   Given("refresh", 3, 1) @@ [expected |-> 1], Expecting("refresh", 3),
                   Expecting("refresh", 4), Expecting("void", 4), Expecting("close", 5)}]

\* Campaigns: a period that is made, or one that is active; two purchases on
\* two cards, of which one may be voided.
CONSTANTS na, nb, nc, nd, bx, by
MCBoughtWith == bx :> 1 @@ by :> 2
Plain == [mode |-> "TOTAL_SPEND", cards |-> {1}, target |-> 2, most |-> 1, points |-> 1, least |-> 1]
Stepwise == [mode |-> "REPEATABLE_SPEND", cards |-> {1, 2}, target |-> 2, most |-> 2, points |-> 1, least |-> 2]
Counted == [mode |-> "TRANSACTION_COUNT", cards |-> {1}, target |-> 1, most |-> 1, points |-> 1, least |-> 3]
Turning(op, k, n) == [op |-> op, key |-> k, expected |-> n]
Proposing(k, t) == [op |-> "PROPOSE", key |-> k, terms |-> t]
Deciding(op, k, x) == [op |-> op, key |-> k, proposal |-> x, expected |-> 2]
Crediting(k, n, r) == [op |-> "CREDIT", key |-> k, points |-> n, reason |-> r]
Ruling(k, p, n, r) == [op |-> "RULE", key |-> k, purchase |-> p, expected |-> n, ruling |-> r]
Revoking(k) == [op |-> "VOID", key |-> k]
MCFirstPrice == bx :> 2 @@ by :> 2
MCPrices == bx :> {0, 2} @@ by :> {2}
MCCalls == [c \in Campaigner |->
    CASE c = na -> {Turning("CREATE", 1, 0) @@ [terms |-> Plain], Proposing(1, Stepwise), Crediting(1, 1, FALSE)}
      [] c = nb -> {Turning("CONFIRM", 2, 1), Proposing(1, Stepwise), Proposing(2, Stepwise), Crediting(1, 1, FALSE),
                    Revoking(2)}
      [] c = nc -> {Crediting(3, 2, FALSE), Deciding("APPLY", 3, na), Ruling(3, bx, 0, "EXCLUDE"),
                    Turning("AMEND", 3, 2) @@ [terms |-> Counted], Revoking(3)}
      [] OTHER  -> {Deciding("APPLY", 3, na), Deciding("DISMISS", 2, na), Turning("HIDE", 4, 2),
                    Ruling(4, bx, 1, "INCLUDE"), Crediting(4, 2, TRUE)}]
UnderReview == [by |-> NoVerdict, life |-> "REVIEW_REQUIRED", visible |-> TRUE, terms |-> Plain]
MCStarts == {<<>>, <<UnderReview, [UnderReview EXCEPT !.life = "ACTIVE"]>>}

\* Reconciliations of two statements of one card that are alike at first, one
\* of its purchases, and a person it may be shared with.
CONSTANTS ka, kb, kc, ix, iy, px, friend
Composed(p, n, o, sp) == [charge |-> p, amount |-> n, owner |-> o, split |-> sp]
Reconciling(k, s, n, e, parts) ==
    [op |-> "reconcile", key |-> k, bill |-> s, of |-> n, expected |-> e, parts |-> parts]
Voiding(k, e) == [op |-> "void", key |-> k, bill |-> ix, expected |-> e, parts |-> <<>>]
Alone == <<Composed(px, 2, Self, 0)>>
Halved == <<Composed(px, 1, friend, 1), Composed(Nowhere, 1, Self, 0)>>
MCSubmissions == [c \in Reconciler |->
    CASE c = ka -> {Reconciling(1, ix, 1, 0, Alone), Reconciling(1, ix, 1, 0, Halved)}
      [] c = kb -> {Reconciling(1, ix, 2, 0, Alone), Reconciling(1, iy, 1, 0, Alone),
                    Reconciling(2, ix, 2, 1, <<Composed(px, 1, Self, 1)>>)}
      [] OTHER  -> {Voiding(3, 1)}]
MCDivisions == {[own |-> own, people |-> {friend}] : own \in BOOLEAN}
\* The second statement stays as it is.
CONSTANTS
    MaxChanges,   \* bound: what happens to the first and to the purchase
    Watched       \* the statements whose reconciliation somebody reads
AlikeAtFirst == \A s \in Invoice : LatestInvoice(s).amount = 2
FewChanges ==
    /\ Len(invoiced[ix]) - 1 + Len(divided[px]) + Cardinality(dropped)
          + (IF reopening = Nowhere THEN 0 ELSE 1) <= MaxChanges
    /\ Len(invoiced[iy]) = 1
    /\ IF Watched = {} THEN glance = NoGlance ELSE glance.at = "read" => glance.entry.bill \in Watched

-----------------------------------------------------------------------------
CONSTANT Exercised   \* the components of the instance
VARIABLE exercised   \* the one the behaviour is about

BackendInit ==
    /\ exercised \in Exercised
    /\ CloseInit /\ BackupInit /\ DispatchInit /\ SavingsInit
    /\ EnrollmentInit /\ ImportInit /\ CheckpointInit /\ CardInit
    /\ PeopleInit /\ LongTermInit /\ RewardInit /\ IncomeInit
    /\ SharingInit /\ PlanInit /\ CampaignInit
    /\ ReconciliationInit /\ AlikeAtFirst
    /\ exercised # "campaigns" => periodChain = <<>>

\* The component named is the one exercised, and the others do nothing.
Only(name) ==
    /\ exercised = name /\ UNCHANGED exercised
    /\ IF name = "close" THEN TRUE ELSE UNCHANGED allVars
    /\ IF name = "backups" THEN TRUE ELSE UNCHANGED backupVars
    /\ IF name = "dispatch" THEN TRUE ELSE UNCHANGED dispatchVars
    /\ IF name = "savings" THEN TRUE ELSE UNCHANGED savingsVars
    /\ IF name = "enrollment" THEN TRUE ELSE UNCHANGED enrollmentVars
    /\ IF name = "imports" THEN TRUE ELSE UNCHANGED importVars
    /\ IF name = "checkpoints" THEN TRUE ELSE UNCHANGED checkpointVars
    /\ IF name = "cards" THEN TRUE ELSE UNCHANGED cardVars
    /\ IF name = "people" THEN TRUE ELSE UNCHANGED peopleVars
    /\ IF name = "long term" THEN TRUE ELSE UNCHANGED longTermVars
    /\ IF name = "rewards" THEN TRUE ELSE UNCHANGED rewardVars
    /\ IF name = "income" THEN TRUE ELSE UNCHANGED incomeVars
    /\ IF name = "sharing" THEN TRUE ELSE UNCHANGED sharingVars
    /\ IF name = "plans" THEN TRUE ELSE UNCHANGED planVars
    /\ IF name = "campaigns" THEN TRUE ELSE UNCHANGED campaignVars
    /\ IF name = "reconciliation" THEN TRUE ELSE UNCHANGED reconciliationVars

BackendNext ==
    \/ Only("close") /\ CloseNext /\ AsPlanned'
    \/ Only("backups") /\ BackupNext /\ FewInvocations'
    \/ Only("dispatch") /\ DispatchNext
    \/ Only("savings") /\ SavingsNext
    \/ Only("enrollment") /\ EnrollmentNext
    \/ Only("imports") /\ ImportNext
    \/ Only("checkpoints") /\ CheckpointNext /\ PaidInOrder'
    \/ Only("cards") /\ CardNext
    \/ Only("people") /\ PeopleNext
    \/ Only("long term") /\ LongTermNext
    \/ Only("rewards") /\ RewardNext
    \/ Only("income") /\ IncomeNext
    \/ Only("sharing") /\ SharingNext
    \/ Only("plans") /\ PlanNext
    \/ Only("campaigns") /\ CampaignNext
    \/ Only("reconciliation") /\ ReconciliationNext /\ FewChanges'

backendVars == <<exercised, allVars, backupVars, dispatchVars, savingsVars,
                 enrollmentVars, importVars, checkpointVars, cardVars,
                 peopleVars, longTermVars, rewardVars, incomeVars, sharingVars,
                 planVars, campaignVars, reconciliationVars>>

\* Some request, run, loop or processor that can go on eventually does.  The
\* fairness each component states on its own, of every one of them, is more.
Progress ==
    \/ /\ Only("close")
       /\ \/ \E s \in Session : (Step(s) \/ VictimPosting(s)) /\ UNCHANGED closing
          \/ \E c \in Closer : CloseStep(c) \/ Victim(c)
    \/ Only("dispatch") /\ \E r \in Run : RunStep(r)
    \/ Only("imports") /\ ApplyStep
    \/ Only("checkpoints") /\ \E w \in Worker : ProcessorStep(w)
    \/ Only("people") /\ \E c \in Party : PartyStep(c)
    \/ Only("reconciliation") /\ (EndReopen \/ \E c \in Reconciler : ReconcilerStep(c)) /\ FewChanges'
\* A reconciliation that waits for the card is served in its turn, however many
\* reopenings begin and are ended.
ServedInTurn == Only("reconciliation") /\ \E c \in Reconciler : ReadChain(c)
BackendSpec ==
    BackendInit /\ [][BackendNext]_backendVars /\ WF_backendVars(Progress) /\ SF_backendVars(ServedInTurn)

-----------------------------------------------------------------------------
\* The variables of what is exercised keep their types; the others keep their
\* values.
BackendTypeOK ==
    CASE exercised = "close" -> CloseTypeOK
      [] exercised = "backups" -> BackupTypeOK
      [] exercised = "dispatch" -> DispatchTypeOK
      [] exercised = "savings" -> SavingsTypeOK
      [] exercised = "enrollment" -> EnrollmentTypeOK
      [] exercised = "imports" -> ImportTypeOK
      [] exercised = "checkpoints" -> CheckpointTypeOK
      [] exercised = "cards" -> CardTypeOK
      [] exercised = "people" -> PeopleTypeOK
      [] exercised = "long term" -> LongTermTypeOK
      [] exercised = "rewards" -> RewardTypeOK
      [] exercised = "income" -> IncomeTypeOK
      [] exercised = "sharing" -> SharingTypeOK
      [] exercised = "plans" -> PlanTypeOK
      [] exercised = "campaigns" -> CampaignTypeOK
      [] exercised = "reconciliation" -> ReconciliationTypeOK

\* Nobody waits for ever: closes and postings that lock each other's accounts,
\* settlements and reconciliations that lock in both orders, overlapping
\* notification runs, and the loop of the browser over the loop of the server.
WorkEnds ==
    ClosesEnd /\ RequestsEnd /\ RunsEnd /\ ApplyLoopEnds /\ PetitionsEnd /\ ReconcilersAnswered
=============================================================================
