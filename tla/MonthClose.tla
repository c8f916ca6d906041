----------------------------- MODULE MonthClose -----------------------------
(***************************************************************************)
(* The month close of src/month-close next to the journal it reads.  A     *)
(* closer is a session that runs closeMonth: it inserts the month's        *)
(* anchor, locks the accounts it reads, recomputes the figures the user    *)
(* confirmed in a preview, stores them, and absorbs the adjustments that   *)
(* postings into earlier closed months left behind.                        *)
(*                                                                         *)
(* The budget plan is fixed and ACTIVE (Ceiling); routing the surplus to a *)
(* goal or to the reserve is a choice that may fail.                       *)
(***************************************************************************)
EXTENDS JournalPosting, FiniteSets, SequencesExt

CONSTANTS
    Closer,          \* sessions that run closeMonth
    CloseKey,        \* the idempotency keys of close requests
    Ceiling,         \* the budget ceiling of each budgeted role account
    Unclassified,    \* the budgeted role accounts without a ceiling
    MidasAccount     \* the ledger accounts behind the Midas account

ASSUME CloseAssumption ==
    /\ Closer \cap Session = {} /\ None \notin Closer
    /\ Unclassified \subseteq Budgeted
    /\ Ceiling \in [Budgeted -> Nat]
    /\ MidasAccount \subseteq Linked \ RoleAccount
    /\ Month \subseteq Int
    /\ IsFiniteSet(Session) /\ IsFiniteSet(Closer) /\ IsFiniteSet(Account)

VARIABLES
    wanted,       \* each closer's request: month, key and the proposal it confirms
    stage,        \* the statement each closer executes next
    roles,        \* the expense accounts each closer found provisioned
    figures,      \* the figures each closer computed; its stored revision once done
    absorbed      \* per closer, the cents it applied of each adjustment

closing == <<wanted, stage, roles, figures, absorbed>>
journal == <<request, pc, answer, entry, adjusted, created>>
allVars == <<vars, closing>>

Stage == {"idle", "lookup", "anchor", "resolve", "lock", "figures", "adjustments",
          "settle", "commit", "done", "replayed", "refused"}
Ended == {"done", "replayed", "refused"}
Amounts == [Budgeted -> Int]
Proposal == [net : Amounts, prior : Int]
Figures == [net : Amounts, snapshot : SUBSET Session, prior : SUBSET Session,
            priorTotal : Int, surplus : Nat, routable : Nat]
Confirmation == [month : Month, key : CloseKey, proposal : Proposal]
ASSUME NoRowAssumption == None \notin Confirmation /\ None \notin Figures

CloseTypeOK ==
    /\ wanted \in [Closer -> Confirmation \cup {None}]
    /\ stage \in [Closer -> Stage]
    /\ roles \in [Closer -> SUBSET Budgeted]
    /\ figures \in [Closer -> Figures \cup {None}]
    /\ absorbed \in [Closer -> [Session -> Int]]
    /\ locks \subseteq [session : Session \cup Closer, account : Account, mode : LockMode]

-----------------------------------------------------------------------------
(* Figures.                                                                *)

Total(f, S) == SumFunctionOnSet(f, S)
Clamp(n) == IF n < 0 THEN 0 ELSE n                     \* clampNonNegativeCents
Unused(ceiling, net) == Clamp(ceiling - Clamp(net))    \* computeMonthCloseUnusedCents

Dated(m) == {t \in Posted : entry[t].month = m}
\* Net expense per budgeted account, zero for a role that is not provisioned.
NetExpense(m, accounts) ==
    [a \in Budgeted |-> IF a \in accounts
                        THEN Total([t \in Session |-> IF t \in Dated(m) THEN entry[t].lines[a] ELSE 0], Session)
                        ELSE 0]
Surplus(net) == Total([a \in Budgeted |-> Unused(Ceiling[a], net[a])], Budgeted \ Unclassified)

\* Adjustments: an adjusted entry t owes Owed(t), of which the committed
\* closers have applied some; what is left carries over.
Done == {c \in Closer : stage[c] = "done"}
Owed(t) == -ExpenseDelta(entry[t].lines)
AppliedTo(t) == Total([c \in Closer |-> absorbed[c][t]], Done)
RemainingAtFirst(t) == Owed(t)
Remaining(t) == Owed(t) - AppliedTo(t)
Unapplied(m) == {t \in Posted : adjusted[t] /\ entry[t].month < m /\ Remaining(t) # 0}
RemainingTotal(S) == Total([t \in Session |-> IF t \in S THEN Remaining(t) ELSE 0], Session)

ProposalOf(m) == [net |-> NetExpense(m, Budgeted \cap provisioned),
                  prior |-> RemainingTotal(Unapplied(m))]

\* The loop of closeMonth over the adjustments, oldest month first: a credit
\* is applied whole, a charge as far as surplus and credits reach.
OldestFirst(S) ==
    {q \in [1..Cardinality(S) -> S] :
        /\ \A i, j \in DOMAIN q : i # j => q[i] # q[j]
        /\ \A i, j \in DOMAIN q : i < j => entry[q[i]].month <= entry[q[j]].month}
Lesser(x, y) == IF x < y THEN x ELSE y
Capacity(surplus, S) ==
    surplus + Total([t \in Session |-> IF t \in S THEN Clamp(Remaining(t)) ELSE 0], Session)
AbsorbWhole(state, t) == [state EXCEPT !.applied[t] = Remaining(t)]
Absorb(state, t) ==
    LET left == Remaining(t)
        part == IF left > 0 THEN left ELSE -Lesser(state.capacity, -left)
    IN  [capacity |-> IF left > 0 THEN state.capacity ELSE state.capacity + part,
         applied |-> [state.applied EXCEPT ![t] = part]]
Absorbed(surplus, q) ==
    LET state[i \in 0..Len(q)] ==
          IF i = 0 THEN [capacity |-> Capacity(surplus, ToSet(q)), applied |-> [t \in Session |-> 0]]
          ELSE Absorb(state[i - 1], q[i])
    IN  state
Applications(surplus, q) == Absorbed(surplus, q)[Len(q)].applied

-----------------------------------------------------------------------------
CloseInit ==
    /\ Init
    /\ wanted = [c \in Closer |-> None]
    /\ stage = [c \in Closer |-> "idle"]
    /\ roles = [c \in Closer |-> {}]
    /\ figures = [c \in Closer |-> None]
    /\ absorbed = [c \in Closer |-> [t \in Session |-> 0]]

Turn(c, label) == stage' = [stage EXCEPT ![c] = label]
Leave(c, label) ==
    /\ Turn(c, label)
    /\ locks' = Released(c)
    /\ UNCHANGED <<journal, table, wanted, roles, figures, absorbed>>
Refuse(c) ==
    /\ Turn(c, "refused")
    /\ locks' = Released(c)
    /\ roles' = [roles EXCEPT ![c] = {}]
    /\ figures' = [figures EXCEPT ![c] = None]
    /\ absorbed' = [absorbed EXCEPT ![c] = [t \in Session |-> 0]]
    /\ UNCHANGED <<journal, table, wanted>>

\* The user confirms the proposal a preview just showed, or retries a request
\* with the proposal an earlier attempt confirmed.
BeginClose(c, m, k) ==
    /\ stage[c] = "idle"
    /\ \E p \in {ProposalOf(m)} \cup {wanted[d].proposal : d \in {e \in Closer : wanted[e] # None}} :
          wanted' = [wanted EXCEPT ![c] = [month |-> m, key |-> k, proposal |-> p]]
    /\ Turn(c, "lookup")
    /\ UNCHANGED <<journal, table, locks, roles, figures, absorbed>>

\* A committed close that used the key: a replay if it is the same request.
KeyUsed(c) == {d \in Done : wanted[d].key = wanted[c].key}
TryReplay(c, d) ==
    \/ wanted[d] = wanted[c] /\ Leave(c, "replayed")
    \/ wanted[d] # wanted[c] /\ Refuse(c)

LookupClose(c) ==
    /\ stage[c] = "lookup"
    /\ \/ \E d \in KeyUsed(c) : TryReplay(c, d)
       \/ /\ KeyUsed(c) = {}
          /\ Turn(c, "anchor")
          /\ UNCHANGED <<journal, table, locks, wanted, roles, figures, absorbed>>

\* INSERT of the anchor ON CONFLICT (user_id, period_month) DO NOTHING: it
\* waits for a closer that inserted it and has not ended.
Anchored(c) == {d \in Closer \ {c} : /\ wanted[d] # None
                                     /\ wanted[d].month = wanted[c].month
                                     /\ stage[d] \notin {"lookup", "anchor"} \cup Ended}
InsertAnchor(c) ==
    /\ stage[c] = "anchor"
    /\ Anchored(c) = {}
    /\ \/ /\ wanted[c].month \notin closed
          /\ Turn(c, "resolve")
          /\ UNCHANGED <<journal, table, locks, wanted, roles, figures, absorbed>>
       \/ wanted[c].month \in closed /\ \E d \in KeyUsed(c) : TryReplay(c, d)
       \/ wanted[c].month \in closed /\ KeyUsed(c) = {} /\ Refuse(c)

ResolveRoles(c) ==
    /\ stage[c] = "resolve"
    /\ roles' = [roles EXCEPT ![c] = Budgeted \cap provisioned]
    /\ Turn(c, "lock")
    /\ UNCHANGED <<journal, table, locks, wanted, figures, absorbed>>

\* lockLedgerAccountsInTransaction, ascending, one row at a time.  Its check
\* for archived accounts cannot fail: every required account is linked.
LocksNothing(c) == {}
Required(c) == roles[c] \cup MidasAccount
ToLock(c) == Required(c) \ Held(c, "ForUpdate")
LockAccounts(c) ==
    /\ stage[c] = "lock"
    /\ \/ \E a \in Lowest(ToLock(c)) :
             /\ Grantable(locks, c, a, "ForUpdate")
             /\ Lock(c, a, "ForUpdate")
             /\ UNCHANGED <<journal, table, closing>>
       \/ /\ ToLock(c) = {}
          /\ Turn(c, "figures")
          /\ UNCHANGED <<journal, table, locks, wanted, roles, figures, absorbed>>

ReadExpenses(c) ==
    /\ stage[c] = "figures"
    /\ LET net == NetExpense(wanted[c].month, roles[c]) IN
       \/ Total(net, Unclassified) > 0 /\ Refuse(c)
       \/ /\ Total(net, Unclassified) <= 0
          /\ figures' = [figures EXCEPT ![c] =
                [net |-> net, snapshot |-> Countable(wanted[c].month), prior |-> {},
                 priorTotal |-> 0, surplus |-> Surplus(net), routable |-> 0]]
          /\ Turn(c, "adjustments")
          /\ UNCHANGED <<journal, table, locks, wanted, roles, absorbed>>

\* The unapplied adjustments of earlier months, FOR UPDATE; then the figures
\* must be the ones the user confirmed.
LocksAdjustment(c) == {d \in Closer \ {c} : /\ stage[d] \in {"settle", "commit"}
                                            /\ figures[d].prior \cap Unapplied(wanted[c].month) # {}}
ReadAdjustments(c) ==
    /\ stage[c] = "adjustments"
    /\ LocksAdjustment(c) = {}
    /\ LET prior == Unapplied(wanted[c].month)
           total == RemainingTotal(prior)
           now == [net |-> figures[c].net, prior |-> total]
       IN \/ now # wanted[c].proposal /\ Refuse(c)
          \/ /\ now = wanted[c].proposal
             /\ figures' = [figures EXCEPT ![c].prior = prior,
                                           ![c].priorTotal = total,
                                           ![c].routable = Clamp(figures[c].surplus + total)]
             /\ Turn(c, "settle")
             /\ UNCHANGED <<journal, table, locks, wanted, roles, absorbed>>

\* Route the surplus (which can fail on liquidity), insert the revision, whose
\* key is unique, and apply the adjustments.
Settling(c) == {d \in Closer \ {c} : stage[d] = "commit" /\ wanted[d].key = wanted[c].key}
Settle(c) ==
    /\ stage[c] = "settle"
    /\ \/ Refuse(c)
       \/ /\ KeyUsed(c) = {} /\ Settling(c) = {}
          /\ \E q \in OldestFirst(figures[c].prior) :
                absorbed' = [absorbed EXCEPT ![c] = Applications(figures[c].surplus, q)]
          /\ Turn(c, "commit")
          /\ UNCHANGED <<journal, table, locks, wanted, roles, figures>>

CommitClose(c) ==
    /\ stage[c] = "commit"
    /\ Turn(c, "done")
    /\ closed' = closed \cup {wanted[c].month}
    /\ counted' = [counted EXCEPT ![wanted[c].month] = figures[c].snapshot]
    /\ locks' = Released(c)
    /\ UNCHANGED <<journal, provisioned, archived, wanted, roles, figures, absorbed>>

CloseStep(c) ==
    \/ LookupClose(c) \/ InsertAnchor(c) \/ ResolveRoles(c) \/ LockAccounts(c)
    \/ ReadExpenses(c) \/ ReadAdjustments(c) \/ Settle(c) \/ CommitClose(c)

\* Sessions and closers wait for each other; any of them may be the victim.
WaitingClose(c) ==
    CASE stage[c] = "anchor"      -> Anchored(c)
      [] stage[c] = "lock"        ->
           UNION {Holders(locks, c, a, "ForUpdate") : a \in Lowest(ToLock(c))}
      [] stage[c] = "adjustments" -> LocksAdjustment(c)
      [] stage[c] = "settle"      -> Settling(c)
      [] OTHER                    -> {}
WaitingAny(x) == IF x \in Closer THEN WaitingClose(x) ELSE Waiting(x)
Circular(x) == InCircle(x, Session \cup Closer, WaitingAny)
CrashClose(c) == stage[c] \notin {"idle"} \cup Ended /\ Refuse(c)
Victim(c) == Circular(c) /\ Refuse(c)
VictimPosting(s) == Circular(s) /\ Rollback(s, "rolledBack")

Closing == \E c \in Closer : \/ \E m \in Month, k \in CloseKey : BeginClose(c, m, k)
                             \/ CloseStep(c)
                             \/ CrashClose(c)
                             \/ Victim(c)
CloseNext ==
    \/ Closing
    \/ /\ Posting \/ \E s \in Session : VictimPosting(s)
       /\ UNCHANGED closing

CloseSpec == CloseInit /\ [][CloseNext]_allVars
FairCloseSpec ==
    /\ CloseSpec
    /\ \A s \in Session : /\ WF_allVars(Step(s) /\ UNCHANGED closing)
                          /\ WF_allVars(VictimPosting(s) /\ UNCHANGED closing)
    /\ \A c \in Closer : WF_allVars(CloseStep(c)) /\ WF_allVars(Victim(c))

-----------------------------------------------------------------------------
(* Properties.                                                             *)

\* The close, run statement by statement among postings, is one atomic step:
\* between the moment it reads the expenses and its commit no entry it should
\* have counted appears, and a month is closed at most once.
Atomic == INSTANCE JournalPosting
            WITH locks <- {l \in locks : l.session \in Session}
ClosesAtomically == Atomic!Spec

\* What the user confirmed in the preview is still what the ledger says when
\* the close commits.
ConfirmedFiguresHold ==
    [][\A c \in Closer :
          stage[c] = "commit" /\ stage'[c] = "done"
          => wanted[c].proposal.net = NetExpense(wanted[c].month, Budgeted)]_allVars

\* No cent is routed twice or lost: what the closes offered for routing plus
\* what later closes still have to absorb equals the surpluses of the closed
\* months plus the adjustments recorded against them.
MoneyConserved ==
    LET of(f, S) == Total([c \in Closer |-> IF c \in S THEN figures[c][f] ELSE 0], Closer)
        adjustments == {t \in Posted : adjusted[t]}
    IN  of("routable", Done) + RemainingTotal(adjustments)
          = of("surplus", Done) + Total([t \in Session |-> IF t \in adjustments THEN Owed(t) ELSE 0], Session)

\* Closes never apply more of an adjustment than it owes, nor against its sign.
AppliedWithinOwed ==
    \A t \in Posted : adjusted[t] =>
        \/ 0 <= AppliedTo(t) /\ AppliedTo(t) <= Owed(t)
        \/ Owed(t) <= AppliedTo(t) /\ AppliedTo(t) <= 0

\* Every close ends, whatever it waits for.
ClosesEnd == \A c \in Closer : wanted[c] # None ~> stage[c] \in Ended

\* What src/month-close/service.ts:1185 says: the lock order is never
\* inverted, so that no close waits in a circle with a posting.
NoCloseInCircle == \A c \in Closer : ~Circular(c)

\* What src/month-close/service.ts:1260 says: no entry that touches the expense
\* roles is posted between a close's reading of the expenses and its commit.
CoherentPostingBoundary ==
    [][\A c \in Closer, s \in Session :
          /\ stage[c] \in {"adjustments", "settle", "commit"}
          /\ pc[s] = "transition" /\ pc'[s] = "closeCheck"
          => Touched(entry[s].lines) \cap Budgeted = {}]_allVars
=============================================================================
