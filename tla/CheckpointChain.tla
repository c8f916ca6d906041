--------------------------- MODULE CheckpointChain ---------------------------
(***************************************************************************)
(* The budget checkpoints of src/budget: a payment of a statement on a     *)
(* trigger card leaves a request behind, in its own transaction, and the   *)
(* hourly processor turns the requests into a chain of snapshots, each     *)
(* reporting on the time since the one before it.  Runs of the processor   *)
(* overlap.  A payment's instant is the one its client sends, so it may be *)
(* earlier than that of a payment recorded before.                         *)
(*                                                                         *)
(* A query of a run outside its transactions is a step of its own, and so  *)
(* is the transaction that stores a snapshot; a run that is cut off leaves *)
(* the snapshots it stored and nothing else.                               *)
(***************************************************************************)
EXTENDS Naturals, Sequences, FiniteSets, SequencesExt

CONSTANTS
    Payment,       \* payment events on trigger cards
    Instant,       \* checkpointAt of each: the occurredAt of its payment
    Period,        \* user and periodMonth of each, numbered in the order of discovery
    Late,          \* the payments that may be recorded after a later one
    Failing,       \* the payments whose report fails closed
    MaxDiscovered, \* requests one run takes up, 100 in the code
    Worker,        \* invocations of the processor
    Absent         \* no snapshot

ASSUME CheckpointAssumption ==
    /\ Instant \in [Payment -> Nat] /\ Period \in [Payment -> Nat]
    /\ Late \subseteq Payment /\ Failing \subseteq Payment
    /\ MaxDiscovered \in Nat \ {0} /\ Absent \notin Payment

VARIABLES
    requests,      \* budget_v2_checkpoint_requests: the outbox
    snapshots,     \* the snapshots, as the payments they are of
    chain,         \* the predecessor each was stored with ...
    since,         \* ... and the one its report was built from
    worker         \* where each run is

checkpointVars == <<requests, snapshots, chain, since, worker>>
storedVars == <<requests, snapshots, chain, since>>

Resting == [stage |-> "idle", groups |-> <<>>, built |-> Absent]
CheckpointTypeOK ==
    /\ snapshots \subseteq requests /\ requests \subseteq Payment
    /\ chain \in [Payment -> Payment \cup {Absent}]
    /\ since \in [Payment -> Payment \cup {Absent}]
    /\ DOMAIN worker = Worker
    /\ \A w \in Worker : /\ worker[w].stage \in {"idle", "group", "replay", "report", "persist", "failed"}
                         /\ worker[w].groups \in Seq(Seq(Payment))
                         /\ worker[w].built \in Payment \cup {Absent}

CheckpointInit ==
    /\ requests = {} /\ snapshots = {}
    /\ chain = [p \in Payment |-> Absent]
    /\ since = [p \in Payment |-> Absent]
    /\ worker = [w \in Worker |-> Resting]

-----------------------------------------------------------------------------
Unsettled == requests \ snapshots
Before(p, q) == Period[p] = Period[q] /\ Instant[p] < Instant[q]
SameInstant(p, q) == p # q /\ Period[p] = Period[q] /\ Instant[p] = Instant[q]
LatestBefore(p) ==
    LET earlier == {q \in snapshots : Before(q, p)}
    IN  IF earlier = {} THEN Absent
        ELSE CHOOSE q \in earlier : \A r \in earlier : Instant[r] <= Instant[q]

\* maybeEnqueueBudgetV2CheckpointRequest, in the transaction of the payment.
RecordPayment(p) ==
    /\ p \notin requests
    /\ p \notin Late => \A q \in requests : ~Before(p, q)
    /\ requests' = requests \cup {p}
    /\ UNCHANGED <<snapshots, chain, since, worker>>

-----------------------------------------------------------------------------
(* processPendingBudgetV2CheckpointRequests.                               *)

\* The first of the unsettled requests by user, month and instant, those of
\* one instant in the order of their ids: what a run does not take up stays
\* behind the rest for the next one.
NotAfter(p, q) == Period[p] < Period[q] \/ (Period[p] = Period[q] /\ Instant[p] <= Instant[q])
DiscoveredOneShort ==
    {D \in SUBSET Unsettled :
        /\ IF Cardinality(Unsettled) < MaxDiscovered THEN D = Unsettled ELSE Cardinality(D) = MaxDiscovered - 1
        /\ \A p \in D, q \in Unsettled \ D : NotAfter(p, q)}
Discovered ==
    {D \in SUBSET Unsettled :
        /\ IF Cardinality(Unsettled) < MaxDiscovered THEN D = Unsettled ELSE Cardinality(D) = MaxDiscovered
        /\ \A p \in D, q \in Unsettled \ D : NotAfter(p, q)}

\* They are grouped by month, the months and the requests of a month oldest
\* first.
InOrder(S) ==
    {s \in [1..Cardinality(S) -> S] :
        ToSet(s) = S /\ \A i, j \in DOMAIN s : i < j => Instant[s[i]] <= Instant[s[j]]}
OfMonth(D, m) == {p \in D : Period[p] = m}
Groups(D) ==
    LET months == {Period[p] : p \in D}
    IN  {g \in [1..Cardinality(months) -> UNION {InOrder(OfMonth(D, m)) : m \in months}] :
            \A i, j \in DOMAIN g : i < j => Period[Head(g[i])] < Period[Head(g[j])]}

DiscoverPending(w) ==
    /\ worker[w].stage = "idle" /\ Unsettled # {}
    /\ \E D \in Discovered : \E groups \in Groups(D) :
          worker' = [worker EXCEPT ![w] = [stage |-> "group", groups |-> groups, built |-> Absent]]
    /\ UNCHANGED storedVars

\* The next request of the group is up, or the rest of the group is given up.
Proceed(w, stage) == worker' = [worker EXCEPT ![w].stage = stage]
NextGroup(w) ==
    worker' = [worker EXCEPT ![w] = IF Len(@.groups) = 1 THEN Resting
                                    ELSE [stage |-> "group", groups |-> Tail(@.groups), built |-> Absent]]
NextRequest(w) ==
    LET group == Head(worker[w].groups)
    IN  IF Len(group) = 1 THEN NextGroup(w)
        ELSE worker' = [worker EXCEPT ![w] = [stage |-> "replay", groups |-> <<Tail(group)>> \o Tail(@.groups),
                                              built |-> Absent]]

BlockedByEarlier(group) == \E p \in Unsettled : Before(p, Head(group))
BlockedByItself(group) ==
    \/ \E p \in Unsettled : Period[p] = Period[Head(group)] /\ Instant[p] <= Instant[Head(group)]
    \/ \E p \in ToSet(group), q \in requests : SameInstant(p, q)
\* An earlier request without a snapshot, or two payments of one instant,
\* block the whole group.
Blocked(group) ==
    \/ \E p \in Unsettled : Before(p, Head(group))
    \/ \E p \in ToSet(group), q \in requests : SameInstant(p, q)
CheckGroup(w) ==
    /\ worker[w].stage = "group"
    /\ IF Blocked(Head(worker[w].groups)) THEN NextGroup(w) ELSE Proceed(w, "replay")
    /\ UNCHANGED storedVars

Up(w) == Head(Head(worker[w].groups))
ReplayBeforeLive(w) ==
    /\ worker[w].stage = "replay"
    /\ IF Up(w) \in snapshots THEN NextRequest(w) ELSE Proceed(w, "report")
    /\ UNCHANGED storedVars

BuildReport(w) ==
    /\ worker[w].stage = "report"
    /\ IF Up(w) \in Failing THEN NextGroup(w)
       ELSE worker' = [worker EXCEPT ![w] = [stage |-> "persist", groups |-> @.groups, built |-> LatestBefore(Up(w))]]
    /\ UNCHANGED storedVars

ChainAssumed(w) == Up(w) \notin snapshots
\* persistCheckpointSnapshot, on the locked request.  The insert tolerates a
\* conflict on the request; the unique index on the predecessor raises.
ChainUnmoved(w) == LatestBefore(Up(w)) = worker[w].built
Forks(w) == worker[w].built # Absent /\ \E q \in snapshots : chain[q] = worker[w].built

ObserveSnapshot(w) ==
    /\ worker[w].stage = "persist" /\ Up(w) \in snapshots
    /\ NextRequest(w)
    /\ UNCHANGED storedVars

PredecessorChanged(w) ==
    /\ worker[w].stage = "persist" /\ Up(w) \notin snapshots /\ ~ChainUnmoved(w)
    /\ NextGroup(w)
    /\ UNCHANGED storedVars

StoreSnapshot(w) ==
    LET p == Up(w)
    IN  /\ worker[w].stage = "persist" /\ p \notin snapshots /\ ChainUnmoved(w) /\ ~Forks(w)
        /\ snapshots' = snapshots \cup {p}
        /\ chain' = [chain EXCEPT ![p] = LatestBefore(p)]
        /\ since' = [since EXCEPT ![p] = worker[w].built]
        /\ NextRequest(w)
        /\ UNCHANGED requests

ProcessorFails(w) ==
    /\ worker[w].stage = "persist" /\ Up(w) \notin snapshots /\ ChainUnmoved(w) /\ Forks(w)
    /\ worker' = [worker EXCEPT ![w] = [Resting EXCEPT !.stage = "failed"]]
    /\ UNCHANGED storedVars

\* The next hour.
StartAgain(w) ==
    /\ worker[w].stage = "failed"
    /\ worker' = [worker EXCEPT ![w] = Resting]
    /\ UNCHANGED storedVars

ProcessorStep(w) ==
    \/ DiscoverPending(w) \/ CheckGroup(w) \/ ReplayBeforeLive(w) \/ BuildReport(w)
    \/ ObserveSnapshot(w) \/ PredecessorChanged(w) \/ StoreSnapshot(w)
    \/ ProcessorFails(w) \/ StartAgain(w)
CheckpointNext == (\E p \in Payment : RecordPayment(p)) \/ \E w \in Worker : ProcessorStep(w)
CheckpointFairness == \A w \in Worker : WF_checkpointVars(ProcessorStep(w))
CheckpointSpec == CheckpointInit /\ [][CheckpointNext]_checkpointVars

-----------------------------------------------------------------------------
(* Properties.                                                             *)

\* A snapshot's report covers exactly the time since the snapshot it follows,
\* whatever other runs stored while it was built.
ReportFollowsChain == \A p \in snapshots : since[p] = chain[p]

\* Two payments of the same instant never both get a snapshot, also when the
\* second is recorded while the first is being reported on.
CollisionsUnresolved == \A p, q \in snapshots : ~SameInstant(p, q)

\* The snapshots are one line in time, without gaps, overlaps or ties.
ReportsInLine == ReportFollowsChain /\ CollisionsUnresolved

\* A request may wait for ever if it or an earlier one of its month fails
\* closed, if two of its month collide, or if a payment was recorded behind the
\* checkpoint it should have preceded, in its month or before (NoRunFails).
Misplaced(p) == p \in Late /\ \E r \in Payment : Before(r, p)
Stuck(p) ==
    \E q \in requests :
        \/ Period[q] = Period[p] /\ Instant[q] <= Instant[p] /\ (q \in Failing \/ Misplaced(q))
        \/ Period[q] = Period[p] /\ \E r \in requests : SameInstant(q, r)
        \/ Period[q] < Period[p] /\ Misplaced(q)
\* Any other request is reported on in the end, whatever is stuck in other
\* months, as long as those that are stuck before it leave it a place among
\* the requests a run takes up.
Crowded(p) == Cardinality({q \in Unsettled : Stuck(q) /\ q # p /\ NotAfter(q, p)}) >= MaxDiscovered
EveryCheckpointStored ==
    []<>(\A p \in requests : Stuck(p) \/ Crowded(p) \/ p \in snapshots)

\* The processor's own account of its guarantees: a changed predecessor or a
\* failed report never turns a run into an infrastructure failure, and no raw
\* uniqueness violation escapes from it.
NoRunFails == \A w \in Worker : worker[w].stage # "failed"
=============================================================================
