----------------------------- MODULE BudgetPlans -----------------------------
(***************************************************************************)
(* The monthly budget plans of src/budget, of both policy versions, and    *)
(* the close of a month as far as it rests on one.                         *)
(*                                                                         *)
(* A plan is a chain of revisions.  The first policy computes each from    *)
(* the reference income, which it reads in two statements; the second is   *)
(* given what it stores.  Creating and refreshing run in REPEATABLE READ:  *)
(* every read is of the snapshot that the first statement took, and a      *)
(* refresh takes it before it waits for the plan's row.  What others       *)
(* committed since is met by unique indexes alone: the triggers read the   *)
(* snapshot too.  Voiding and closing run in READ COMMITTED, and read      *)
(* under the plan's row.  The revision of the canonical transaction that   *)
(* each revision of a plan has is stored with it and has its number.       *)
(***************************************************************************)
EXTENDS Naturals, Sequences, FiniteSets, FiniteSetsExt

CONSTANTS
    Planner,       \* the requests of the user's clients
    Intents,       \* what each may ask for
    Incomes,       \* what the two reads of the reference would find, over time
    Unplanned,     \* no request yet
    Unheard,       \* no answer yet
    NoPlanner      \* nobody holds the row

ReferencePart == {"sources", "receipts"}
ASSUME PlanAssumption ==
    /\ Incomes \in Seq([ReferencePart -> Nat]) /\ Incomes # <<>>
    /\ \A c \in Planner : \A w \in Intents[c] :
          /\ w.op \in {"create", "refresh", "void", "close"}
          /\ w.plan.version \in {"V1", "V2"}
          /\ w.op = "close" => w.plan.version = "V1"
    /\ Unplanned \notin UNION {Intents[c] : c \in Planner} /\ NoPlanner \notin Planner

VARIABLES
    moment,        \* how far the incomes have changed
    planned,       \* the revisions of all plans
    closedOn,      \* the closes of months: the plan and the revision each rests on
    intent,        \* what each request asks for
    planStep,      \* how far it is
    view,          \* the moment and the revisions it sees, and what it found of the incomes
    decision,      \* its answer
    planHolder     \* who holds the row of each plan

planVars == <<moment, planned, closedOn, intent, planStep, view, decision, planHolder>>

Budget == {w.plan : w \in UNION {Intents[c] : c \in Planner}}
RevisionsOf(revisions, p) == {r \in revisions : r.plan = p}
LatestOf(revisions, p) == CHOOSE r \in RevisionsOf(revisions, p) :
                              \A s \in RevisionsOf(revisions, p) : s.no <= r.no
InUse(p, revisions) == RevisionsOf(revisions, p) # {} /\ LatestOf(revisions, p).op # "void"

PlanTypeOK ==
    /\ moment \in DOMAIN Incomes
    /\ \A r \in planned : /\ r.plan \in Budget /\ r.no \in Nat \ {0}
                          /\ r.op \in {"create", "refresh", "void"}
    /\ \A s \in closedOn : s.plan \in Budget /\ s.no \in Nat
    /\ \A c \in Planner : /\ intent[c] \in Intents[c] \cup {Unplanned}
                          /\ view[c].moment \in 1..moment /\ view[c].revisions \subseteq planned
                          /\ DOMAIN view[c].found \subseteq ReferencePart
    /\ planStep \in [Planner -> {"idle", "looked", "waiting", "reading", "ended"}]
    /\ decision \in [Planner -> {"stored", "replayed", "conflict", "refused", Unheard}]
    /\ planHolder \in [Budget -> Planner \cup {NoPlanner}]

NothingSeen == [moment |-> 1, revisions |-> {}, found |-> <<>>]
PlanInit ==
    /\ moment = 1 /\ planned = {} /\ closedOn = {}
    /\ intent = [c \in Planner |-> Unplanned]
    /\ planStep = [c \in Planner |-> "idle"]
    /\ view = [c \in Planner |-> NothingSeen]
    /\ decision = [c \in Planner |-> Unheard]
    /\ planHolder = [p \in Budget |-> NoPlanner]

-----------------------------------------------------------------------------
(* What a statement sees.                                                  *)

ViewNow(c) == Incomes[moment]
View(c) == Incomes[view[c].moment]

\* The revision that a request is a retry of, if its answer is a replay: the
\* second policy compares the payload too, the first recomputes nothing.
Repeats(w, r) ==
    /\ r.op = w.op /\ r.plan = w.plan /\ r.why = w.why
    /\ w.plan.version = "V2" /\ w.op # "void" => r.reference = w.reference
Recall(w, revisions) ==
    IF \E r \in revisions : r.key = w.key /\ Repeats(w, r) THEN "replayed" ELSE "conflict"
KeyTaken(w) == \E r \in planned : r.key = w.key

\* The unique indexes: the keys of revisions, and the numbers within a plan.
\* The first number stands for the plan of a month as well.
KeyFree(w, no) == ~KeyTaken(w)
Unclaimed(w, no) ==
    /\ KeyFree(w, no)
    /\ \A r \in RevisionsOf(planned, w.plan) : r.no # no

Decided(c, answer) ==
    /\ decision' = [decision EXCEPT ![c] = answer]
    /\ planStep' = [planStep EXCEPT ![c] = "ended"]
    /\ view' = [view EXCEPT ![c] = NothingSeen]
    /\ planHolder' = [p \in Budget |-> IF planHolder[p] = c THEN NoPlanner ELSE planHolder[p]]
ProceedTo(c, to) == planStep' = [planStep EXCEPT ![c] = to]

-----------------------------------------------------------------------------
(* The steps of a request.                                                 *)

\* A client names a plan it has been told of.  The key of a creation is looked
\* up first, in a statement of its own.
Intend(c, w) ==
    /\ intent[c] = Unplanned
    /\ w.op # "create" => RevisionsOf(planned, w.plan) # {}
    /\ intent' = [intent EXCEPT ![c] = w]
    /\ IF w.op = "create" /\ \E r \in planned : r.key = w.key /\ r.op = "create"
       THEN Decided(c, Recall(w, planned))
       ELSE ProceedTo(c, "looked") /\ UNCHANGED <<view, decision, planHolder>>
    /\ UNCHANGED <<moment, planned, closedOn>>

\* The first statement of the transaction.  A creation reads whether the month
\* has a plan; a close reads whether the plan stands, and claims the month.
BeginPlanning(c) ==
    LET w == intent[c]
        closes == {s \in closedOn : s.plan = w.plan}
        taken == IF w.op = "create" THEN RevisionsOf(planned, w.plan) # {}
                 ELSE w.op = "close" /\ (~InUse(w.plan, planned) \/ closes # {})
        claimed == \E d \in Planner \ {c} : /\ planStep[d] \in {"waiting", "reading"}
                                            /\ intent[d].op = "close" /\ intent[d].plan = w.plan
    IN  /\ planStep[c] = "looked"
        /\ w.op = "close" => ~claimed
        /\ IF w.op = "close" /\ \E s \in closes : s.key = w.key
           THEN Decided(c, IF \E s \in closes : s.no = w.expected THEN "replayed" ELSE "conflict")
           ELSE IF taken THEN Decided(c, "refused")
           ELSE /\ view' = [view EXCEPT ![c] = [moment |-> moment, revisions |-> planned,
                                                 found |-> <<>>]]
                /\ ProceedTo(c, IF w.op = "create" THEN "reading" ELSE "waiting")
                /\ UNCHANGED <<decision, planHolder>>
        /\ UNCHANGED <<moment, planned, closedOn, intent>>

\* The plan's row is free, and a refresh goes by what its snapshot has.
LockForRefresh(c) ==
    LET w == intent[c]
        before == view[c].revisions
        retried == \E r \in RevisionsOf(before, w.plan) : r.key = w.key /\ r.op = "refresh"
    IN  /\ planStep[c] = "waiting" /\ w.op = "refresh" /\ planHolder[w.plan] = NoPlanner
        /\ IF retried THEN Decided(c, Recall(w, before))
           ELSE IF ~InUse(w.plan, before) \/ LatestOf(before, w.plan).no # w.expected
           THEN Decided(c, "refused")
           ELSE /\ planHolder' = [planHolder EXCEPT ![w.plan] = c]
                /\ ProceedTo(c, "reading") /\ UNCHANGED <<view, decision>>
        /\ UNCHANGED <<moment, planned, closedOn, intent>>

\* getMonthlyReferenceIncome: the sources, then the receipts of some of them.
ReadReference(c, part) ==
    /\ planStep[c] = "reading" /\ intent[c].op # "close" /\ intent[c].plan.version = "V1"
    /\ part \notin DOMAIN view[c].found /\ (part = "receipts" => "sources" \in DOMAIN view[c].found)
    /\ view' = [view EXCEPT ![c].found = [q \in DOMAIN @ \cup {part} |->
                                             IF q = part THEN View(c)[part] ELSE @[q]]]
    /\ UNCHANGED <<moment, planned, closedOn, intent, planStep, decision, planHolder>>


\* What is stored: the reference that was read, or what the request came with.
Reference(c) == IF intent[c].plan.version = "V1" THEN view[c].found ELSE intent[c].reference

\* The key is looked up once more, in the snapshot, and the indexes decide the
\* rest.  A creation looks among the creations only.
StorePlan(c) ==
    LET w == intent[c]
        no == IF w.op = "create" THEN 1 ELSE LatestOf(view[c].revisions, w.plan).no + 1
    IN  /\ planStep[c] = "reading" /\ w.op \in {"create", "refresh"}
        /\ w.plan.version = "V1" => DOMAIN view[c].found = ReferencePart
        /\ IF \E r \in view[c].revisions : r.key = w.key /\ (w.op = "create" => r.op = "create")
           THEN Decided(c, "conflict") /\ UNCHANGED planned
           ELSE IF ~Unclaimed(w, no) THEN Decided(c, "refused") /\ UNCHANGED planned
           ELSE /\ planned' = planned \cup {[plan |-> w.plan, no |-> no, op |-> w.op, key |-> w.key,
                                             why |-> w.why, reference |-> Reference(c)]}
                /\ Decided(c, "stored")
        /\ UNCHANGED <<moment, closedOn, intent>>

\* Voiding copies the revision it ends.
VoidPlan(c) ==
    LET w == intent[c]
        last == LatestOf(planned, w.plan)
    IN  /\ planStep[c] = "waiting" /\ w.op = "void" /\ planHolder[w.plan] = NoPlanner
        /\ IF KeyTaken(w) THEN Decided(c, Recall(w, planned)) /\ UNCHANGED planned
           ELSE IF last.op = "void" \/ last.no # w.expected
           THEN Decided(c, "refused") /\ UNCHANGED planned
           ELSE /\ planned' = planned \cup {[last EXCEPT !.no = @ + 1, !.op = "void",
                                                           !.key = w.key, !.why = w.why]}
                /\ Decided(c, "stored")
        /\ UNCHANGED <<moment, closedOn, intent>>

\* A close reads the plan again under its row, for the figures it compares
\* with those that were confirmed, and then works on.
KeepsNoRow(c, p) == UNCHANGED planHolder
KeepsRow(c, p) == planHolder' = [planHolder EXCEPT ![p] = c]
LockForClose(c) ==
    LET p == intent[c].plan
    IN  /\ planStep[c] = "waiting" /\ intent[c].op = "close" /\ planHolder[p] = NoPlanner
        /\ IF ~InUse(p, planned) \/ LatestOf(planned, p).no # intent[c].expected
           THEN Decided(c, "refused")
           ELSE KeepsRow(c, p) /\ ProceedTo(c, "reading") /\ UNCHANGED <<view, decision>>
        /\ UNCHANGED <<moment, planned, closedOn, intent>>
RestOnPlan(c) ==
    /\ planStep[c] = "reading" /\ intent[c].op = "close"
    /\ closedOn' = closedOn \cup {[plan |-> intent[c].plan, no |-> intent[c].expected,
                                   key |-> intent[c].key]}
    /\ Decided(c, "stored")
    /\ UNCHANGED <<moment, planned, intent>>

\* The request, or its connection, is lost: PostgreSQL rolls it back.
LosePlanner(c) ==
    /\ planStep[c] \in {"waiting", "reading"}
    /\ Decided(c, "refused")
    /\ UNCHANGED <<moment, planned, closedOn, intent>>

\* Receipts, sources and their revisions are committed meanwhile.
IncomeChanges ==
    /\ moment < Len(Incomes)
    /\ moment' = moment + 1
    /\ UNCHANGED <<planned, closedOn, intent, planStep, view, decision, planHolder>>

PlanNext ==
    \/ IncomeChanges
    \/ \E c \in Planner :
          \/ \E w \in Intents[c] : Intend(c, w)
          \/ BeginPlanning(c) \/ LockForRefresh(c) \/ StorePlan(c) \/ VoidPlan(c)
          \/ LockForClose(c) \/ RestOnPlan(c) \/ LosePlanner(c)
          \/ \E part \in ReferencePart : ReadReference(c, part)
PlanSpec == PlanInit /\ [][PlanNext]_planVars

-----------------------------------------------------------------------------
(* Properties.                                                             *)

\* What a plan of the first policy rests on was true at one moment.
FromOneMoment ==
    \A r \in planned : r.plan.version = "V1" => \E i \in 1..moment : Incomes[i] = r.reference

\* A refreshed plan never goes back to older incomes than it had, however long
\* its request waited for the one before it.
NeverOlder ==
    \A r, s \in planned :
        r.plan = s.plan /\ r.plan.version = "V1" /\ r.no < s.no =>
            \E i \in 1..moment : \E j \in i..moment :
                Incomes[i] = r.reference /\ Incomes[j] = s.reference

\* The revisions of a plan are one chain, of one creation, that ends when the
\* plan is voided; each was stored by one request.
OneChain ==
    /\ \A r, s \in planned : r.key = s.key \/ (r.plan = s.plan /\ r.no = s.no) => r = s
    /\ \A r \in planned : /\ r.op = "create" <=> r.no = 1
                          /\ r.no > 1 => \E s \in RevisionsOf(planned, r.plan) :
                                             s.no = r.no - 1 /\ s.op # "void"

\* A month is closed on the revision that is the plan's latest: neither a
\* refresh nor a void gets between the figures it compares and its end.
ClosesOnLatest ==
    \A c \in Planner :
        planStep[c] = "reading" /\ intent[c].op = "close" =>
            /\ InUse(intent[c].plan, planned)
            /\ LatestOf(planned, intent[c].plan).no = intent[c].expected

\* Plans follow the incomes, and closes the plans: all of the above.
PlansInStep == FromOneMoment /\ NeverOlder /\ OneChain /\ ClosesOnLatest
=============================================================================
