-------------------------- MODULE EarmarkedSavings ---------------------------
(***************************************************************************)
(* The Midas savings account of src/midas and the short-term goals of      *)
(* src/short-term-goals: virtual transfers between buckets on top of one   *)
(* ledger account, whose balance the journal changes on its own.           *)
(*                                                                         *)
(* Every transfer, goal revision, priority revision and posting holds the  *)
(* row of the Midas account from before its checks until it commits, so it *)
(* is one step here; the lookup of its idempotency key comes before that   *)
(* lock, in a step of its own.                                             *)
(***************************************************************************)
EXTENDS Integers, Sequences, FiniteSets, SequencesExt, Functions

CONSTANTS
    Caller,            \* the requests the user's clients send
    Goal,              \* the short-term goals they may create; each has a bucket
    Existing,          \* those there are at first, in their order
    OtherBucket,       \* another bucket of the account
    Free,              \* no bucket: money that is not earmarked
    MayAsk,            \* what each may ask for
    JournalAmount,     \* the amounts journal entries move on the ledger account
    MaxBalance,        \* bound on the ledger balance
    NoReply

Bucket == Goal \cup {OtherBucket}
Cap == Nat

\* What a request asks for is of one of five forms; requests are finitely many.
ASSUME SavingsAssumption ==
    /\ IsFiniteSet(Caller) /\ IsFiniteSet(Goal)
    /\ NoReply \notin Caller \cup {"stored", "replayed", "conflict", "refused"} /\ Free \notin Bucket
    /\ Existing \in Seq(Goal) /\ IsInjective(Existing)
    /\ MaxBalance \in Nat /\ JournalAmount \subseteq Int
    /\ \A c \in Caller : \A q \in MayAsk[c] :
         /\ q.op \in {"transfer", "reverse", "create", "update", "finish", "reorder"}
         /\ q.op = "transfer" => /\ q.from \in Bucket \cup {Free} /\ q.to \in Bucket \cup {Free}
                                 /\ q.from # q.to /\ q.amount \in Nat
         /\ q.op = "reverse" => q.target \in Caller
         /\ q.op \in {"create", "update", "finish"} => q.goal \in Goal
         /\ q.op \in {"create", "update"} => q.cap \in Cap
         /\ q.op = "create" => q.position \in Nat \ {0}
         /\ q.op = "finish" => q.status \in {"COMPLETED", "CANCELLED"}
         /\ q.op = "reorder" => q.order \in Seq(Goal)

VARIABLES
    balance,       \* the POSTED balance of the linked ledger account
    moved,         \* the transfer each request stored, if any
    goals,         \* the latest revision of each goal
    priority,      \* the latest priority order
    asked,         \* what each request asks for, once it looked its key up
    reply          \* its answer

savingsVars == <<balance, moved, goals, priority, asked, reply>>

Nothing == [op |-> "none"]
NoTransfer == [from |-> Free, to |-> Free, amount |-> 0, reverses |-> NoReply]
GoalStatus == {"none", "ACTIVE", "COMPLETED", "CANCELLED"}

SavingsTypeOK ==
    /\ balance \in 0..MaxBalance
    /\ moved \in [Caller -> [from : Bucket \cup {Free}, to : Bucket \cup {Free}, amount : Nat,
                             reverses : Caller \cup {NoReply}]]
    /\ goals \in [Goal -> [status : GoalStatus, no : Nat, cap : Cap]]
    /\ priority \in Seq(Goal)
    /\ DOMAIN asked = Caller /\ \A c \in Caller : asked[c] \in MayAsk[c] \cup {Nothing}
    /\ reply \in [Caller -> {"stored", "replayed", "conflict", "refused", NoReply}]

-----------------------------------------------------------------------------
(* The sums the code aggregates from midas_allocation_transfers.           *)

Transferred == {c \in Caller : moved[c].amount > 0}
Sum(f) == SumFunctionOnSet(f, Caller)
BucketBalance(b) ==
    Sum([c \in Caller |-> (IF moved[c].to = b THEN moved[c].amount ELSE 0)
                          - (IF moved[c].from = b THEN moved[c].amount ELSE 0)])
Earmarked ==
    Sum([c \in Caller |-> IF moved[c].from = Free THEN moved[c].amount
                          ELSE IF moved[c].to = Free THEN -moved[c].amount ELSE 0])
ActiveGoals == {g \in Goal : goals[g].status = "ACTIVE"}

Table(q) == CASE q.op \in {"transfer", "reverse"} -> "transfers"
              [] q.op = "reorder" -> "priorities"
              [] OTHER -> "revisions"
\* The stored rows an idempotency key finds, and what they answer.
Earlier(q) == {c \in Caller : reply[c] = "stored" /\ asked[c].key = q.key /\ Table(asked[c]) = Table(q)}
Replay(q) == IF \E c \in Earlier(q) : asked[c] = q THEN "replayed" ELSE "conflict"

-----------------------------------------------------------------------------
SavingsInit ==
    /\ balance = MaxBalance
    /\ moved = [c \in Caller |-> NoTransfer]
    /\ goals = [g \in Goal |-> IF g \in ToSet(Existing) THEN [status |-> "ACTIVE", no |-> 1, cap |-> 0]
                               ELSE [status |-> "none", no |-> 0, cap |-> 0]]
    /\ priority = Existing
    /\ asked = [c \in Caller |-> Nothing]
    /\ reply = [c \in Caller |-> NoReply]

Look(c, q) ==
    /\ asked[c] = Nothing
    /\ asked' = [asked EXCEPT ![c] = q]
    /\ reply' = [reply EXCEPT ![c] = IF Earlier(q) # {} THEN Replay(q) ELSE NoReply]
    /\ UNCHANGED <<balance, moved, goals, priority>>

Asks(c, op) == asked[c].op = op /\ reply[c] = NoReply
Respond(c, what) == reply' = [reply EXCEPT ![c] = what]

\* createMidasAllocationTransferInTransaction and the insert guards it meets.
Covered(m) == m.from # Free => BucketBalance(m.from) >= m.amount
AffordedByBalance(m) == m.from = Free => m.amount <= balance
Afforded(m) == m.from = Free => Earmarked + m.amount <= balance
AcceptingFinished(m) == m.to \in Goal /\ goals[m.to].cap > 0 => BucketBalance(m.to) + m.amount <= goals[m.to].cap
Accepting(m) ==
    m.to \in Goal => /\ goals[m.to].status = "ACTIVE"
                     /\ goals[m.to].cap > 0 => BucketBalance(m.to) + m.amount <= goals[m.to].cap
Buckets(m) == \A b \in {m.from, m.to} \cap Goal : goals[b].status # "none"
Executable(m) == Buckets(m) /\ Covered(m) /\ Afforded(m) /\ Accepting(m)

StoreAgain(c, m) ==
    /\ IF ~Executable(m) THEN Respond(c, "refused") /\ UNCHANGED moved
       ELSE Respond(c, "stored") /\ moved' = [moved EXCEPT ![c] = m]
    /\ UNCHANGED <<balance, goals, priority, asked>>
\* The insert does nothing on a key another request stored after the lookup.
Store(c, m) ==
    /\ IF ~Executable(m) THEN Respond(c, "refused") /\ UNCHANGED moved
       ELSE IF Earlier(asked[c]) # {} THEN Respond(c, Replay(asked[c])) /\ UNCHANGED moved
       ELSE Respond(c, "stored") /\ moved' = [moved EXCEPT ![c] = m]
    /\ UNCHANGED <<balance, goals, priority, asked>>

Transfer(c) ==
    /\ Asks(c, "transfer")
    /\ Store(c, [from |-> asked[c].from, to |-> asked[c].to, amount |-> asked[c].amount,
                 reverses |-> NoReply])

ReversibleAgain(t) == t \in Transferred /\ moved[t].reverses = NoReply
\* reverseMidasAllocationTransfer: the exact inverse of a transfer that is no
\* reversal itself and has none yet.
Reversible(t) == t \in Transferred /\ moved[t].reverses = NoReply
                 /\ \A c \in Transferred : moved[c].reverses # t
ReverseTransfer(c) ==
    /\ Asks(c, "reverse")
    /\ LET t == asked[c].target
       IN  IF Reversible(t)
           THEN Store(c, [from |-> moved[t].to, to |-> moved[t].from, amount |-> moved[t].amount,
                          reverses |-> t])
           ELSE Respond(c, "refused") /\ UNCHANGED <<balance, moved, goals, priority, asked>>

-----------------------------------------------------------------------------
(* Goals.  Each handler looks its key up again under the lock.             *)

Handle(c, op, allowed, effect) ==
    /\ Asks(c, op)
    /\ IF Earlier(asked[c]) # {} THEN Respond(c, Replay(asked[c])) /\ UNCHANGED <<goals, priority>>
       ELSE IF ~allowed THEN Respond(c, "refused") /\ UNCHANGED <<goals, priority>>
       ELSE Respond(c, "stored") /\ effect
    /\ UNCHANGED <<balance, moved, asked>>

Revise(g, status, cap) == goals' = [goals EXCEPT ![g] = [status |-> status, no |-> @.no + 1, cap |-> cap]]
Latest(c) == LET g == asked[c].goal
             IN  goals[g].no = asked[c].expected /\ goals[g].status = "ACTIVE"

CreateGoal(c) ==
    Handle(c, "create", asked[c].position <= Len(priority) + 1 /\ goals[asked[c].goal].status = "none",
           /\ Revise(asked[c].goal, "ACTIVE", asked[c].cap)
           /\ priority' = InsertAt(priority, asked[c].position, asked[c].goal))

WithinCap(g, cap) == cap > 0 => BucketBalance(g) <= cap
UpdateGoal(c) ==
    Handle(c, "update", Latest(c) /\ WithinCap(asked[c].goal, asked[c].cap),
           /\ Revise(asked[c].goal, "ACTIVE", asked[c].cap)
           /\ UNCHANGED priority)

\* completeShortTermGoal and cancelShortTermGoal.
Emptied(g) == BucketBalance(g) = 0
Untouched(order, g) == order
Without(order, g) == RemoveAt(order, CHOOSE i \in DOMAIN order : order[i] = g)
FinishGoal(c) ==
    Handle(c, "finish", Latest(c) /\ Emptied(asked[c].goal),
           /\ Revise(asked[c].goal, asked[c].status, goals[asked[c].goal].cap)
           /\ priority' = Without(priority, asked[c].goal))

Reorders(order) == ToSet(order) = ActiveGoals /\ Len(order) = Cardinality(ActiveGoals)
ReorderGoals(c) ==
    Handle(c, "reorder", Reorders(asked[c].order),
           /\ priority' = asked[c].order
           /\ UNCHANGED goals)

\* A journal entry on the ledger account: its transition to POSTED.
Solvable(amount) == balance + amount >= Earmarked
PostOnMidas(amount) ==
    /\ balance + amount <= MaxBalance
    /\ Solvable(amount)
    /\ balance' = balance + amount
    /\ UNCHANGED <<moved, goals, priority, asked, reply>>

SavingsNext ==
    \/ \E c \in Caller : \/ \E q \in MayAsk[c] : Look(c, q)
                         \/ Transfer(c) \/ ReverseTransfer(c)
                         \/ CreateGoal(c) \/ UpdateGoal(c) \/ FinishGoal(c) \/ ReorderGoals(c)
    \/ \E amount \in JournalAmount : PostOnMidas(amount)
SavingsSpec == SavingsInit /\ [][SavingsNext]_savingsVars

-----------------------------------------------------------------------------
(* Properties.                                                             *)

\* Whatever order transfers, reversals and withdrawals arrive in, no bucket is
\* overdrawn and the money that is earmarked is on the ledger account.
Solvent == Earmarked <= balance /\ \A b \in Bucket : BucketBalance(b) >= 0

\* A completed or cancelled goal holds no money, and an active one no more
\* than its maximum budget: the reversal of an old transfer or a lowered
\* budget does not get around either.
GoalsWithinPlan ==
    \A g \in Goal : /\ goals[g].status \in {"COMPLETED", "CANCELLED"} => BucketBalance(g) = 0
                    /\ goals[g].cap > 0 => BucketBalance(g) <= goals[g].cap

\* The priority order lists exactly the active goals, each once.
PriorityListsActive == ToSet(priority) = ActiveGoals /\ IsInjective(priority)

\* A transfer is undone at most once, and an undoing never.
UndoneAtMostOnce ==
    \A c \in Transferred : moved[c].reverses # NoReply =>
        /\ moved[moved[c].reverses].reverses = NoReply
        /\ \A d \in Transferred : moved[d].reverses = moved[c].reverses => d = c

\* A key stores one transfer, also when two requests looked it up before
\* either had stored it.
TransferredOncePerKey ==
    \A c, d \in Transferred : asked[c].key = asked[d].key => c = d

\* Goals, their buckets and their order stay in step, although goals end, are
\* funded and reordered by requests that were sent for an older set of them,
\* and money moves once and is moved back once, whatever is retried.
SavingsInStep ==
    Solvent /\ GoalsWithinPlan /\ PriorityListsActive /\ TransferredOncePerKey /\ UndoneAtMostOnce
=============================================================================
