---------------------------- MODULE LongTermTasks -----------------------------
(***************************************************************************)
(* The long-term investments of src/long-term.  A task earmarks money of   *)
(* the Midas account in the PENDING_LONG_TERM bucket, sends it off the     *)
(* account, takes a sending back, or gives the money up.                   *)
(*                                                                         *)
(* A mutation looks its idempotency key up, then locks the ledger          *)
(* accounts, the Midas account and the task, and looks the key up again;   *)
(* every change of the balance or of an earmark holds the Midas account,   *)
(* so that what follows the first lookup is one step.  The key of a task's *)
(* first revision and of the later ones are of one table.                  *)
(***************************************************************************)
EXTENDS Integers, FiniteSets, Functions

CONSTANTS
    Sender,        \* the requests the user's clients send
    Instructions,  \* what each may ask for
    Deposited,     \* the balance of the Midas account at first
    Movement,      \* what other journal entries move on it
    Awaited        \* no answer yet

\* Requests are finitely many, and name a task or an amount.
ASSUME LongTermAssumption ==
    /\ Deposited \in Nat /\ Movement \subseteq Int
    /\ IsFiniteSet(Sender) /\ Awaited \notin {"stored", "replayed", "conflict", "refused"}
    /\ \A c \in Sender : \A q \in Instructions[c] :
         /\ q.op \in {"allocate", "send", "reopen", "cancel"}
         /\ IF q.op = "allocate" THEN q.amount \in Nat ELSE q.task \in Sender

VARIABLES
    ledger,        \* the POSTED balance of the account
    elsewhere,     \* what other journal entries moved in all
    pending,       \* the balance of the PENDING_LONG_TERM bucket
    task,          \* the latest revision of the task each request created
    posted,        \* its sendings whose journal entry stands
    instruction,   \* what each request asks for, once it looked its key up
    ruling         \* its answer

longTermVars == <<ledger, elsewhere, pending, task, posted, instruction, ruling>>
moneyVars == <<ledger, elsewhere, pending, task, posted>>

NoInstruction == [op |-> "none"]
NoTask == [status |-> "none", no |-> 0, amount |-> 0]
LongTermTypeOK ==
    /\ ledger \in Nat /\ elsewhere \in Int /\ pending \in Nat
    /\ task \in [Sender -> [status : {"none", "PENDING", "SENT", "CANCELLED"}, no : Nat, amount : Nat]]
    /\ posted \in [Sender -> Nat]
    /\ DOMAIN instruction = Sender /\ \A c \in Sender : instruction[c] \in Instructions[c] \cup {NoInstruction}
    /\ ruling \in [Sender -> {"stored", "replayed", "conflict", "refused", Awaited}]

LongTermInit ==
    /\ ledger = Deposited /\ elsewhere = 0 /\ pending = 0
    /\ task = [c \in Sender |-> NoTask] /\ posted = [c \in Sender |-> 0]
    /\ instruction = [c \in Sender |-> NoInstruction]
    /\ ruling = [c \in Sender |-> Awaited]

-----------------------------------------------------------------------------
\* findExistingRevisionByIdempotencyKeyInTransaction, and what it answers.
EarlierRevision(q) == {c \in Sender : ruling[c] = "stored" /\ instruction[c].key = q.key}
ReplayOf(q) == IF \E c \in EarlierRevision(q) : instruction[c] = q THEN "replayed" ELSE "conflict"

FindRevision(c, q) ==
    /\ instruction[c] = NoInstruction
    /\ instruction' = [instruction EXCEPT ![c] = q]
    /\ ruling' = [ruling EXCEPT ![c] = IF EarlierRevision(q) # {} THEN ReplayOf(q) ELSE Awaited]
    /\ UNCHANGED moneyVars

Mutate(c, op, allowed, effect) ==
    /\ instruction[c].op = op /\ ruling[c] = Awaited
    /\ LET answer == IF EarlierRevision(instruction[c]) # {} THEN ReplayOf(instruction[c])
                     ELSE IF allowed THEN "stored" ELSE "refused"
       IN  /\ ruling' = [ruling EXCEPT ![c] = answer]
           /\ IF answer = "stored" THEN effect ELSE UNCHANGED moneyVars
    /\ UNCHANGED instruction

IsAt(q, status) == task[q.task].no = q.expected
Is(q, status) == task[q.task].status = status /\ task[q.task].no = q.expected
Becoming(t, status) == task' = [task EXCEPT ![t].status = status, ![t].no = @ + 1]
EarmarkableByBalance(amount) == amount <= ledger
\* The insert guard of a transfer out of the unallocated money.
Earmarkable(amount) == pending + amount <= ledger

AllocateLongTerm(c) ==
    LET q == instruction[c]
    IN  Mutate(c, "allocate", Earmarkable(q.amount),
               /\ task' = [task EXCEPT ![c] = [status |-> "PENDING", no |-> 1, amount |-> q.amount]]
               /\ pending' = pending + q.amount
               /\ UNCHANGED <<ledger, elsewhere, posted>>)

\* The transfer releases the money, and the journal entry takes it away.
MarkSent(c) ==
    LET q == instruction[c]
        amount == task[q.task].amount
    IN  Mutate(c, "send", Is(q, "PENDING"),
               /\ Becoming(q.task, "SENT")
               /\ pending' = pending - amount /\ ledger' = ledger - amount
               /\ posted' = [posted EXCEPT ![q.task] = @ + 1]
               /\ UNCHANGED elsewhere)

\* The journal entry is reversed, and the money it returns earmarked again.
ReopenTask(c) ==
    LET q == instruction[c]
        amount == task[q.task].amount
    IN  Mutate(c, "reopen", Is(q, "SENT"),
               /\ Becoming(q.task, "PENDING")
               /\ ledger' = ledger + amount /\ pending' = pending + amount
               /\ posted' = [posted EXCEPT ![q.task] = @ - 1]
               /\ UNCHANGED elsewhere)

CancelTask(c) ==
    LET q == instruction[c]
    IN  Mutate(c, "cancel", Is(q, "PENDING"),
               /\ Becoming(q.task, "CANCELLED")
               /\ pending' = pending - task[q.task].amount
               /\ UNCHANGED <<ledger, elsewhere, posted>>)

\* Any other journal entry on the ledger account, with the guard of its
\* transition to POSTED: what is earmarked stays.
Stays(amount) == ledger + amount >= pending
MoveElsewhere(amount) ==
    /\ Stays(amount) /\ elsewhere = 0
    /\ ledger' = ledger + amount /\ elsewhere' = elsewhere + amount
    /\ UNCHANGED <<pending, task, posted, instruction, ruling>>

LongTermNext ==
    \/ \E c \in Sender : \/ \E q \in Instructions[c] : FindRevision(c, q)
                         \/ AllocateLongTerm(c) \/ MarkSent(c) \/ ReopenTask(c) \/ CancelTask(c)
    \/ \E amount \in Movement : MoveElsewhere(amount)
LongTermSpec == LongTermInit /\ [][LongTermNext]_longTermVars

-----------------------------------------------------------------------------
(* Properties.                                                             *)

SumOfTasks(status) ==
    SumFunctionOnSet([c \in Sender |-> IF task[c].status = status THEN task[c].amount ELSE 0], Sender)

\* The bucket holds what the PENDING tasks say, and the account has it, after
\* any sequence of sendings, corrections, cancellations and retries.
PendingIsEarmarked == pending = SumOfTasks("PENDING") /\ pending <= ledger

\* The account lacks what the SENT tasks say and no more: a sending that is
\* retried, or reopened and repeated under another key, takes the money once.
SentOnce ==
    /\ ledger = Deposited + elsewhere - SumOfTasks("SENT")
    /\ \A t \in Sender : posted[t] = IF task[t].status = "SENT" THEN 1 ELSE 0

\* Bucket, ledger account and journal entries are what the tasks say.
TasksAccounted == PendingIsEarmarked /\ SentOnce
=============================================================================
