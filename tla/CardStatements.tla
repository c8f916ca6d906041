--------------------------- MODULE CardStatements ----------------------------
(***************************************************************************)
(* A credit card of src/credit-cards: its purchases, which make up what is *)
(* owed on its liability account, its statements, each of which may hold   *)
(* its amount in a reserve bucket of the Midas account, and the payment    *)
(* and reopening of a statement.                                           *)
(*                                                                         *)
(* A mutation looks its idempotency key up, then locks.  Card mutations,   *)
(* purchases, new statements and reopenings hold the card's row; updates,  *)
(* voids and payments hold the statement's only.  A payment meets the      *)
(* purchases in the lock of the liability account and the archiving of the *)
(* card in the statement being OPEN, so that what follows the lookup is    *)
(* one step.  The deferred triggers of the schema, which check what        *)
(* ReserveHeld and PaidOnce state, are left out: the properties hold       *)
(* without them.                                                           *)
(***************************************************************************)
EXTENDS Integers, FiniteSets, Functions

CONSTANTS
    Client,        \* the requests the user's clients send
    Statement,     \* the statement periods of the card
    Purchase,      \* its purchases; the opening balance is one of them
    Orders,        \* what each request may ask for
    Unearmarked,   \* the money on the Midas account no bucket holds at first
    Silent         \* no answer yet

Placement == {"MIDAS_FUND", "OUTSIDE_MIDAS"}
OnStatements == {"create", "update", "void", "pay", "reopen"}
OnPurchases == {"purchase", "amend", "cancel"}
ASSUME CardAssumption ==
    /\ IsFiniteSet(Client) /\ IsFiniteSet(Purchase)
    /\ Unearmarked \in Nat /\ Silent \notin Statement
    /\ Silent \notin {"stored", "replayed", "conflict", "refused"}
    /\ \A c \in Client : \A q \in Orders[c] :
          /\ q.op \in OnStatements \cup OnPurchases \cup {"archive"}
          /\ q.op \in OnStatements => q.statement \in Statement
          /\ q.op \in OnPurchases => q.purchase \in Purchase /\ q.amount \in Nat
          /\ q.op \in {"create", "update"} => q.amount \in Nat /\ q.placement \in Placement

VARIABLES
    card,          \* the status of the card's latest revision
    statement,     \* the latest revision of each statement
    reserve,       \* the balance of its CREDIT_CARD_RESERVE bucket
    unallocated,   \* the money of the Midas account outside its buckets
    purchase,      \* the latest revision of each purchase
    payment,       \* the payment event a PAY request stored, while it counts
    order,         \* what each request asks for, once it looked its key up
    receipt        \* its answer

cardVars == <<card, statement, reserve, unallocated, purchase, payment, order, receipt>>

NoOrder == [op |-> "none"]
NotPaid == [statement |-> Silent, amount |-> 0]
CardTypeOK ==
    /\ card \in {"ACTIVE", "ARCHIVED"}
    /\ statement \in [Statement -> [status : {"none", "OPEN", "PAID", "VOID"}, no : Nat, amount : Nat,
                                    placement : Placement]]
    /\ reserve \in [Statement -> Nat] /\ unallocated \in Nat
    /\ purchase \in [Purchase -> [amount : Nat, no : Nat, void : BOOLEAN]]
    /\ payment \in [Client -> [statement : Statement \cup {Silent}, amount : Nat]]
    /\ DOMAIN order = Client /\ \A c \in Client : order[c] \in Orders[c] \cup {NoOrder}
    /\ receipt \in [Client -> {"stored", "replayed", "conflict", "refused", Silent}]

CardInit ==
    /\ card = "ACTIVE"
    /\ statement = [s \in Statement |-> [status |-> "none", no |-> 0, amount |-> 0,
                                         placement |-> "OUTSIDE_MIDAS"]]
    /\ reserve = [s \in Statement |-> 0] /\ unallocated = Unearmarked
    /\ purchase = [p \in Purchase |-> [amount |-> 0, no |-> 0, void |-> FALSE]]
    /\ payment = [c \in Client |-> NotPaid]
    /\ order = [c \in Client |-> NoOrder]
    /\ receipt = [c \in Client |-> Silent]

-----------------------------------------------------------------------------
\* The balance of the liability account.
Spent(on) == SumFunctionOnSet([p \in Purchase |-> IF on[p].void THEN 0 ELSE on[p].amount], Purchase)
Repaid(by) == SumFunctionOnSet([c \in Client |-> by[c].amount], Client)
Liability == Spent(purchase) - Repaid(payment)

RemainsUnpaid(change) == Spent(purchase) + change >= 0
Remains(change) == Liability + change >= 0
SquaredLiability == Liability = 0
Squared == Liability = 0 /\ \A s \in Statement : statement[s].status # "OPEN"

\* The revisions an idempotency key finds, per table.
Kind(q) == CASE q.op \in OnPurchases -> "liability events"
             [] q.op = "archive" -> "cards"
             [] OTHER -> "statements"
Filed(q) == {c \in Client : receipt[c] = "stored" /\ order[c].key = q.key /\ Kind(order[c]) = Kind(q)}
Repeat(q) == IF \E c \in Filed(q) : order[c] = q THEN "replayed" ELSE "conflict"

LookUpKey(c, q) ==
    /\ order[c] = NoOrder
    /\ order' = [order EXCEPT ![c] = q]
    /\ receipt' = [receipt EXCEPT ![c] = IF Filed(q) # {} THEN Repeat(q) ELSE Silent]
    /\ UNCHANGED <<card, statement, reserve, unallocated, purchase, payment>>

\* The second lookup under the lock, the checks, and the effect.
Carry(c, op, allowed, effect) ==
    /\ order[c].op = op /\ receipt[c] = Silent
    /\ LET answer == IF Filed(order[c]) # {} THEN Repeat(order[c])
                     ELSE IF allowed THEN "stored" ELSE "refused"
       IN  /\ receipt' = [receipt EXCEPT ![c] = answer]
           /\ IF answer = "stored" THEN effect
              ELSE UNCHANGED <<card, statement, reserve, unallocated, purchase, payment>>
    /\ UNCHANGED order

AtRevisionAlone(q, status) == statement[q.statement].no = q.expected
At(q, status) == statement[q.statement].status = status /\ statement[q.statement].no = q.expected
Restate(s, status, amount, placement) ==
    statement' = [statement EXCEPT ![s] = [status |-> status, no |-> @.no + 1, amount |-> amount,
                                           placement |-> placement]]
Keeping(s, status) == Restate(s, status, statement[s].amount, statement[s].placement)

\* The transfer between the bucket of s and the unallocated money that leaves
\* the bucket with the amount it should hold.
Due(placement, amount) == IF placement = "MIDAS_FUND" THEN amount ELSE 0
Reservable(s, target) == target - reserve[s] <= unallocated
ReallocateWhole(s, target) == reserve' = [reserve EXCEPT ![s] = @ + target] /\ unallocated' = unallocated - target
Reallocate(s, target) ==
    /\ reserve' = [reserve EXCEPT ![s] = target]
    /\ unallocated' = unallocated - (target - reserve[s])

-----------------------------------------------------------------------------
(* Statements: service.ts.                                                 *)

CreateStatement(c) ==
    LET q == order[c]
    IN  Carry(c, "create",
              /\ card = "ACTIVE" /\ statement[q.statement].status = "none"
              /\ Reservable(q.statement, Due(q.placement, q.amount)),
              /\ Restate(q.statement, "OPEN", q.amount, q.placement)
              /\ Reallocate(q.statement, Due(q.placement, q.amount))
              /\ UNCHANGED <<card, purchase, payment>>)

UpdateStatement(c) ==
    LET q == order[c]
    IN  Carry(c, "update",
              At(q, "OPEN") /\ Reservable(q.statement, Due(q.placement, q.amount)),
              /\ Restate(q.statement, "OPEN", q.amount, q.placement)
              /\ Reallocate(q.statement, Due(q.placement, q.amount))
              /\ UNCHANGED <<card, purchase, payment>>)

VoidStatement(c) ==
    LET q == order[c]
    IN  Carry(c, "void", At(q, "OPEN"),
              /\ Keeping(q.statement, "VOID")
              /\ Reallocate(q.statement, 0)
              /\ UNCHANGED <<card, purchase, payment>>)

\* payments.ts.  The reserve is released and leaves the Midas account at once.
PayStatement(c) ==
    LET q == order[c]
        s == q.statement
    IN  Carry(c, "pay",
              At(q, "OPEN") /\ Remains(-statement[s].amount),
              /\ Keeping(s, "PAID")
              /\ payment' = [payment EXCEPT ![c] = [statement |-> s, amount |-> statement[s].amount]]
              /\ reserve' = [reserve EXCEPT ![s] = @ - Due(statement[s].placement, statement[s].amount)]
              /\ UNCHANGED <<card, unallocated, purchase>>)

\* The latest payment event of the statement is voided; the money it took
\* from the Midas account returns and is reserved again.
PaymentOf(s) == {d \in Client : payment[d].statement = s}
ReopenStatement(c) ==
    LET q == order[c]
        s == q.statement
    IN  Carry(c, "reopen",
              card = "ACTIVE" /\ At(q, "PAID"),
              /\ Keeping(s, "OPEN")
              /\ payment' = [d \in Client |-> IF d \in PaymentOf(s) THEN NotPaid ELSE payment[d]]
              /\ reserve' = [reserve EXCEPT ![s] = @ + Due(statement[s].placement, statement[s].amount)]
              /\ UNCHANGED <<card, unallocated, purchase>>)

-----------------------------------------------------------------------------
(* Purchases, purchases.ts, and the card itself.                           *)

Live(q) == purchase[q.purchase].no = q.expected /\ ~purchase[q.purchase].void
Bill(p, amount, void) ==
    /\ purchase' = [purchase EXCEPT ![p] = [amount |-> amount, no |-> @.no + 1, void |-> void]]
    /\ UNCHANGED <<card, statement, reserve, unallocated, payment>>

RecordPurchase(c) ==
    Carry(c, "purchase", card = "ACTIVE" /\ purchase[order[c].purchase].no = 0,
          Bill(order[c].purchase, order[c].amount, FALSE))

UpdatePurchase(c) ==
    LET q == order[c]
    IN  Carry(c, "amend",
              /\ card = "ACTIVE" /\ purchase[q.purchase].no > 0 /\ Live(q)
              /\ Remains(q.amount - purchase[q.purchase].amount),
              Bill(q.purchase, q.amount, FALSE))

VoidPurchase(c) ==
    LET q == order[c]
    IN  Carry(c, "cancel",
              /\ card = "ACTIVE" /\ purchase[q.purchase].no > 0 /\ Live(q)
              /\ Remains(-purchase[q.purchase].amount),
              Bill(q.purchase, purchase[q.purchase].amount, TRUE))

ArchiveCard(c) ==
    Carry(c, "archive", card = "ACTIVE" /\ Squared,
          card' = "ARCHIVED" /\ UNCHANGED <<statement, reserve, unallocated, purchase, payment>>)

CardNext ==
    \E c \in Client :
        \/ \E q \in Orders[c] : LookUpKey(c, q)
        \/ CreateStatement(c) \/ UpdateStatement(c) \/ VoidStatement(c)
        \/ PayStatement(c) \/ ReopenStatement(c)
        \/ RecordPurchase(c) \/ UpdatePurchase(c) \/ VoidPurchase(c) \/ ArchiveCard(c)
CardSpec == CardInit /\ [][CardNext]_cardVars

-----------------------------------------------------------------------------
(* Properties.                                                             *)

\* An OPEN statement placed on the Midas account has exactly its amount in
\* reserve, and no other has anything, whatever was updated, paid, reopened
\* and retried before.
ReserveHeld ==
    \A s \in Statement :
        reserve[s] = IF statement[s].status = "OPEN" THEN Due(statement[s].placement, statement[s].amount)
                     ELSE 0

\* A PAID statement has one payment that counts, of its amount, and a
\* statement that is not PAID has none: a reopening undoes it fully.
PaidOnce ==
    \A s \in Statement :
        IF statement[s].status = "PAID" THEN /\ Cardinality(PaymentOf(s)) = 1
                                             /\ \A d \in PaymentOf(s) : payment[d].amount = statement[s].amount
        ELSE PaymentOf(s) = {}

\* The card never owes less than nothing: a purchase that was paid for cannot
\* be voided or lowered behind the payment, nor a statement paid that the
\* remaining purchases do not cover.
NeverOverpaid == Liability >= 0

\* An archived card stays settled: nothing is owed on it and no statement of
\* it is open, and no reopening or purchase gets in after the archiving.
ArchivedSettled ==
    card = "ARCHIVED" => Liability = 0 /\ \A s \in Statement : statement[s].status # "OPEN"

\* The status of a statement, its reserve and its payments stay in step, also
\* when the card is archived, and the card is not overpaid.
StatementsInStep == ReserveHeld /\ PaidOnce /\ NeverOverpaid /\ ArchivedSettled
=============================================================================
