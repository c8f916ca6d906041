----------------------------- MODULE CardProofs -----------------------------
(***************************************************************************)
(* Proofs about credit cards: statements with their reserve and payments,  *)
(* the rewards earned with purchases, purchases shared with other people,  *)
(* and campaigns.                                                          *)
(***************************************************************************)
EXTENDS CardStatements, RewardPoints, SharedPurchases, CampaignRewards, Sums

-----------------------------------------------------------------------------
(***************************************************************************)
(* CardStatements, for any requests, statements, purchases and amounts.    *)
(* What a reserve bucket holds and which payment counts is a matter of     *)
(* the statement's status alone, and an archived card leaves no action     *)
(* anything to change. That a card is never overpaid is a fact about a     *)
(* sum over its purchases and payments: a step adds or changes one         *)
(* summand, and its guard keeps what is owed from going below zero. The    *)
(* guard reads the same rows under the card's lock, which is why no other  *)
(* request can have changed the sum in between.                            *)
(***************************************************************************)

-----------------------------------------------------------------------------
(* The invariant.                                                          *)

\* Only a request that was answered has a payment that counts.
PaidByAnswered ==
    \A c \in Client : /\ order[c] = NoOrder => receipt[c] = Silent
                      /\ receipt[c] = Silent => payment[c] = NotPaid

\* A purchase without a revision costs nothing.
BilledByRevision == \A p \in Purchase : purchase[p].no = 0 => purchase[p].amount = 0

CardInv ==
    /\ CardTypeOK
    /\ ReserveHeld
    /\ PaidOnce
    /\ ArchivedSettled
    /\ PaidByAnswered
    /\ BilledByRevision
    /\ NeverOverpaid

-----------------------------------------------------------------------------
LEMMA OwedUnmoved ==
    UNCHANGED <<purchase, payment>> => /\ Liability' = Liability
                                       /\ NeverOverpaid => NeverOverpaid'
                                       /\ BilledByRevision => BilledByRevision'
BY DEF Liability, NeverOverpaid, BilledByRevision

LEMMA OwedTyped ==
    ASSUME CardTypeOK
    PROVE  Spent(purchase) \in Int /\ Repaid(payment) \in Int /\ Liability \in Int
<1>1. Spent(purchase) \in Int
  <2> DEFINE worth == [p \in Purchase |-> IF purchase[p].void THEN 0 ELSE purchase[p].amount]
  <2>1. \A p \in Purchase : worth[p] \in Int
    BY DEF CardTypeOK
  <2> HIDE DEF worth
  <2>2. SumFunctionOnSet(worth, Purchase) \in Int
    BY <2>1, CardAssumption, SumTakes
  <2> QED
    BY <2>2 DEF Spent, worth
<1>2. Repaid(payment) \in Int
  <2> DEFINE paid == [c \in Client |-> payment[c].amount]
  <2>1. \A c \in Client : paid[c] \in Int
    BY DEF CardTypeOK
  <2> HIDE DEF paid
  <2>2. SumFunctionOnSet(paid, Client) \in Int
    BY <2>1, CardAssumption, SumTakes
  <2> QED
    BY <2>2 DEF Repaid, paid
<1> QED
  BY <1>1, <1>2 DEF Liability

\* What a new revision of a purchase adds to the debt.
Cost(amount, void) == IF void THEN 0 ELSE amount
LEMMA BillOwes ==
    ASSUME CardTypeOK, CardTypeOK', NEW p \in Purchase, NEW amount \in Nat, NEW void \in BOOLEAN,
           Bill(p, amount, void)
    PROVE  Liability' = Liability + (Cost(amount, void) - Cost(purchase[p].amount, purchase[p].void))
<1> DEFINE worth(on) == [x \in Purchase |-> IF on[x].void THEN 0 ELSE on[x].amount]
           before == worth(purchase)
           after  == worth(purchase')
<1>1. /\ \A x \in Purchase : before[x] \in Int /\ after[x] \in Int
      /\ before[p] = Cost(purchase[p].amount, purchase[p].void) /\ after[p] = Cost(amount, void)
      /\ \A x \in Purchase \ {p} : after[x] = before[x]
  BY DEF CardTypeOK, Bill, Cost
<1>2. Spent(purchase) = SumFunctionOnSet(before, Purchase) /\ Spent(purchase)' = SumFunctionOnSet(after, Purchase)
  BY DEF Spent
<1> HIDE DEF before, after
<1>3. SumFunctionOnSet(after, Purchase) = SumFunctionOnSet(before, Purchase) + (after[p] - before[p])
  BY <1>1, CardAssumption, SumChanges
<1>4. Repaid(payment)' = Repaid(payment)
  BY DEF Bill
<1>5. SumFunctionOnSet(before, Purchase) \in Int /\ Repaid(payment) \in Int
  BY <1>2, OwedTyped
<1> QED
  BY <1>1, <1>2, <1>3, <1>4, <1>5 DEF Liability

\* What a payment takes off it, and a reopening puts back.
LEMMA PaymentOwes ==
    ASSUME CardTypeOK, CardTypeOK', UNCHANGED purchase, NEW c \in Client, payment[c] = NotPaid,
           \A d \in Client \ {c} : payment'[d] = payment[d]
    PROVE  Liability' = Liability - payment'[c].amount
<1> DEFINE before == [d \in Client |-> payment[d].amount]
           after  == [d \in Client |-> payment'[d].amount]
<1>1. /\ \A d \in Client : before[d] \in Int /\ after[d] \in Int
      /\ before[c] = 0 /\ after[c] = payment'[c].amount
      /\ \A d \in Client \ {c} : after[d] = before[d]
  BY DEF CardTypeOK, NotPaid
<1>2. Repaid(payment) = SumFunctionOnSet(before, Client) /\ Repaid(payment)' = SumFunctionOnSet(after, Client)
  BY DEF Repaid
<1> HIDE DEF before, after
<1>3. SumFunctionOnSet(after, Client) = SumFunctionOnSet(before, Client) + (after[c] - before[c])
  BY <1>1, CardAssumption, SumChanges
<1>4. Spent(purchase)' = Spent(purchase)
  OBVIOUS
<1>5. SumFunctionOnSet(before, Client) \in Int /\ Spent(purchase) \in Int
  BY <1>2, OwedTyped
<1> QED
  BY <1>1, <1>2, <1>3, <1>4, <1>5 DEF Liability

LEMMA ReopeningOwes ==
    ASSUME CardTypeOK, CardTypeOK', UNCHANGED purchase,
           \A d \in Client : payment'[d].amount <= payment[d].amount
    PROVE  Liability' \in Int /\ Liability <= Liability'
<1> DEFINE before == [d \in Client |-> payment[d].amount]
           after  == [d \in Client |-> payment'[d].amount]
<1>1. \A d \in Client : after[d] \in Int /\ before[d] \in Int /\ after[d] <= before[d]
  BY DEF CardTypeOK
<1>2. Repaid(payment) = SumFunctionOnSet(before, Client) /\ Repaid(payment)' = SumFunctionOnSet(after, Client)
  BY DEF Repaid
<1> HIDE DEF before, after
<1>3. SumFunctionOnSet(after, Client) <= SumFunctionOnSet(before, Client)
  BY <1>1, CardAssumption, SumMonotone
<1>4. /\ Spent(purchase)' = Spent(purchase) /\ Spent(purchase) \in Int
      /\ SumFunctionOnSet(before, Client) \in Int /\ SumFunctionOnSet(after, Client) \in Int
  BY <1>1, <1>2, OwedTyped, CardAssumption, SumTakes
<1> QED
  BY <1>2, <1>3, <1>4 DEF Liability

LEMMA DueTyped ==
    ASSUME NEW placement \in Placement, NEW amount \in Nat
    PROVE  Due(placement, amount) \in Nat
BY DEF Due

LEMMA InitHolds == CardInit => CardInv
<1> SUFFICES ASSUME CardInit PROVE CardInv
  OBVIOUS
<1> USE CardAssumption
<1>1. CardTypeOK
  <2>1. /\ statement \in [Statement -> [status : {"none", "OPEN", "PAID", "VOID"}, no : Nat,
                                        amount : Nat, placement : Placement]]
        /\ purchase \in [Purchase -> [amount : Nat, no : Nat, void : BOOLEAN]]
    BY DEF CardInit, Placement
  <2> QED
    BY <2>1 DEF CardInit, CardTypeOK, NotPaid
<1>2. ReserveHeld
  BY DEF CardInit, ReserveHeld
<1>3. PaidOnce
  BY DEF CardInit, PaidOnce, PaymentOf, NotPaid
<1>4. ArchivedSettled /\ PaidByAnswered
  BY DEF CardInit, ArchivedSettled, PaidByAnswered
<1>5. BilledByRevision
  BY DEF CardInit, BilledByRevision
<1>6. NeverOverpaid
  <2> DEFINE worth == [p \in Purchase |-> IF purchase[p].void THEN 0 ELSE purchase[p].amount]
             paid  == [c \in Client |-> payment[c].amount]
  <2>1. (\A p \in Purchase : worth[p] = 0) /\ \A c \in Client : paid[c] = 0
    BY DEF CardInit, NotPaid
  <2>2. Spent(purchase) = SumFunctionOnSet(worth, Purchase) /\ Repaid(payment) = SumFunctionOnSet(paid, Client)
    BY DEF Spent, Repaid
  <2> HIDE DEF worth, paid
  <2>3. Spent(purchase) = 0 /\ Repaid(payment) = 0
    BY <2>1, <2>2, SumZero
  <2> QED
    BY <2>3 DEF NeverOverpaid, Liability
<1> QED
  BY <1>1, <1>2, <1>3, <1>4, <1>5, <1>6 DEF CardInv

-----------------------------------------------------------------------------
(* The answer.                                                             *)

Answers == {"stored", "replayed", "conflict", "refused"}
Answered(c) == /\ receipt[c] = Silent /\ order[c] # NoOrder
               /\ \E answer \in Answers : receipt' = [receipt EXCEPT ![c] = answer]
               /\ UNCHANGED order

\* What an answer does to the books of the requests, whatever else it stores.
LEMMA AnsweredTyped ==
    ASSUME CardInv, NEW c \in Client, Answered(c)
    PROVE  /\ receipt' \in [Client -> Answers \cup {Silent}]
           /\ receipt'[c] # Silent
           /\ \A d \in Client \ {c} : receipt'[d] = receipt[d]
           /\ DOMAIN order' = Client /\ \A d \in Client : order'[d] \in Orders[d] \cup {NoOrder}
BY CardAssumption DEF Answered, Answers, CardInv, CardTypeOK

LEMMA RefusalKeeps ==
    ASSUME CardInv, NEW c \in Client, Answered(c),
           UNCHANGED <<card, statement, reserve, unallocated, purchase, payment>>
    PROVE  CardInv'
<1> USE DEF CardInv
<1>1. CardTypeOK'
  BY AnsweredTyped DEF CardTypeOK, Answers
<1>2. PaidByAnswered'
  BY AnsweredTyped DEF PaidByAnswered, Answered
<1>3. ReserveHeld' /\ PaidOnce'
  BY DEF ReserveHeld, PaidOnce, PaymentOf
<1>4. ArchivedSettled' /\ NeverOverpaid' /\ BilledByRevision'
  BY OwedUnmoved DEF ArchivedSettled
<1> QED
  BY <1>1, <1>2, <1>3, <1>4

LEMMA LookUpKeeps ==
    ASSUME CardInv, NEW c \in Client, NEW q \in Orders[c], LookUpKey(c, q)
    PROVE  CardInv'
<1> USE DEF CardInv
<1>0. \A d \in Client : \A o \in Orders[d] : o # NoOrder
  BY CardAssumption DEF NoOrder, OnStatements, OnPurchases
<1>1. /\ order[c] = NoOrder /\ receipt[c] = Silent
      /\ UNCHANGED <<card, statement, reserve, unallocated, purchase, payment>>
  BY DEF LookUpKey, PaidByAnswered
<1>2. /\ DOMAIN order' = Client /\ \A d \in Client : order'[d] \in Orders[d] \cup {NoOrder}
      /\ order'[c] = q /\ \A d \in Client \ {c} : order'[d] = order[d]
  BY DEF LookUpKey, CardTypeOK
<1>3. /\ receipt' \in [Client -> Answers \cup {Silent}]
      /\ \A d \in Client \ {c} : receipt'[d] = receipt[d]
  BY DEF LookUpKey, CardTypeOK, Repeat, Answers
<1>6. CardTypeOK'
  BY <1>1, <1>2, <1>3 DEF CardTypeOK, Answers
<1>7. PaidByAnswered'
  BY <1>0, <1>1, <1>2, <1>3 DEF PaidByAnswered
<1>4. ReserveHeld' /\ PaidOnce'
  BY <1>1 DEF ReserveHeld, PaidOnce, PaymentOf
<1>5. ArchivedSettled' /\ NeverOverpaid' /\ BilledByRevision'
  BY <1>1, OwedUnmoved DEF ArchivedSettled
<1> QED
  BY <1>4, <1>5, <1>6, <1>7
-----------------------------------------------------------------------------
(* Statements.                                                             *)

\* Whatever a statement becomes short of PAID, moving its reserve along keeps
\* the invariant: creation, update and void.
LEMMA RestatementKeeps ==
    ASSUME CardInv, NEW c \in Client, Answered(c), NEW s \in Statement,
           NEW status \in {"OPEN", "VOID"}, NEW amount \in Nat, NEW placement \in Placement, NEW target \in Nat,
           target = IF status = "OPEN" THEN Due(placement, amount) ELSE 0,
           target - reserve[s] <= unallocated,
           statement[s].status \in {"none", "OPEN"},
           card = "ACTIVE" \/ statement[s].status = "OPEN",
           Restate(s, status, amount, placement), Reallocate(s, target),
           UNCHANGED <<card, purchase, payment>>
    PROVE  CardInv'
<1> USE DEF CardInv
<1>1. /\ statement' \in [Statement -> [status : {"none", "OPEN", "PAID", "VOID"}, no : Nat, amount : Nat,
                                       placement : Placement]]
      /\ statement'[s].status = status /\ statement'[s].amount = amount
      /\ statement'[s].placement = placement
      /\ \A t \in Statement \ {s} : statement'[t] = statement[t]
  BY DEF Restate, CardTypeOK
<1>2. /\ reserve' \in [Statement -> Nat] /\ unallocated' \in Nat
      /\ reserve'[s] = target /\ \A t \in Statement \ {s} : reserve'[t] = reserve[t]
  BY DEF Reallocate, CardTypeOK
<1>3. CardTypeOK'
  BY <1>1, <1>2, AnsweredTyped DEF CardTypeOK, Answers, Answered
<1>4. PaidByAnswered'
  BY AnsweredTyped DEF PaidByAnswered, Answered
<1>5. ReserveHeld'
  BY <1>1, <1>2 DEF ReserveHeld
<1>6. PaidOnce'
  <2>1. \A t \in Statement : PaymentOf(t)' = PaymentOf(t)
    BY DEF PaymentOf
  <2> QED
    BY <1>1, <2>1 DEF PaidOnce
<1>7. ArchivedSettled'
  BY <1>1 DEF ArchivedSettled, CardTypeOK
<1>8. NeverOverpaid' /\ BilledByRevision'
  BY OwedUnmoved
<1> QED
  BY <1>3, <1>4, <1>5, <1>6, <1>7, <1>8

\* The payment takes the reserve with it, and is the only one that counts.
LEMMA PaymentKeeps ==
    ASSUME CardInv, NEW c \in Client, Answered(c), NEW s \in Statement,
           statement[s].status = "OPEN", Remains(-statement[s].amount),
           Keeping(s, "PAID"),
           payment' = [payment EXCEPT ![c] = [statement |-> s, amount |-> statement[s].amount]],
           reserve' = [reserve EXCEPT ![s] = @ - Due(statement[s].placement, statement[s].amount)],
           UNCHANGED <<card, unallocated, purchase>>
    PROVE  CardInv'
<1> USE DEF CardInv
<1>1. /\ statement' \in [Statement -> [status : {"none", "OPEN", "PAID", "VOID"}, no : Nat, amount : Nat,
                                       placement : Placement]]
      /\ statement'[s].status = "PAID" /\ statement'[s].amount = statement[s].amount
      /\ \A t \in Statement \ {s} : statement'[t] = statement[t]
  BY DEF Keeping, Restate, CardTypeOK
<1>2. /\ reserve' \in [Statement -> Nat] /\ reserve'[s] = 0
      /\ \A t \in Statement \ {s} : reserve'[t] = reserve[t]
  BY DEF ReserveHeld, CardTypeOK
<1>3. /\ payment' \in [Client -> [statement : Statement \cup {Silent}, amount : Nat]]
      /\ payment'[c].statement = s /\ payment'[c].amount = statement[s].amount
      /\ \A d \in Client \ {c} : payment'[d] = payment[d]
  BY DEF CardTypeOK
<1>4. CardTypeOK'
  <2>1. /\ card' \in {"ACTIVE", "ARCHIVED"} /\ unallocated' \in Nat
        /\ purchase' \in [Purchase -> [amount : Nat, no : Nat, void : BOOLEAN]]
    BY DEF CardTypeOK
  <2> QED
    BY <1>1, <1>2, <1>3, <2>1, AnsweredTyped DEF CardTypeOK, Answers
<1>5. PaidByAnswered'
  <2>1. order' = order /\ order[c] # NoOrder /\ receipt'[c] # Silent
    BY AnsweredTyped DEF Answered
  <2>2. \A d \in Client \ {c} : receipt'[d] = receipt[d] /\ payment'[d] = payment[d]
    BY <1>3, AnsweredTyped
  <2> QED
    BY <2>1, <2>2 DEF PaidByAnswered
<1>6. ReserveHeld'
  BY <1>1, <1>2 DEF ReserveHeld
<1>7. PaidOnce'
  <2>1. payment[c].statement = Silent /\ Silent \notin Statement
    BY CardAssumption DEF PaidByAnswered, Answered, NotPaid
  <2>2. PaymentOf(s) = {} /\ PaymentOf(s)' = {c}
    BY <1>3 DEF PaidOnce, PaymentOf
  <2>3. Cardinality({c}) = 1
    BY FS_Singleton
  <2>4. \A t \in Statement \ {s} : PaymentOf(t)' = PaymentOf(t) /\ c \notin PaymentOf(t)
    BY <1>3, <2>1 DEF PaymentOf
  <2>5. \A t \in Statement \ {s} : \A d \in PaymentOf(t) : payment'[d] = payment[d]
    BY <1>3, <2>4 DEF PaymentOf
  <2> SUFFICES ASSUME NEW t \in Statement
               PROVE  IF statement'[t].status = "PAID"
                      THEN /\ Cardinality(PaymentOf(t)') = 1
                           /\ \A d \in PaymentOf(t)' : payment'[d].amount = statement'[t].amount
                      ELSE PaymentOf(t)' = {}
    BY DEF PaidOnce
  <2>6. CASE t = s
    BY <1>1, <1>3, <2>2, <2>3, <2>6
  <2>7. CASE t # s
    BY <1>1, <2>4, <2>5, <2>7 DEF PaidOnce
  <2> QED
    BY <2>6, <2>7
<1>8. ArchivedSettled'
  BY DEF ArchivedSettled, CardTypeOK
<1>9. NeverOverpaid'
  <2>1. payment[c] = NotPaid
    BY DEF PaidByAnswered, Answered
  <2>2. Liability' = Liability - statement[s].amount
    BY <1>3, <1>4, <2>1, PaymentOwes
  <2>3. Liability + -statement[s].amount >= 0 /\ Liability \in Int /\ statement[s].amount \in Nat
    BY OwedTyped DEF Remains, CardTypeOK
  <2> QED
    BY <2>2, <2>3 DEF NeverOverpaid
<1>10. BilledByRevision'
  BY DEF BilledByRevision
<1> QED
  BY <1>4, <1>5, <1>6, <1>7, <1>8, <1>9, <1>10

LEMMA ReopeningKeeps ==
    ASSUME CardInv, NEW c \in Client, Answered(c), NEW s \in Statement,
           card = "ACTIVE", statement[s].status = "PAID",
           Keeping(s, "OPEN"),
           payment' = [d \in Client |-> IF d \in PaymentOf(s) THEN NotPaid ELSE payment[d]],
           reserve' = [reserve EXCEPT ![s] = @ + Due(statement[s].placement, statement[s].amount)],
           UNCHANGED <<card, unallocated, purchase>>
    PROVE  CardInv'
<1> USE DEF CardInv
<1>1. /\ statement' \in [Statement -> [status : {"none", "OPEN", "PAID", "VOID"}, no : Nat, amount : Nat,
                                       placement : Placement]]
      /\ statement'[s].status = "OPEN" /\ statement'[s].amount = statement[s].amount
      /\ statement'[s].placement = statement[s].placement
      /\ \A t \in Statement \ {s} : statement'[t] = statement[t]
  BY DEF Keeping, Restate, CardTypeOK
<1>2. /\ reserve' \in [Statement -> Nat]
      /\ reserve'[s] = Due(statement[s].placement, statement[s].amount)
      /\ \A t \in Statement \ {s} : reserve'[t] = reserve[t]
  <2>1. statement[s].placement \in Placement /\ statement[s].amount \in Nat /\ reserve[s] = 0
    BY DEF CardTypeOK, ReserveHeld
  <2> QED
    BY <2>1, DueTyped DEF CardTypeOK
<1>3. /\ payment' \in [Client -> [statement : Statement \cup {Silent}, amount : Nat]]
      /\ \A d \in Client : /\ payment'[d].statement # s
                           /\ payment[d].statement # s => payment'[d] = payment[d]
                           /\ payment[d].statement = s => payment'[d].statement = Silent
                           /\ payment'[d] = NotPaid \/ payment'[d] = payment[d]
  <2>1. NotPaid \in [statement : Statement \cup {Silent}, amount : Nat] /\ NotPaid.statement = Silent
    BY DEF NotPaid
  <2> QED
    BY <2>1, CardAssumption DEF CardTypeOK, PaymentOf
<1>4. CardTypeOK'
  BY <1>1, <1>2, <1>3, AnsweredTyped DEF CardTypeOK, Answers, Answered
<1>5. PaidByAnswered'
  BY <1>3, AnsweredTyped DEF PaidByAnswered, Answered
<1>6. ReserveHeld'
  BY <1>1, <1>2 DEF ReserveHeld
<1>7. PaidOnce'
  <2>1. PaymentOf(s)' = {}
    BY <1>3 DEF PaymentOf
  <2>2. \A t \in Statement \ {s} : PaymentOf(t)' = PaymentOf(t)
    BY <1>3, CardAssumption DEF PaymentOf
  <2>3. \A t \in Statement \ {s} : \A d \in PaymentOf(t) : payment'[d] = payment[d]
    BY <1>3 DEF PaymentOf
  <2> SUFFICES ASSUME NEW t \in Statement
               PROVE  IF statement'[t].status = "PAID"
                      THEN /\ Cardinality(PaymentOf(t)') = 1
                           /\ \A d \in PaymentOf(t)' : payment'[d].amount = statement'[t].amount
                      ELSE PaymentOf(t)' = {}
    BY DEF PaidOnce
  <2>4. CASE t = s
    BY <1>1, <2>1, <2>4
  <2>5. CASE t # s
    <3>1. PaymentOf(t)' = PaymentOf(t) /\ statement'[t] = statement[t]
      BY <1>1, <2>2, <2>5
    <3>2. \A d \in PaymentOf(t) : payment'[d] = payment[d]
      BY <2>3, <2>5
    <3> QED
      BY <3>1, <3>2 DEF PaidOnce
  <2> QED
    BY <2>4, <2>5
<1>8. ArchivedSettled'
  BY DEF ArchivedSettled
<1>9. NeverOverpaid'
  <2>1. \A d \in Client : payment'[d].amount <= payment[d].amount
    BY <1>3 DEF CardTypeOK, NotPaid
  <2> QED
    BY <1>4, <2>1, ReopeningOwes, OwedTyped DEF NeverOverpaid
<1>10. BilledByRevision'
  BY DEF BilledByRevision
<1> QED
  BY <1>4, <1>5, <1>6, <1>7, <1>8, <1>9, <1>10

-----------------------------------------------------------------------------
(* Purchases and the card.                                                 *)

LEMMA BillKeeps ==
    ASSUME CardInv, NEW c \in Client, Answered(c), card = "ACTIVE",
           NEW p \in Purchase, NEW amount \in Nat, NEW void \in BOOLEAN, Bill(p, amount, void),
           Remains(Cost(amount, void) - Cost(purchase[p].amount, purchase[p].void))
    PROVE  CardInv'
<1> USE DEF CardInv
<1>1. purchase' \in [Purchase -> [amount : Nat, no : Nat, void : BOOLEAN]]
  <2>1. purchase[p].no + 1 \in Nat
    BY DEF CardTypeOK
  <2>2. [amount |-> amount, no |-> purchase[p].no + 1, void |-> void] \in [amount : Nat, no : Nat, void : BOOLEAN]
    BY <2>1
  <2> QED
    BY <2>2 DEF Bill, CardTypeOK
<1>2. UNCHANGED <<card, statement, reserve, unallocated, payment>>
  BY DEF Bill
<1>3. CardTypeOK'
  BY <1>1, <1>2, AnsweredTyped DEF CardTypeOK, Answers, Answered
<1>4. PaidByAnswered'
  BY <1>2, AnsweredTyped DEF PaidByAnswered, Answered
<1>5. ReserveHeld' /\ PaidOnce'
  BY <1>2 DEF ReserveHeld, PaidOnce, PaymentOf
<1>6. ArchivedSettled'
  BY <1>2 DEF ArchivedSettled
<1>7. NeverOverpaid'
  BY <1>3, BillOwes DEF NeverOverpaid, Remains
<1>8. BilledByRevision'
  BY DEF BilledByRevision, Bill, CardTypeOK
<1> QED
  BY <1>3, <1>4, <1>5, <1>6, <1>7, <1>8

LEMMA ArchivingKeeps ==
    ASSUME CardInv, NEW c \in Client, Answered(c), Squared, card' = "ARCHIVED",
           UNCHANGED <<statement, reserve, unallocated, purchase, payment>>
    PROVE  CardInv'
<1> USE DEF CardInv
<1>1. CardTypeOK'
  BY AnsweredTyped DEF CardTypeOK, Answers, Answered
<1>2. PaidByAnswered'
  BY AnsweredTyped DEF PaidByAnswered, Answered
<1>3. ReserveHeld' /\ PaidOnce'
  BY DEF ReserveHeld, PaidOnce, PaymentOf
<1>4. ArchivedSettled' /\ NeverOverpaid' /\ BilledByRevision'
  BY OwedUnmoved DEF ArchivedSettled, Squared
<1> QED
  BY <1>1, <1>2, <1>3, <1>4

-----------------------------------------------------------------------------
(* The actions.                                                            *)

\* What a request may be asked for is typed.
LEMMA OrderTyped ==
    ASSUME CardInv, NEW c \in Client
    PROVE  /\ order[c].op \in OnStatements => order[c].statement \in Statement
           /\ order[c].op \in OnPurchases => order[c].purchase \in Purchase /\ order[c].amount \in Nat
           /\ order[c].op \in {"create", "update"} => /\ order[c].amount \in Nat
                                                     /\ order[c].placement \in Placement
           /\ order[c].op # "none" => order[c] # NoOrder
<1>1. order[c] \in Orders[c] \cup {NoOrder}
  BY DEF CardInv, CardTypeOK
<1>2. CASE order[c] = NoOrder
  BY <1>2 DEF NoOrder, OnStatements, OnPurchases
<1>3. CASE order[c] # NoOrder
  BY <1>1, <1>3, CardAssumption
<1> QED
  BY <1>2, <1>3

LEMMA CreateKeeps == ASSUME CardInv, NEW c \in Client, CreateStatement(c) PROVE CardInv'
<1> DEFINE q == order[c]
           target == Due(q.placement, q.amount)
<1>1. /\ q.statement \in Statement /\ q.amount \in Nat /\ q.placement \in Placement /\ Answered(c)
      /\ target \in Nat
  BY OrderTyped, DueTyped DEF CreateStatement, Carry, OnStatements, Answered, Answers, Repeat
<1>2. \/ UNCHANGED <<card, statement, reserve, unallocated, purchase, payment>>
      \/ /\ card = "ACTIVE" /\ statement[q.statement].status = "none"
         /\ target - reserve[q.statement] <= unallocated
         /\ Restate(q.statement, "OPEN", q.amount, q.placement) /\ Reallocate(q.statement, target)
         /\ UNCHANGED <<card, purchase, payment>>
  BY DEF CreateStatement, Carry, Reservable, Repeat
<1> HIDE DEF q, target
<1>3. target = Due(q.placement, q.amount)
  BY DEF target
<1> QED
  BY <1>1, <1>2, <1>3, RefusalKeeps, RestatementKeeps

LEMMA UpdateKeeps == ASSUME CardInv, NEW c \in Client, UpdateStatement(c) PROVE CardInv'
<1> DEFINE q == order[c]
           target == Due(q.placement, q.amount)
<1>1. /\ q.statement \in Statement /\ q.amount \in Nat /\ q.placement \in Placement /\ Answered(c)
      /\ target \in Nat
  BY OrderTyped, DueTyped DEF UpdateStatement, Carry, OnStatements, Answered, Answers, Repeat
<1>2. \/ UNCHANGED <<card, statement, reserve, unallocated, purchase, payment>>
      \/ /\ statement[q.statement].status = "OPEN"
         /\ target - reserve[q.statement] <= unallocated
         /\ Restate(q.statement, "OPEN", q.amount, q.placement) /\ Reallocate(q.statement, target)
         /\ UNCHANGED <<card, purchase, payment>>
  BY DEF UpdateStatement, Carry, Reservable, Repeat, At
<1> HIDE DEF q, target
<1>3. target = Due(q.placement, q.amount)
  BY DEF target
<1> QED
  BY <1>1, <1>2, <1>3, RefusalKeeps, RestatementKeeps

LEMMA VoidKeeps == ASSUME CardInv, NEW c \in Client, VoidStatement(c) PROVE CardInv'
<1> DEFINE s == order[c].statement
<1>1. s \in Statement /\ Answered(c)
  BY OrderTyped DEF VoidStatement, Carry, OnStatements, Answered, Answers, Repeat
<1>2. \/ UNCHANGED <<card, statement, reserve, unallocated, purchase, payment>>
      \/ /\ statement[s].status = "OPEN"
         /\ Restate(s, "VOID", statement[s].amount, statement[s].placement) /\ Reallocate(s, 0)
         /\ UNCHANGED <<card, purchase, payment>>
  BY DEF VoidStatement, Carry, Keeping, Repeat, At
<1> HIDE DEF s
<1>3. /\ statement[s].amount \in Nat /\ statement[s].placement \in Placement
      /\ 0 - reserve[s] <= unallocated
  BY <1>1 DEF CardInv, CardTypeOK
<1> QED
  BY <1>1, <1>2, <1>3, RefusalKeeps, RestatementKeeps

LEMMA PayKeeps == ASSUME CardInv, NEW c \in Client, PayStatement(c) PROVE CardInv'
<1> DEFINE s == order[c].statement
<1>1. s \in Statement /\ Answered(c)
  BY OrderTyped DEF PayStatement, Carry, OnStatements, Answered, Answers, Repeat
<1>2. \/ UNCHANGED <<card, statement, reserve, unallocated, purchase, payment>>
      \/ /\ statement[s].status = "OPEN" /\ Remains(-statement[s].amount) /\ Keeping(s, "PAID")
         /\ payment' = [payment EXCEPT ![c] = [statement |-> s, amount |-> statement[s].amount]]
         /\ reserve' = [reserve EXCEPT ![s] = @ - Due(statement[s].placement, statement[s].amount)]
         /\ UNCHANGED <<card, unallocated, purchase>>
  BY DEF PayStatement, Carry, Repeat, At
<1> HIDE DEF s
<1> QED
  BY <1>1, <1>2, RefusalKeeps, PaymentKeeps

LEMMA ReopenKeeps == ASSUME CardInv, NEW c \in Client, ReopenStatement(c) PROVE CardInv'
<1> DEFINE s == order[c].statement
<1>1. s \in Statement /\ Answered(c)
  BY OrderTyped DEF ReopenStatement, Carry, OnStatements, Answered, Answers, Repeat
<1>2. \/ UNCHANGED <<card, statement, reserve, unallocated, purchase, payment>>
      \/ /\ card = "ACTIVE" /\ statement[s].status = "PAID" /\ Keeping(s, "OPEN")
         /\ payment' = [d \in Client |-> IF d \in PaymentOf(s) THEN NotPaid ELSE payment[d]]
         /\ reserve' = [reserve EXCEPT ![s] = @ + Due(statement[s].placement, statement[s].amount)]
         /\ UNCHANGED <<card, unallocated, purchase>>
  BY DEF ReopenStatement, Carry, Repeat, At
<1> HIDE DEF s
<1> QED
  BY <1>1, <1>2, RefusalKeeps, ReopeningKeeps

LEMMA PurchasesKeep ==
    ASSUME CardInv, NEW c \in Client, RecordPurchase(c) \/ UpdatePurchase(c) \/ VoidPurchase(c)
    PROVE  CardInv'
<1> DEFINE q == order[c]
<1>1. q.purchase \in Purchase /\ q.amount \in Nat /\ Answered(c)
  BY OrderTyped DEF RecordPurchase, UpdatePurchase, VoidPurchase, Carry, OnPurchases, Answered, Answers, Repeat
<1> DEFINE p == q.purchase
           extra(amount, void) == Cost(amount, void) - Cost(purchase[p].amount, purchase[p].void)
<1>2. purchase[p].amount \in Nat /\ Liability \in Int /\ Liability >= 0
  BY <1>1, OwedTyped DEF CardInv, CardTypeOK, NeverOverpaid
<1>3. \/ UNCHANGED <<card, statement, reserve, unallocated, purchase, payment>>
      \/ card = "ACTIVE" /\ Bill(p, q.amount, FALSE) /\ Remains(extra(q.amount, FALSE))
      \/ card = "ACTIVE" /\ Bill(p, purchase[p].amount, TRUE) /\ Remains(extra(purchase[p].amount, TRUE))
  <2>1. CASE RecordPurchase(c)
    <3>1. \/ UNCHANGED <<card, statement, reserve, unallocated, purchase, payment>>
          \/ card = "ACTIVE" /\ purchase[p].no = 0 /\ Bill(p, q.amount, FALSE)
      BY <2>1 DEF RecordPurchase, Carry, Repeat
    <3>2. purchase[p].no = 0 => Cost(purchase[p].amount, purchase[p].void) = 0
      BY <1>1 DEF CardInv, BilledByRevision, Cost
    <3>3. purchase[p].no = 0 => Remains(extra(q.amount, FALSE))
      BY <1>1, <1>2, <3>2 DEF Remains, Cost
    <3> QED
      BY <3>1, <3>3
  <2>2. CASE UpdatePurchase(c)
    <3>1. \/ UNCHANGED <<card, statement, reserve, unallocated, purchase, payment>>
          \/ /\ card = "ACTIVE" /\ ~purchase[p].void /\ Bill(p, q.amount, FALSE)
             /\ Remains(q.amount - purchase[p].amount)
      BY <2>2 DEF UpdatePurchase, Carry, Repeat, Live
    <3> QED
      BY <3>1 DEF Cost
  <2>3. CASE VoidPurchase(c)
    <3>1. \/ UNCHANGED <<card, statement, reserve, unallocated, purchase, payment>>
          \/ /\ card = "ACTIVE" /\ ~purchase[p].void /\ Bill(p, purchase[p].amount, TRUE)
             /\ Remains(-purchase[p].amount)
      BY <2>3 DEF VoidPurchase, Carry, Repeat, Live
    <3>2. 0 - purchase[p].amount = -purchase[p].amount
      BY <1>2
    <3> QED
      BY <3>1, <3>2 DEF Cost
  <2> QED
    BY <2>1, <2>2, <2>3
<1> HIDE DEF p, q
<1>4. p \in Purchase /\ q.amount \in Nat
  BY <1>1 DEF p
<1>5. CASE UNCHANGED <<card, statement, reserve, unallocated, purchase, payment>>
  BY <1>1, <1>5, RefusalKeeps
<1>6. CASE card = "ACTIVE" /\ Bill(p, q.amount, FALSE) /\ Remains(extra(q.amount, FALSE))
  BY <1>1, <1>4, <1>6, BillKeeps, FALSE \in BOOLEAN
<1>7. CASE card = "ACTIVE" /\ Bill(p, purchase[p].amount, TRUE) /\ Remains(extra(purchase[p].amount, TRUE))
  BY <1>1, <1>2, <1>4, <1>7, BillKeeps, TRUE \in BOOLEAN
<1> QED
  BY <1>3, <1>5, <1>6, <1>7

LEMMA ArchiveKeeps == ASSUME CardInv, NEW c \in Client, ArchiveCard(c) PROVE CardInv'
<1>1. Answered(c)
  BY OrderTyped DEF ArchiveCard, Carry, Answered, Answers, Repeat
<1>2. \/ UNCHANGED <<card, statement, reserve, unallocated, purchase, payment>>
      \/ /\ Squared /\ card' = "ARCHIVED"
         /\ UNCHANGED <<statement, reserve, unallocated, purchase, payment>>
  BY DEF ArchiveCard, Carry, Repeat
<1> QED
  BY <1>1, <1>2, RefusalKeeps, ArchivingKeeps

LEMMA NextKeeps == CardInv /\ [CardNext]_cardVars => CardInv'
<1> SUFFICES ASSUME CardInv, [CardNext]_cardVars PROVE CardInv'
  OBVIOUS
<1>1. CASE UNCHANGED cardVars
  <2>1. Liability' = Liability /\ NeverOverpaid' /\ BilledByRevision'
    BY <1>1, OwedUnmoved DEF cardVars, CardInv
  <2>2. CardTypeOK' /\ ReserveHeld' /\ PaidByAnswered'
    BY <1>1 DEF cardVars, CardInv, CardTypeOK, ReserveHeld, PaidByAnswered
  <2>3. PaidOnce'
    BY <1>1 DEF cardVars, CardInv, PaidOnce, PaymentOf
  <2>4. ArchivedSettled'
    BY <1>1, <2>1 DEF cardVars, CardInv, ArchivedSettled
  <2> QED
    BY <2>1, <2>2, <2>3, <2>4 DEF CardInv
<1> QED
  BY <1>1, LookUpKeeps, CreateKeeps, UpdateKeeps, VoidKeeps, PayKeeps, ReopenKeeps, PurchasesKeep,
     ArchiveKeeps DEF CardNext

LEMMA InvHolds == CardSpec => []CardInv
BY InitHolds, NextKeeps, PTL DEF CardSpec

-----------------------------------------------------------------------------
(* The theorems.                                                           *)

\* No amount, reserve or unallocated balance goes negative, whatever requests
\* interleave: each is stored as the schema allows it.
THEOREM CardTypeCorrect == CardSpec => []CardTypeOK
BY InvHolds, PTL DEF CardInv

\* The reserve bucket of a statement holds its amount while it is OPEN on the
\* Midas account, and nothing otherwise.
THEOREM ReserveCorrect == CardSpec => []ReserveHeld
BY InvHolds, PTL DEF CardInv

\* One payment of its amount counts for a PAID statement, none for any other.
THEOREM OnePayment == CardSpec => []PaidOnce
BY InvHolds, PTL DEF CardInv

\* No card is ever paid more than its purchases come to, whatever is paid,
\* lowered, voided and reopened in between.
THEOREM NoneOverpaid == CardSpec => []NeverOverpaid
BY InvHolds, PTL DEF CardInv

\* Nothing gets an archived card into debt or opens a statement of it again.
THEOREM ArchivedForGood == CardSpec => []ArchivedSettled
BY InvHolds, PTL DEF CardInv

\* Status, reserve and payments of every statement stay in step, the card is
\* never overpaid, and an archived card stays settled.
THEOREM StatementsCorrect == CardSpec => []StatementsInStep
BY ReserveCorrect, OnePayment, NoneOverpaid, ArchivedForGood, PTL DEF StatementsInStep

-----------------------------------------------------------------------------
(***************************************************************************)
(* RewardPoints, for any requests. The points of an account are the sum    *)
(* over its events that stand, one per stored request; an event that is    *)
(* added or voided adds or takes away one element of the set that the sum  *)
(* ranges over (SumAdds), for its account and for the benefits, and no     *)
(* other. The invariant adds that only stored requests have events, and    *)
(* that what they asked for does not change any more.                      *)
(***************************************************************************)

\* Only answered requests have an event that stands, and what they ask for
\* does not change any more.
EventsStored ==
    /\ \A c \in unvoided : reaction[c] = "stored" /\ wish[c].op \in Creations
    /\ \A c \in Shopper : wish[c] = NoWish => reaction[c] = Undecided

RewardInv == RewardTypeOK /\ EventsStored /\ PointsInStep

-----------------------------------------------------------------------------
(* Sums over the events that stand.                                        *)

BalanceIn(events, a) == SumFunctionOnSet([c \in events |-> Gain(c)], {c \in events : wish[c].account = a})
Redeemers(events) == {c \in events : wish[c].op = "REDEEM_PURCHASE"}
RedeemedIn(events) == SumFunctionOnSet([c \in events |-> wish[c].points], Redeemers(events))
KeysUnique == \A c, d \in Rows(FALSE) : wish[c].key = wish[d].key => c = d

LEMMA WishTyped ==
    ASSUME RewardTypeOK, NEW c \in Shopper, wish[c].op # "none"
    PROVE  /\ wish[c] \in Wishes[c] /\ wish[c] # NoWish
           /\ wish[c].op \in {"OPENING_BALANCE", "MANUAL_EARN", "EXPIRE", "REDEEM_PURCHASE", "VOID", "ARCHIVE"}
           /\ wish[c].op \in Creations => wish[c].points \in Nat /\ Gain(c) \in Int
           /\ wish[c].op = "ARCHIVE" => wish[c].account \in RewardAccount
<1>1. wish[c] \in Wishes[c] /\ wish[c] # NoWish
  BY DEF RewardTypeOK, NoWish
<1> QED
  BY <1>1, RewardAssumption DEF Creations, Gain

LEMMA EventTyped ==
    ASSUME RewardTypeOK, NEW c \in Shopper, wish[c].op \in Creations
    PROVE  wish[c] # NoWish /\ wish[c].points \in Nat /\ Gain(c) \in Int
BY WishTyped DEF Creations

\* An event counts for its own account, and for the benefit when it is a
\* redemption.
LEMMA EventCounts ==
    ASSUME RewardTypeOK, NEW events \in SUBSET Shopper, \A c \in events : wish[c].op \in Creations, NEW e \in events
    PROVE  /\ \A a : /\ BalanceIn(events \ {e}, a) \in Int
                     /\ BalanceIn(events, a) = IF wish[e].account = a THEN BalanceIn(events \ {e}, a) + Gain(e)
                                               ELSE BalanceIn(events \ {e}, a)
           /\ RedeemedIn(events \ {e}) \in Nat
           /\ RedeemedIn(events) = IF wish[e].op = "REDEEM_PURCHASE" THEN RedeemedIn(events \ {e}) + wish[e].points
                                   ELSE RedeemedIn(events \ {e})
<1> DEFINE fewer   == events \ {e}
           gains   == [c \in fewer |-> Gain(c)]
           points  == [c \in fewer |-> wish[c].points]
           allGains  == [c \in events |-> Gain(c)]
           allPoints == [c \in events |-> wish[c].points]
<1>1. /\ \A c \in fewer : /\ gains[c] \in Int /\ allGains[c] = gains[c]
                          /\ points[c] \in Nat /\ points[c] \in Int /\ allPoints[c] = points[c]
      /\ allGains[e] = Gain(e) /\ allPoints[e] = wish[e].points
      /\ Gain(e) \in Int /\ wish[e].points \in Nat
  BY EventTyped
<1>2. \A T \in SUBSET fewer : IsFiniteSet(T) /\ e \notin T
  BY RewardAssumption, FS_Subset
<1> HIDE DEF gains, points, allGains, allPoints
<1>3. ASSUME NEW a
      PROVE  /\ BalanceIn(fewer, a) \in Int
             /\ BalanceIn(events, a) = IF wish[e].account = a THEN BalanceIn(fewer, a) + Gain(e) ELSE BalanceIn(fewer, a)
  <2> DEFINE of == {c \in fewer : wish[c].account = a}
  <2>1. /\ BalanceIn(fewer, a) = SumFunctionOnSet(gains, of)
        /\ BalanceIn(events, a) = SumFunctionOnSet(allGains, IF wish[e].account = a THEN of \cup {e} ELSE of)
    <3>1. {c \in events : wish[c].account = a} = IF wish[e].account = a THEN of \cup {e} ELSE of
      OBVIOUS
    <3> QED
      BY <3>1 DEF BalanceIn, gains, allGains
  <2>2. IsFiniteSet(of) /\ e \notin of /\ \A y \in of : gains[y] \in Int /\ allGains[y] = gains[y]
    BY <1>1, <1>2
  <2> HIDE DEF of
  <2>3. SumFunctionOnSet(allGains, of \cup {e}) = SumFunctionOnSet(gains, of) + allGains[e]
    <3>1. \A y \in of : gains[y] \in Int /\ allGains[y] = gains[y]
      BY <2>2
    <3>2. allGains[e] \in Int
      BY <1>1
    <3> QED
      BY <2>2, <3>1, <3>2, SumAdds
  <2>4. SumFunctionOnSet(gains, of) = SumFunctionOnSet(allGains, of) /\ SumFunctionOnSet(gains, of) \in Int
    BY <2>2, SumSame, SumTakes
  <2> QED
    BY <1>1, <2>1, <2>3, <2>4
<1>4. /\ RedeemedIn(fewer) \in Nat
      /\ RedeemedIn(events) = IF wish[e].op = "REDEEM_PURCHASE" THEN RedeemedIn(fewer) + wish[e].points ELSE RedeemedIn(fewer)
  <2> DEFINE of == Redeemers(fewer)
  <2>1. /\ RedeemedIn(fewer) = SumFunctionOnSet(points, of)
        /\ RedeemedIn(events) = SumFunctionOnSet(allPoints, IF wish[e].op = "REDEEM_PURCHASE" THEN of \cup {e} ELSE of)
    <3>1. Redeemers(events) = IF wish[e].op = "REDEEM_PURCHASE" THEN of \cup {e} ELSE of
      BY DEF Redeemers
    <3> QED
      BY <3>1 DEF RedeemedIn, points, allPoints
  <2>2. IsFiniteSet(of) /\ e \notin of /\ \A y \in of : /\ points[y] \in Nat /\ points[y] \in Int
                                                        /\ allPoints[y] = points[y]
    BY <1>1, <1>2 DEF Redeemers
  <2> HIDE DEF of
  <2>3. SumFunctionOnSet(allPoints, of \cup {e}) = SumFunctionOnSet(points, of) + allPoints[e]
    <3>1. \A y \in of : points[y] \in Int /\ allPoints[y] = points[y]
      BY <2>2
    <3>2. allPoints[e] \in Int
      BY <1>1
    <3> QED
      BY <2>2, <3>1, <3>2, SumAdds
  <2>4. SumFunctionOnSet(points, of) = SumFunctionOnSet(allPoints, of) /\ SumFunctionOnSet(points, of) \in Nat
    BY <2>2, SumSame, SumNatural
  <2> QED
    BY <1>1, <2>1, <2>3, <2>4
<1> QED
  BY <1>3, <1>4

LEMMA BalanceIsIn ==
    /\ \A a : Balance(a) = BalanceIn(unvoided, a)
    /\ BenefitIsRedeemed <=> benefit = RedeemedIn(unvoided) /\ KeysUnique
BY DEF Balance, BalanceIn, BenefitIsRedeemed, RedeemedIn, Redeemers, KeysUnique

LEMMA BalanceTyped ==
    ASSUME RewardTypeOK, EventsStored, NEW a
    PROVE  Balance(a) \in Int
<1> DEFINE gains == [c \in unvoided |-> Gain(c)]
           of == {c \in unvoided : wish[c].account = a}
<1>1. IsFiniteSet(of)
  BY RewardAssumption, FS_Subset DEF RewardTypeOK
<1>2. \A c \in of : gains[c] \in Int
  BY EventTyped DEF RewardTypeOK, EventsStored
<1>3. Balance(a) = SumFunctionOnSet(gains, of)
  BY DEF Balance
<1> HIDE DEF gains, of
<1> QED
  BY <1>1, <1>2, <1>3, SumTakes

\* What a step does that adds an event, or takes one away.
LEMMA EventAdds ==
    ASSUME RewardInv, UNCHANGED wish, NEW e \in Shopper \ unvoided, wish[e].op \in Creations,
           unvoided' = unvoided \cup {e}
    PROVE  /\ \A a : Balance(a)' = IF wish[e].account = a THEN Balance(a) + Gain(e) ELSE Balance(a)
           /\ BenefitIsRedeemed' <=> /\ benefit' = IF wish[e].op = "REDEEM_PURCHASE" THEN benefit + wish[e].points
                                                   ELSE benefit
                                     /\ KeysUnique'
<1> DEFINE after == unvoided \cup {e}
<1>1. after \ {e} = unvoided /\ after \in SUBSET Shopper /\ \A c \in after : wish[c].op \in Creations
  BY DEF RewardInv, RewardTypeOK, EventsStored
<1>2. \A a : Balance(a)' = BalanceIn(after, a)
  BY DEF Balance, BalanceIn, Gain
<1>3. BenefitIsRedeemed' <=> benefit' = RedeemedIn(after) /\ KeysUnique'
  BY DEF BenefitIsRedeemed, RedeemedIn, Redeemers, KeysUnique
<1> HIDE DEF after
<1>4. e \in after
  BY DEF after
<1>5. \A a : BalanceIn(after, a) = IF wish[e].account = a THEN Balance(a) + Gain(e) ELSE Balance(a)
  BY <1>1, <1>4, EventCounts, BalanceIsIn DEF RewardInv
<1>6. RedeemedIn(after) = IF wish[e].op = "REDEEM_PURCHASE" THEN benefit + wish[e].points ELSE benefit
  BY <1>1, <1>4, EventCounts, BalanceIsIn DEF RewardInv, PointsInStep
<1> QED
  BY <1>2, <1>3, <1>5, <1>6

LEMMA EventLeaves ==
    ASSUME RewardInv, UNCHANGED wish, NEW e \in unvoided, unvoided' = unvoided \ {e}
    PROVE  /\ \A a : Balance(a)' = IF wish[e].account = a THEN Balance(a) - Gain(e) ELSE Balance(a)
           /\ wish[e].op = "REDEEM_PURCHASE" => benefit - wish[e].points \in Nat
           /\ BenefitIsRedeemed' <=> /\ benefit' = IF wish[e].op = "REDEEM_PURCHASE" THEN benefit - wish[e].points
                                                   ELSE benefit
                                     /\ KeysUnique'
<1> DEFINE after == unvoided \ {e}
<1>1. unvoided \in SUBSET Shopper /\ \A c \in unvoided : wish[c].op \in Creations
  BY DEF RewardInv, RewardTypeOK, EventsStored
<1>2. \A a : Balance(a)' = BalanceIn(after, a)
  BY DEF Balance, BalanceIn, Gain
<1>3. BenefitIsRedeemed' <=> benefit' = RedeemedIn(after) /\ KeysUnique'
  BY DEF BenefitIsRedeemed, RedeemedIn, Redeemers, KeysUnique
<1>4. wish[e].points \in Nat /\ Gain(e) \in Int
  BY <1>1, EventTyped DEF RewardInv
<1>5. \A a : /\ BalanceIn(after, a) \in Int
             /\ Balance(a) = IF wish[e].account = a THEN BalanceIn(after, a) + Gain(e) ELSE BalanceIn(after, a)
  BY <1>1, EventCounts, BalanceIsIn DEF RewardInv
<1>6. /\ RedeemedIn(after) \in Nat
      /\ benefit = IF wish[e].op = "REDEEM_PURCHASE" THEN RedeemedIn(after) + wish[e].points ELSE RedeemedIn(after)
  BY <1>1, EventCounts, BalanceIsIn DEF RewardInv, PointsInStep
<1> HIDE DEF after
<1>7. \A a : BalanceIn(after, a) = IF wish[e].account = a THEN Balance(a) - Gain(e) ELSE Balance(a)
  BY <1>4, <1>5
<1>8. /\ RedeemedIn(after) = IF wish[e].op = "REDEEM_PURCHASE" THEN benefit - wish[e].points ELSE benefit
      /\ wish[e].op = "REDEEM_PURCHASE" => benefit - wish[e].points \in Nat
  BY <1>4, <1>6
<1> QED
  BY <1>2, <1>3, <1>7, <1>8

-----------------------------------------------------------------------------
(* Answers.                                                                *)

Declined(c) ==
    /\ reaction[c] = Undecided /\ UNCHANGED <<unvoided, retired, benefit, wish>>
    /\ \E v \in {"replayed", "conflict", "refused"} : reaction' = [reaction EXCEPT ![c] = v]
Stored(c) ==
    /\ reaction[c] = Undecided /\ UNCHANGED wish /\ reaction' = [reaction EXCEPT ![c] = "stored"]
    /\ Clashing(wish[c]) = {} /\ AccountOf(wish[c]) \notin retired

\* A new row has a key of its own, and the requests stay as they are.
LEMMA EventBooks ==
    ASSUME RewardInv, NEW c \in Shopper, Stored(c), wish[c].op # "none"
    PROVE  /\ reaction' \in [Shopper -> {"stored", "replayed", "conflict", "refused", Undecided}]
           /\ DOMAIN wish' = Shopper /\ \A d \in Shopper : wish'[d] \in Wishes[d] \cup {NoWish}
           /\ reaction'[c] = "stored" /\ \A d \in Shopper \ {c} : reaction'[d] = reaction[d]
           /\ \A d \in Shopper : wish'[d] = NoWish => reaction'[d] = Undecided
           /\ c \notin unvoided /\ \A d \in unvoided : reaction'[d] = "stored"
           /\ KeysUnique'
<1>1. /\ reaction' \in [Shopper -> {"stored", "replayed", "conflict", "refused", Undecided}]
      /\ DOMAIN wish' = Shopper /\ \A d \in Shopper : wish'[d] \in Wishes[d] \cup {NoWish}
      /\ reaction'[c] = "stored" /\ \A d \in Shopper \ {c} : reaction'[d] = reaction[d]
  BY DEF RewardInv, RewardTypeOK, Stored
<1>2. c \notin unvoided /\ unvoided \subseteq Shopper
  BY RewardAssumption DEF RewardInv, RewardTypeOK, EventsStored, Stored
<1>3. \A d \in unvoided : reaction'[d] = "stored"
  BY <1>1, <1>2 DEF RewardInv, EventsStored
<1>4. wish[c] # NoWish
  BY WishTyped DEF RewardInv
<1>5. \A d \in Shopper : wish'[d] = NoWish => reaction'[d] = Undecided
  BY <1>1, <1>4 DEF RewardInv, EventsStored, Stored
<1>6. KeysUnique'
  <2>1. Rows(FALSE)' \subseteq Rows(FALSE) \cup {c}
    BY <1>1 DEF Rows, Stored
  <2>2. c \in Rows(FALSE)' => \A d \in Rows(FALSE) : wish[d].key # wish[c].key
    BY DEF Rows, Stored, Clashing
  <2>3. \A d, e \in Rows(FALSE) : wish[d].key = wish[e].key => d = e
    BY DEF RewardInv, PointsInStep, BenefitIsRedeemed
  <2> QED
    BY <2>1, <2>2, <2>3 DEF KeysUnique, Stored
<1> QED
  BY <1>1, <1>2, <1>3, <1>5, <1>6

\* What leaves the events and accounts alone leaves the balances alone.
LEMMA PointsUnmoved ==
    ASSUME RewardInv, UNCHANGED <<unvoided, retired, benefit>>, \A c \in unvoided : wish'[c] = wish[c], KeysUnique'
    PROVE  PointsInStep'
<1>1. [c \in unvoided |-> Gain(c)'] = [c \in unvoided |-> Gain(c)]
  BY DEF Gain
<1>2. \A a : Balance(a)' = Balance(a)
  <2> TAKE a
  <2>1. {c \in unvoided : wish'[c].account = a} = {c \in unvoided : wish[c].account = a}
    OBVIOUS
  <2> QED
    BY <1>1, <2>1 DEF Balance
<1>3. NeverOverdrawn' /\ RetiredIsEmpty'
  BY <1>2 DEF RewardInv, PointsInStep, NeverOverdrawn, RetiredIsEmpty
<1>4. OpenedOnce'
  BY DEF RewardInv, PointsInStep, OpenedOnce
<1>5. BenefitIsRedeemed'
  <2>1. {c \in unvoided : wish'[c].op = "REDEEM_PURCHASE"} = {c \in unvoided : wish[c].op = "REDEEM_PURCHASE"}
    OBVIOUS
  <2>2. [c \in unvoided |-> wish'[c].points] = [c \in unvoided |-> wish[c].points]
    OBVIOUS
  <2> QED
    BY <2>1, <2>2 DEF RewardInv, PointsInStep, BenefitIsRedeemed, KeysUnique
<1> QED
  BY <1>3, <1>4, <1>5 DEF PointsInStep

LEMMA UnansweredKeeps ==
    ASSUME RewardInv, NEW c \in Shopper, wish[c] # NoWish, Declined(c)
    PROVE  RewardInv'
<1>1. /\ reaction' \in [Shopper -> {"stored", "replayed", "conflict", "refused", Undecided}]
      /\ reaction'[c] \in {"replayed", "conflict", "refused"}
      /\ \A d \in Shopper \ {c} : reaction'[d] = reaction[d]
  BY DEF RewardInv, RewardTypeOK, Declined
<1>2. c \notin unvoided /\ unvoided \subseteq Shopper
  BY RewardAssumption DEF RewardInv, RewardTypeOK, EventsStored, Declined
<1>3. RewardTypeOK' /\ EventsStored'
  BY <1>1, <1>2 DEF RewardInv, RewardTypeOK, EventsStored, Declined
<1>4. KeysUnique'
  <2>1. Rows(FALSE)' = Rows(FALSE)
    BY <1>1, RewardAssumption DEF Rows, Declined
  <2> QED
    BY <2>1 DEF KeysUnique, Declined, RewardInv, PointsInStep, BenefitIsRedeemed
<1> QED
  BY <1>3, <1>4, PointsUnmoved DEF RewardInv, Declined

LEMMA FindEventKeeps ==
    ASSUME RewardInv, NEW c \in Shopper, NEW q \in Wishes[c], FindEvent(c, q)
    PROVE  RewardInv'
<1>1. /\ reaction[c] = Undecided /\ q # NoWish
      /\ UNCHANGED <<unvoided, retired, benefit>>
      /\ DOMAIN wish' = Shopper /\ wish'[c] = q /\ \A d \in Shopper \ {c} : wish'[d] = wish[d]
  BY RewardAssumption DEF RewardInv, RewardTypeOK, EventsStored, FindEvent, pointVars, NoWish
<1>2. /\ reaction' \in [Shopper -> {"stored", "replayed", "conflict", "refused", Undecided}]
      /\ reaction'[c] # "stored" /\ \A d \in Shopper \ {c} : reaction'[d] = reaction[d]
  BY RewardAssumption DEF RewardInv, RewardTypeOK, FindEvent, Recalled
<1>3. c \notin unvoided /\ unvoided \subseteq Shopper
  BY <1>1, RewardAssumption DEF RewardInv, RewardTypeOK, EventsStored
<1>4. RewardTypeOK'
  BY <1>1, <1>2 DEF RewardInv, RewardTypeOK
<1>5. EventsStored'
  BY <1>1, <1>2, <1>3 DEF RewardInv, EventsStored
<1>6. KeysUnique'
  <2>1. Rows(FALSE)' = Rows(FALSE) /\ c \notin Rows(FALSE)
    BY <1>1, <1>2, RewardAssumption DEF Rows
  <2> QED
    BY <1>1, <2>1 DEF KeysUnique, Rows, RewardInv, PointsInStep, BenefitIsRedeemed
<1> QED
  BY <1>1, <1>3, <1>4, <1>5, <1>6, PointsUnmoved DEF RewardInv

\* An event more, which its account can bear.
LEMMA NewEventKeeps ==
    ASSUME RewardInv, NEW c \in Shopper, Stored(c), wish[c].op \in Creations,
           wish[c].op \in {"EXPIRE", "REDEEM_PURCHASE"} => Balance(wish[c].account) >= wish[c].points,
           wish[c].op = "OPENING_BALANCE" => ~Opened(wish[c].account),
           unvoided' = unvoided \cup {c}, UNCHANGED retired,
           benefit' = IF wish[c].op = "REDEEM_PURCHASE" THEN benefit + wish[c].points ELSE benefit
    PROVE  RewardInv'
<1> DEFINE a == wish[c].account
<1>1. /\ wish[c].op # "none" /\ wish[c].points \in Nat /\ Gain(c) \in Int /\ UNCHANGED wish
      /\ wish[c].op \notin Positive => wish[c].op \in {"EXPIRE", "REDEEM_PURCHASE"} /\ Gain(c) = -wish[c].points
      /\ wish[c].op \in Positive => Gain(c) = wish[c].points
  BY EventTyped DEF RewardInv, Creations, Positive, Gain, Stored
<1>2. c \in Shopper \ unvoided
  BY <1>1, EventBooks
<1>3. \A b : Balance(b)' = IF a = b THEN Balance(b) + Gain(c) ELSE Balance(b)
  BY <1>1, <1>2, EventAdds
<1>4. BenefitIsRedeemed'
  BY <1>1, <1>2, EventAdds, EventBooks
<1>5. Balance(a) \in Int /\ \A b : Balance(b) \in Int
  BY BalanceTyped DEF RewardInv
<1>6. RewardTypeOK'
  <2>1. benefit' \in Nat
    BY <1>1 DEF RewardInv, RewardTypeOK
  <2> QED
    BY <1>1, <2>1, EventBooks DEF RewardInv, RewardTypeOK
<1>7. EventsStored'
  BY <1>1, EventBooks DEF RewardInv, EventsStored
<1>8. a \notin retired
  BY DEF Stored, AccountOf, Creations
<1> HIDE DEF a
<1>9. RetiredIsEmpty'
  BY <1>3, <1>8 DEF RewardInv, PointsInStep, RetiredIsEmpty
<1>10. NeverOverdrawn'
  <2> SUFFICES ASSUME NEW b \in RewardAccount PROVE Balance(b)' >= 0
    BY DEF NeverOverdrawn
  <2>1. Balance(b) >= 0 /\ Balance(b) \in Int
    BY <1>5 DEF RewardInv, PointsInStep, NeverOverdrawn
  <2>2. CASE wish[c].op \in Positive
    BY <1>1, <1>3, <2>1, <2>2
  <2>3. CASE wish[c].op \notin Positive
    <3>1. a = b => Balance(b) >= wish[c].points
      BY <1>1, <2>3 DEF a
    <3> QED
      BY <1>1, <1>3, <2>1, <2>3, <3>1
  <2> QED
    BY <2>2, <2>3
<1>11. OpenedOnce'
  BY <1>1 DEF RewardInv, PointsInStep, OpenedOnce, Opened
<1> QED
  BY <1>4, <1>6, <1>7, <1>9, <1>10, <1>11 DEF RewardInv, PointsInStep

\* An event less, whose points were not spent.
LEMMA VoidingKeeps ==
    ASSUME RewardInv, NEW c \in Shopper, Stored(c), wish[c].op = "VOID",
           NEW e \in unvoided, e = wish[c].event, StillUnspent(e),
           unvoided' = unvoided \ {e}, UNCHANGED retired,
           benefit' = IF wish[e].op = "REDEEM_PURCHASE" THEN benefit - wish[e].points ELSE benefit
    PROVE  RewardInv'
<1> DEFINE a == wish[e].account
<1>1. /\ wish[c].op # "none" /\ UNCHANGED wish /\ e \in Shopper
      /\ wish[e].points \in Nat /\ Gain(e) \in Int
      /\ wish[e].op \notin Positive => Gain(e) = -wish[e].points
      /\ wish[e].op \in Positive => Gain(e) = wish[e].points /\ Balance(a) >= wish[e].points
  BY EventTyped DEF RewardInv, RewardTypeOK, EventsStored, Gain, Stored, StillUnspent
<1>2. \A b : Balance(b)' = IF a = b THEN Balance(b) - Gain(e) ELSE Balance(b)
  BY <1>1, EventLeaves
<1>3. BenefitIsRedeemed'
  BY <1>1, EventLeaves, EventBooks
<1>4. \A b : Balance(b) \in Int
  BY BalanceTyped DEF RewardInv
<1>5. RewardTypeOK'
  <2>1. benefit' \in Nat
    BY <1>1, EventLeaves DEF RewardInv, RewardTypeOK
  <2> QED
    BY <1>1, <2>1, EventBooks DEF RewardInv, RewardTypeOK
<1>6. EventsStored'
  BY <1>1, EventBooks DEF RewardInv, EventsStored
<1>7. a \notin retired
  BY DEF Stored, AccountOf
<1>8. RetiredIsEmpty'
  BY <1>2, <1>7 DEF RewardInv, PointsInStep, RetiredIsEmpty
<1>9. NeverOverdrawn'
  <2> SUFFICES ASSUME NEW b \in RewardAccount PROVE Balance(b)' >= 0
    BY DEF NeverOverdrawn
  <2>1. Balance(b) >= 0 /\ Balance(b) \in Int
    BY <1>4 DEF RewardInv, PointsInStep, NeverOverdrawn
  <2>2. Balance(b)' = IF a = b THEN Balance(b) - Gain(e) ELSE Balance(b)
    BY <1>2
  <2> HIDE DEF a
  <2>3. a = b => Balance(b) - Gain(e) >= 0
    BY <1>1, <2>1
  <2> QED
    BY <2>1, <2>2, <2>3
<1>10. OpenedOnce'
  BY <1>1 DEF RewardInv, PointsInStep, OpenedOnce
<1> QED
  BY <1>3, <1>5, <1>6, <1>8, <1>9, <1>10 DEF RewardInv, PointsInStep

LEMMA RetiringKeeps ==
    ASSUME RewardInv, NEW c \in Shopper, Stored(c), wish[c].op = "ARCHIVE", Balance(wish[c].account) = 0,
           retired' = retired \cup {wish[c].account}, UNCHANGED <<unvoided, benefit>>
    PROVE  RewardInv'
<1>1. wish[c].op # "none" /\ wish[c].account \in RewardAccount /\ UNCHANGED wish
  BY WishTyped DEF RewardInv, Stored
<1>2. RewardTypeOK' /\ EventsStored'
  BY <1>1, EventBooks DEF RewardInv, RewardTypeOK, EventsStored
<1>3. \A a : Balance(a)' = Balance(a)
  BY <1>1 DEF Balance, Gain
<1>4. NeverOverdrawn' /\ RetiredIsEmpty'
  BY <1>3 DEF RewardInv, PointsInStep, NeverOverdrawn, RetiredIsEmpty
<1>5. OpenedOnce' /\ BenefitIsRedeemed'
  BY ZenonT(30), <1>1, EventBooks DEF RewardInv, PointsInStep, OpenedOnce, BenefitIsRedeemed, KeysUnique
<1> QED
  BY <1>2, <1>4, <1>5 DEF RewardInv, PointsInStep

-----------------------------------------------------------------------------
(* The actions.                                                            *)

LEMMA CreateSimpleKeeps == ASSUME RewardInv, NEW c \in Shopper, CreateSimpleEvent(c) PROVE RewardInv'
<1>1. wish[c].op \in Creations \ {"REDEEM_PURCHASE"} /\ wish[c] # NoWish
  BY DEF CreateSimpleEvent, Creations, NoWish
<1>2. \/ Declined(c)
      \/ /\ Stored(c) /\ unvoided' = unvoided \cup {c} /\ UNCHANGED <<retired, benefit>>
         /\ wish[c].op = "EXPIRE" => Balance(wish[c].account) >= wish[c].points
         /\ wish[c].op = "OPENING_BALANCE" => ~Opened(wish[c].account)
  BY <1>1 DEF CreateSimpleEvent, Under, Declined, Stored, Recalled, pointVars, Creations
<1> QED
  BY <1>1, <1>2, UnansweredKeeps, NewEventKeeps

LEMMA RedeemKeeps == ASSUME RewardInv, NEW c \in Shopper, RecordRewardPurchase(c) PROVE RewardInv'
<1>1. wish[c].op = "REDEEM_PURCHASE" /\ wish[c].op \in Creations /\ wish[c] # NoWish
  BY DEF RecordRewardPurchase, Creations, NoWish
<1>2. \/ Declined(c)
      \/ /\ Stored(c) /\ unvoided' = unvoided \cup {c} /\ benefit' = benefit + wish[c].points
         /\ UNCHANGED retired /\ Balance(wish[c].account) >= wish[c].points
  BY <1>1 DEF RecordRewardPurchase, Under, Declined, Stored, Recalled, pointVars
<1> QED
  BY <1>1, <1>2, UnansweredKeeps, NewEventKeeps

LEMMA VoidEventKeeps == ASSUME RewardInv, NEW c \in Shopper, VoidEvent(c) PROVE RewardInv'
<1> DEFINE e == wish[c].event
<1>1. wish[c].op = "VOID" /\ wish[c] # NoWish
  BY DEF VoidEvent, NoWish
<1>2. \/ Declined(c)
      \/ /\ Stored(c) /\ e \in unvoided /\ StillUnspent(e) /\ unvoided' = unvoided \ {e} /\ UNCHANGED retired
         /\ benefit' = IF wish[e].op = "REDEEM_PURCHASE" THEN benefit - wish[e].points ELSE benefit
  BY <1>1 DEF VoidEvent, Under, Declined, Stored, Recalled, pointVars, Voidable
<1> QED
  BY <1>1, <1>2, UnansweredKeeps, VoidingKeeps

LEMMA RetireKeeps == ASSUME RewardInv, NEW c \in Shopper, ArchiveRewardAccount(c) PROVE RewardInv'
<1>1. wish[c].op = "ARCHIVE" /\ wish[c] # NoWish
  BY DEF ArchiveRewardAccount, NoWish
<1>2. \/ Declined(c)
      \/ /\ Stored(c) /\ Balance(wish[c].account) = 0
         /\ retired' = retired \cup {wish[c].account} /\ UNCHANGED <<unvoided, benefit>>
  BY <1>1 DEF ArchiveRewardAccount, Under, Declined, Stored, Recalled, pointVars, AccountOf
<1> QED
  BY <1>1, <1>2, UnansweredKeeps, RetiringKeeps

LEMMA RewardInitHolds == RewardInit => RewardInv
<1> SUFFICES ASSUME RewardInit PROVE RewardInv
  OBVIOUS
<1>1. RewardTypeOK /\ EventsStored
  BY DEF RewardInit, RewardTypeOK, EventsStored
<1>2. \A a : Balance(a) = 0
  <2> TAKE a
  <2>1. {c \in unvoided : wish[c].account = a} = {}
    BY DEF RewardInit
  <2> QED
    BY <2>1, SumEmpty DEF Balance
<1>3. BenefitIsRedeemed
  <2>1. {c \in unvoided : wish[c].op = "REDEEM_PURCHASE"} = {} /\ benefit = 0 /\ Rows(FALSE) = {}
    BY RewardAssumption DEF RewardInit, Rows
  <2> QED
    BY <2>1, SumEmpty DEF BenefitIsRedeemed
<1>4. NeverOverdrawn /\ RetiredIsEmpty /\ OpenedOnce
  BY <1>2 DEF NeverOverdrawn, RetiredIsEmpty, OpenedOnce, RewardInit
<1> QED
  BY <1>1, <1>3, <1>4 DEF RewardInv, PointsInStep

LEMMA RewardNextKeeps == RewardInv /\ [RewardNext]_rewardVars => RewardInv'
<1> SUFFICES ASSUME RewardInv, [RewardNext]_rewardVars PROVE RewardInv'
  OBVIOUS
<1>1. CASE UNCHANGED rewardVars
  <2>1. RewardTypeOK' /\ EventsStored' /\ KeysUnique'
    BY <1>1 DEF rewardVars, RewardInv, RewardTypeOK, EventsStored, PointsInStep, BenefitIsRedeemed, KeysUnique, Rows
  <2> QED
    BY <1>1, <2>1, PointsUnmoved DEF rewardVars, RewardInv
<1> QED
  BY <1>1, FindEventKeeps, CreateSimpleKeeps, RedeemKeeps, VoidEventKeeps, RetireKeeps DEF RewardNext

LEMMA RewardInvHolds == RewardSpec => []RewardInv
BY RewardInitHolds, RewardNextKeeps, PTL DEF RewardSpec

\* No reward account is overdrawn and an archived one stays empty; an opening
\* balance, a key and a redemption count once.
THEOREM RewardsInStep == RewardSpec => []PointsInStep
BY RewardInvHolds, PTL DEF RewardInv

\* The types, of which one is a fact about a sum: the benefits stay a natural
\* number.
THEOREM RewardTypeCorrect == RewardSpec => []RewardTypeOK
BY RewardInvHolds, PTL DEF RewardInv

-----------------------------------------------------------------------------
(***************************************************************************)
(* SharedPurchases, for any people, amounts and weights. The invariant     *)
(* names the obligation of each person that stands (OneStands), any        *)
(* others being void, and says that it is of the person's share of the     *)
(* latest revisions of purchase and split, which belong together           *)
(* (Current). A change of either replaces or voids an obligation per       *)
(* person, and what was paid on it, and who was archived, is looked at     *)
(* under the same locks.                                                   *)
(***************************************************************************)

\* What requests ask of the purchase and of the split, and what they owe for it.
Asked == UNION {Demands[c] : c \in Asker}
Bills == {d.purchase : d \in Asked} \ {NoPart}
Splits == {d.split : d \in Asked} \ {NoPart}
Item == [amount : Nat, settled : Nat, void : BOOLEAN]

SharingRows ==
    /\ billed \in Seq(Bills)
    /\ shared \in Seq([ask : Splits, of : Nat, gross : Nat, item : [Person -> Nat]])
    /\ debt \in [Person -> Seq(Item)]
    /\ \A i \in DOMAIN billed : billed[i].op = "record" <=> i = 1
    /\ \A i \in DOMAIN shared : /\ shared[i].of \in DOMAIN billed
                                /\ \A p \in Person : shared[i].item[p] \in 0..Len(debt[p])
    /\ known \subseteq Person
    /\ DOMAIN demand = Asker /\ \A c \in Asker : demand[c] \in Demands[c] \cup {NoDemand}
    /\ word \in [Asker -> {"stored", "replayed", "conflict", "refused", Wordless}]

\* The obligation a participant has for the latest split is the one that stands.
OneStands == \A p \in Person : /\ Holding[p] \in 0..Len(debt[p])
                              /\ \A i \in DOMAIN debt[p] : debt[p][i].void <=> i # Holding[p]

\* It is the participant's share of the latest purchase revision.
Owns(share) ==
    \A p \in Person : IF share[p] = 0 THEN Holding[p] = 0
                      ELSE Holding[p] > 0 /\ debt[p][Holding[p]].amount = share[p]
Current ==
    IF Shares(shared)
    THEN /\ Charged(billed) /\ Last(shared).of = Len(billed) /\ Last(shared).gross = Last(billed).amount
         /\ Last(shared).ask.op \in {"share", "reshare"}
         /\ Allocates(Last(shared).ask, Last(billed).amount)
         /\ Owns(ShareOf(Last(shared).ask, Last(billed).amount))
    ELSE Owns(NoShare)

SharingInv == SharingRows /\ OneStands /\ Current /\ PaidSharesKept /\ ArchivedOweNothing

-----------------------------------------------------------------------------
(* What is asked for, and the shares of an amount.                         *)

LEMMA BillTyped ==
  ASSUME NEW b \in Bills
  PROVE  b.op \in {"record", "amend", "cancel"} /\ (b.op # "cancel" => b.amount \in Nat)
  BY SharingAssumption DEF Bills, Asked, NoPart

LEMMA SplitTyped ==
  ASSUME NEW q \in Splits
  PROVE  /\ q.op \in {"share", "reshare", "unshare"}
         /\ q.op # "unshare" => q.weight \in [{0} \cup Person -> Nat]
  BY SharingAssumption DEF Splits, Asked, NoPart

LEMMA DivisionNatural ==
  ASSUME NEW a \in Nat, NEW b \in Nat \ {0}
  PROVE  a \div b \in Nat
  OBVIOUS

\* A participant's share by weight is a natural number.
LEMMA RatioNatural ==
  ASSUME NEW gross \in Nat, NEW weight \in [{0} \cup Person -> Nat], NEW p \in Person, weight[p] > 0
  PROVE  ByRatio(gross, weight)[p] \in Nat
<1> DEFINE sharers == {0} \cup {x \in Person : weight[x] > 0}
           all == Summed(weight, sharers)
<1>1. p \in sharers /\ IsFiniteSet(sharers) /\ \A x \in sharers : weight[x] \in Nat
  <2>1. IsFiniteSet({x \in Person : weight[x] > 0})
    BY SharingAssumption, FS_Subset
  <2>2. IsFiniteSet({0} \cup {x \in Person : weight[x] > 0})
    BY <2>1, FS_Singleton, FS_Union
  <2> QED
    BY <2>2
<1>2. all \in Nat \ {0}
  <2>1. all = SumFunctionOnSet(weight, sharers)
    BY DEF Summed
  <2> HIDE DEF all, sharers
  <2>2. SumFunctionOnSet(weight, sharers) \in Nat /\ weight[p] <= SumFunctionOnSet(weight, sharers)
    BY <1>1, SumNatural
  <2>3. weight[p] \in Nat
    OBVIOUS
  <2> QED
    BY <2>1, <2>2, <2>3
<1>3. \E n \in {0, 1} : ByRatio(gross, weight)[p] = ((gross * weight[p]) \div all) + n
  BY <1>1 DEF ByRatio
<1>4. gross * weight[p] \in Nat
  OBVIOUS
<1> HIDE DEF all
<1>5. (gross * weight[p]) \div all \in Nat
  BY <1>2, <1>4, DivisionNatural
<1> QED
  BY <1>3, <1>5

LEMMA ShareNatural ==
  ASSUME NEW q \in Splits, q.op # "unshare", NEW gross \in Nat
  PROVE  ShareOf(q, gross) \in [Person -> Nat]
<1>1. q.weight \in [{0} \cup Person -> Nat]
  BY SplitTyped
<1>2. ASSUME NEW p \in Person
      PROVE  ShareOf(q, gross)[p] \in Nat
  <2>1. CASE ~(q.weight[p] > 0)
    BY <2>1 DEF ShareOf
  <2>2. CASE q.weight[p] > 0 /\ q.method = "MANUAL"
    BY <1>1, <2>2 DEF ShareOf
  <2>3. CASE q.weight[p] > 0 /\ q.method # "MANUAL"
    <3>1. ShareOf(q, gross)[p] = ByRatio(gross, q.weight)[p]
      BY <2>3 DEF ShareOf
    <3> QED
      BY <1>1, <2>3, <3>1, RatioNatural
  <2> QED
    BY <2>1, <2>2, <2>3
<1>3. ShareOf(q, gross) = [p \in Person |-> ShareOf(q, gross)[p]]
  BY DEF ShareOf
<1> QED
  BY <1>2, <1>3

-----------------------------------------------------------------------------
(* A split changes the obligations.                                        *)

\* The obligation each participant has then.
Assigned(share) ==
    [p \in Person |-> IF share[p] = 0 THEN 0
                      ELSE IF Holding[p] = 0 THEN Len(debt[p]) + 1 ELSE Holding[p]]

LEMMA ItemChanges ==
  ASSUME NEW x \in Item, NEW n
  PROVE  /\ [x EXCEPT !.amount = n] = [amount |-> n, settled |-> x.settled, void |-> x.void]
         /\ [x EXCEPT !.void = n] = [amount |-> x.amount, settled |-> x.settled, void |-> n]
         /\ [x EXCEPT !.settled = n] = [amount |-> x.amount, settled |-> n, void |-> x.void]
  BY DEF Item

LEMMA OwingKeeps ==
  ASSUME debt \in [Person -> Seq(Item)], OneStands, PaidSharesKept,
         NEW share \in [Person -> Nat], KeepsSettled(share),
         debt' = Owing(share), Holding' = Assigned(share), NEW p \in Person
  PROVE  /\ debt'[p] \in Seq(Item) /\ Len(debt'[p]) >= Len(debt[p])
         /\ Holding'[p] \in 0..Len(debt'[p])
         /\ \A i \in DOMAIN debt'[p] :
               /\ debt'[p][i].void <=> i # Holding'[p]
               /\ debt'[p][i].settled <= IF debt'[p][i].void THEN 0 ELSE debt'[p][i].amount
         /\ IF share[p] = 0 THEN Holding'[p] = 0
            ELSE Holding'[p] > 0 /\ debt'[p][Holding'[p]].amount = share[p]
         /\ share[p] = 0 /\ Holding[p] = 0 => debt'[p] = debt[p]
<1> DEFINE h == Holding[p]
           d == debt[p]
           e == debt'[p]
           Fits(x, at, now) == /\ x \in Item /\ (x.void <=> at # now)
                               /\ x.settled <= IF x.void THEN 0 ELSE x.amount
<1>1. /\ d \in Seq(Item) /\ h \in 0..Len(d) /\ share[p] \in Nat
      /\ \A i \in 1..Len(d) : Fits(d[i], i, h)
      /\ h > 0 => d[h].settled <= share[p]
  BY DEF OneStands, PaidSharesKept, KeepsSettled
<1>2. Holding'[p] = IF share[p] = 0 THEN 0 ELSE IF h = 0 THEN Len(d) + 1 ELSE h
  BY DEF Assigned
<1>3. CASE share[p] > 0 /\ h = 0
  <2> DEFINE new == [amount |-> share[p], settled |-> 0, void |-> FALSE]
  <2>1. e = Append(d, new)
    BY <1>3 DEF Owing
  <2>2. new \in Item /\ new.amount = share[p] /\ new.settled = 0 /\ new.void = FALSE
    BY <1>1 DEF Item
  <2> HIDE DEF new
  <2>3. /\ e \in Seq(Item) /\ Len(e) = Len(d) + 1 /\ e[Len(d) + 1] = new
        /\ \A i \in 1..Len(d) : e[i] = d[i]
    BY <1>1, <2>1, <2>2
  <2>4. Holding'[p] = Len(d) + 1
    BY <1>2, <1>3
  <2>5. \A i \in 1..Len(d) : Fits(e[i], i, Len(d) + 1)
    BY <1>1, <1>3, <2>3
  <2>6. Fits(e[Len(d) + 1], Len(d) + 1, Len(d) + 1)
    BY <1>1, <2>2, <2>3
  <2>7. \A i \in 1..(Len(d) + 1) : Fits(e[i], i, Len(d) + 1)
    BY <1>1, <2>5, <2>6
  <2> QED
    BY <1>1, <1>3, <2>2, <2>3, <2>4, <2>7
<1>4. CASE share[p] > 0 /\ h > 0
  <2> DEFINE new == [amount |-> share[p], settled |-> d[h].settled, void |-> d[h].void]
  <2>1. e = [d EXCEPT ![h] = new]
    <3>1. e = [d EXCEPT ![h] = [d[h] EXCEPT !.amount = share[p]]]
      BY <1>4 DEF Owing
    <3>2. d[h] \in Item
      BY <1>1, <1>4
    <3>3. [d[h] EXCEPT !.amount = share[p]] = new
      BY <3>2, ItemChanges
    <3> QED
      BY <3>1, <3>3
  <2>2. /\ new \in Item /\ new.amount = share[p] /\ new.settled = d[h].settled
        /\ new.void = d[h].void
    BY <1>1, <1>4 DEF Item
  <2> HIDE DEF new
  <2>3. /\ e \in Seq(Item) /\ Len(e) = Len(d) /\ e[h] = new
        /\ \A i \in 1..Len(d) : i # h => e[i] = d[i]
    BY <1>1, <1>4, <2>1, <2>2
  <2>4. Holding'[p] = h
    BY <1>2, <1>4
  <2>5. Fits(e[h], h, h)
    BY <1>1, <1>4, <2>2, <2>3
  <2>6. \A i \in 1..Len(d) : Fits(e[i], i, h)
    BY <1>1, <2>3, <2>5
  <2> QED
    BY <1>1, <1>4, <2>2, <2>3, <2>4, <2>6
<1>5. CASE share[p] = 0 /\ h > 0
  <2> DEFINE new == [amount |-> d[h].amount, settled |-> d[h].settled, void |-> TRUE]
  <2>1. e = [d EXCEPT ![h] = new]
    <3>1. e = [d EXCEPT ![h] = [d[h] EXCEPT !.void = TRUE]]
      BY <1>5 DEF Owing
    <3>2. d[h] \in Item
      BY <1>1, <1>5
    <3> QED
      BY <3>1, <3>2, ItemChanges
  <2>2. new \in Item /\ new.settled = d[h].settled /\ new.void = TRUE
    BY <1>1, <1>5 DEF Item
  <2> HIDE DEF new
  <2>3. /\ e \in Seq(Item) /\ Len(e) = Len(d) /\ e[h] = new
        /\ \A i \in 1..Len(d) : i # h => e[i] = d[i]
    BY <1>1, <1>5, <2>1, <2>2
  <2>4. Holding'[p] = 0
    BY <1>2, <1>5
  <2>5. Fits(e[h], h, 0)
    BY <1>1, <1>5, <2>2, <2>3
  <2>6. ASSUME NEW i \in 1..Len(d), i # h
        PROVE  Fits(e[i], i, 0)
    BY <1>1, <2>3, <2>6
  <2>7. \A i \in 1..Len(d) : Fits(e[i], i, 0)
    BY <2>5, <2>6
  <2>8. DOMAIN e = 1..Len(d)
    BY <1>1, <2>3
  <2>9. Len(d) \in Nat /\ ~(share[p] = 0 /\ Holding[p] = 0)
    BY <1>1, <1>5
  <2>10. \A i \in DOMAIN e : /\ e[i].void <=> i # Holding'[p]
                             /\ e[i].settled <= IF e[i].void THEN 0 ELSE e[i].amount
    BY <2>4, <2>7, <2>8
  <2>11. Holding'[p] \in 0..Len(e) /\ Len(e) >= Len(d)
    BY <2>3, <2>4, <2>9
  <2> QED
    BY <1>5, <2>3, <2>4, <2>9, <2>10, <2>11
<1>6. CASE share[p] = 0 /\ h = 0
  <2>1. e = d /\ Holding'[p] = 0
    BY <1>2, <1>6 DEF Owing
  <2> QED
    BY <1>1, <1>6, <2>1
<1> QED
  BY <1>1, <1>3, <1>4, <1>5, <1>6

-----------------------------------------------------------------------------
(* The revisions a transaction makes.                                      *)

Numbered(bills) == bills \in Seq(Bills) /\ \A i \in DOMAIN bills : bills[i].op = "record" <=> i = 1

LEMMA AskedIsTyped ==
  ASSUME SharingRows, NEW c \in Asker, demand[c] # NoDemand
  PROVE  /\ demand[c].purchase # NoPart => demand[c].purchase \in Bills
         /\ demand[c].split # NoPart => demand[c].split \in Splits
<1>1. demand[c] \in Asked
  BY DEF SharingRows, Asked
<1> QED
  BY <1>1 DEF Bills, Splits

LEMMA BillsGrow ==
  ASSUME Numbered(billed), NEW q \in Bills, NEW coordinated \in BOOLEAN, MayBill(q, coordinated)
  PROVE  Numbered(Append(billed, q))
<1>1. q.op = "record" <=> billed = <<>>
  BY DEF MayBill, Charged
<1>2. /\ billed \in Seq(Bills) /\ DOMAIN billed = 1..Len(billed)
      /\ \A i \in 1..Len(billed) : billed[i].op = "record" <=> i = 1
  BY DEF Numbered
<1> DEFINE bills == Append(billed, q)
<1>3. /\ bills \in Seq(Bills) /\ DOMAIN bills = 1..(Len(billed) + 1)
      /\ \A i \in 1..Len(billed) : bills[i] = billed[i]
      /\ bills[Len(billed) + 1] = q
  BY <1>2
<1>4. billed = <<>> <=> Len(billed) + 1 = 1
  BY <1>2
<1> HIDE DEF bills
<1>5. \A i \in 1..(Len(billed) + 1) : bills[i].op = "record" <=> i = 1
  <2>1. \A i \in 1..Len(billed) : bills[i].op = "record" <=> i = 1
    BY <1>2, <1>3
  <2>2. bills[Len(billed) + 1].op = "record" <=> Len(billed) + 1 = 1
    BY <1>1, <1>3, <1>4
  <2> QED
    BY <1>2, <2>1, <2>2
<1> QED
  BY <1>3, <1>5 DEF Numbered, bills

\* A split cannot be left behind by its purchase, so while there is one a
\* request that leaves it alone cannot add a revision to the purchase.
LEMMA UnsharedBills ==
  ASSUME SharingRows, Current, NEW q, Bound(Append(billed, q), shared)
  PROVE  ~Shares(shared)
<1>1. billed \in Seq(Bills)
  BY DEF SharingRows
<1>2. Len(Append(billed, q)) = Len(billed) + 1 /\ Len(billed) \in Nat
  BY <1>1
<1> QED
  BY <1>2 DEF Bound, Current

LEMMA PurchaseAlone ==
  ASSUME SharingInv, NEW c \in Asker, NEW q \in Bills, NEW coordinated \in BOOLEAN,
         MayBill(q, coordinated), Bound(Append(billed, q), shared),
         billed' = Append(billed, q), UNCHANGED <<shared, debt>>, AnswerWith(c, "stored")
  PROVE  SharingInv'
<1>1. ~Shares(shared)
  BY UnsharedBills DEF SharingInv
<1>2. Numbered(billed) /\ Numbered(billed')
  BY BillsGrow DEF Numbered, SharingInv, SharingRows
<1>3. DOMAIN billed \subseteq DOMAIN billed'
  BY DEF SharingInv, SharingRows
<1>4. word' \in [Asker -> {"stored", "replayed", "conflict", "refused", Wordless}]
  BY DEF SharingInv, SharingRows, AnswerWith
<1>5. UNCHANGED <<shared, debt, known, demand>>
  BY DEF AnswerWith
<1>6. SharingRows'
  BY <1>2, <1>3, <1>4, <1>5 DEF Numbered, SharingInv, SharingRows
<1>7. OneStands' /\ PaidSharesKept' /\ ArchivedOweNothing'
  BY <1>5 DEF SharingInv, OneStands, Holding, PaidSharesKept, ArchivedOweNothing, Owes
<1>8. Owns(NoShare)
  BY <1>1 DEF SharingInv, Current
<1>9. Current'
  BY <1>1, <1>5, <1>8 DEF Current, Shares, Owns, Holding, NoShare
<1> QED
  BY <1>6, <1>7, <1>9 DEF SharingInv

LEMMA NothingStored ==
  ASSUME SharingInv, NEW c \in Asker, NEW answer \in {"replayed", "conflict", "refused"},
         UNCHANGED <<billed, shared, debt>>, AnswerWith(c, answer)
  PROVE  SharingInv'
<1>1. word' \in [Asker -> {"stored", "replayed", "conflict", "refused", Wordless}]
  BY DEF SharingInv, SharingRows, AnswerWith
<1>2. UNCHANGED <<billed, shared, debt, known, demand>>
  BY DEF AnswerWith
<1>3. SharingRows'
  BY <1>1, <1>2 DEF SharingInv, SharingRows
<1>4. OneStands' /\ PaidSharesKept' /\ ArchivedOweNothing'
  BY <1>2 DEF SharingInv, OneStands, Holding, PaidSharesKept, ArchivedOweNothing, Owes
<1>5. Current'
  BY <1>2 DEF SharingInv, Current, Shares, Charged, Owns, Holding
<1> QED
  BY <1>3, <1>4, <1>5 DEF SharingInv

-----------------------------------------------------------------------------
(* A transaction that makes a revision of the split.                       *)

\* The shares of the revision.
Given(s, bills, at) == IF s.op = "unshare" THEN NoShare ELSE ShareOf(s, bills[at].amount)

LEMMA LastAppended ==
  ASSUME NEW S, NEW r \in Seq(S), NEW x
  PROVE  Append(r, x) # <<>> /\ Last(Append(r, x)) = x
<1>1. Len(Append(r, x)) = Len(r) + 1 /\ Append(r, x)[Len(r) + 1] = x /\ Len(r) \in Nat
  OBVIOUS
<1> QED
  BY <1>1 DEF Last

LEMMA LastIsIn ==
  ASSUME NEW S, NEW r \in Seq(S), r # <<>>
  PROVE  Last(r) = r[Len(r)] /\ Last(r) \in S /\ Len(r) \in DOMAIN r
<1>1. Len(r) \in DOMAIN r /\ r[Len(r)] \in S
  OBVIOUS
<1> QED
  BY <1>1 DEF Last

LEMMA GivenTyped ==
  ASSUME NEW s \in Splits, NEW bills \in Seq(Bills), NEW at,
         s.op # "unshare" => at \in DOMAIN bills /\ bills[at].op # "cancel"
  PROVE  /\ Given(s, bills, at) \in [Person -> Nat]
         /\ s.op # "unshare" => bills[at].amount \in Nat
<1>1. CASE s.op = "unshare"
  BY <1>1 DEF Given, NoShare
<1>2. CASE s.op # "unshare"
  <2>1. bills[at] \in Bills /\ bills[at].op # "cancel"
    BY <1>2
  <2>2. bills[at].amount \in Nat
    BY <2>1, BillTyped
  <2> QED
    BY <1>2, <2>2, ShareNatural DEF Given
<1> QED
  BY <1>1, <1>2

\* What the checks of the split and the trigger leave of a request: it shares
\* the latest revision of the purchase.
LEMMA SplitAllowed ==
  ASSUME SharingInv, NEW s \in Splits, NEW bills \in Seq(Bills), Len(billed) <= Len(bills), NEW at,
         s.op # "reshare" => at = Len(bills), s.op = "reshare" => at \in DOMAIN bills,
         MaySplit(s, bills, at), Bound(bills, Append(shared, SplitRevision(s, bills, at)))
  PROVE  /\ MayOwe(Given(s, bills, at))
         /\ s.op \in {"share", "reshare", "unshare"}
         /\ s.op = "unshare" => Shares(shared)
         /\ s.op # "unshare" => /\ bills # <<>> /\ at = Len(bills) /\ at \in DOMAIN bills /\ Charged(bills)
                                /\ bills[at] = Last(bills) /\ bills[at].op # "cancel"
                                /\ Allocates(s, bills[at].amount)
<1> DEFINE next == SplitRevision(s, bills, at)
<1>1. s.op \in {"share", "reshare", "unshare"}
  BY SplitTyped
<1>2. next.of = (IF s.op = "unshare" THEN Last(shared).of ELSE at) /\ next.ask = s
  BY DEF SplitRevision
<1>3. Shares(Append(shared, next)) <=> s.op # "unshare"
  BY <1>2, LastAppended DEF Shares, SharingInv, SharingRows
<1>4. s.op # "unshare" => Charged(bills) /\ at = Len(bills)
  BY <1>2, <1>3, LastAppended DEF Bound, SharingInv, SharingRows
<1>5. s.op # "unshare" => bills # <<>> /\ at \in DOMAIN bills /\ bills[at] = Last(bills) /\ bills[at].op # "cancel"
  BY <1>4 DEF Charged, Last
<1>6. CASE s.op = "share"
  BY <1>4, <1>5, <1>6 DEF MaySplit, Given
<1>7. CASE s.op = "reshare"
  BY <1>4, <1>5, <1>7 DEF MaySplit, Given
<1>8. CASE s.op = "unshare"
  BY <1>8 DEF MaySplit, Given
<1> QED
  BY <1>1, <1>6, <1>7, <1>8

LEMMA SplitStored ==
  ASSUME SharingInv, NEW c \in Asker, NEW s \in Splits, NEW bills, Numbered(bills), Len(billed) <= Len(bills), NEW at,
         s.op # "reshare" => at = Len(bills), s.op = "reshare" => at \in DOMAIN bills,
         MaySplit(s, bills, at), Bound(bills, Append(shared, SplitRevision(s, bills, at))),
         billed' = bills, shared' = Append(shared, SplitRevision(s, bills, at)),
         debt' = Owing(Given(s, bills, at)), AnswerWith(c, "stored")
  PROVE  SharingInv'
<1> DEFINE next == SplitRevision(s, bills, at)
           share == Given(s, bills, at)
<1>1. bills \in Seq(Bills) /\ billed \in Seq(Bills)
  BY DEF Numbered, SharingInv, SharingRows
<1>2. /\ MayOwe(share) /\ s.op \in {"share", "reshare", "unshare"}
      /\ s.op = "unshare" => Shares(shared)
      /\ s.op # "unshare" => /\ bills # <<>> /\ at = Len(bills) /\ at \in DOMAIN bills /\ Charged(bills)
                             /\ bills[at] = Last(bills) /\ bills[at].op # "cancel"
                             /\ Allocates(s, bills[at].amount)
  BY <1>1, SplitAllowed
<1>3. share \in [Person -> Nat] /\ (s.op # "unshare" => bills[at].amount \in Nat)
  BY <1>1, <1>2, GivenTyped
<1>4. next = [ask |-> s,
              of |-> IF s.op = "unshare" THEN Last(shared).of ELSE at,
              gross |-> IF s.op = "unshare" THEN Last(shared).gross ELSE bills[at].amount,
              item |-> Assigned(share)]
  BY DEF SplitRevision, Assigned, Given
<1>5. /\ shared \in Seq([ask : Splits, of : Nat, gross : Nat, item : [Person -> Nat]])
      /\ debt \in [Person -> Seq(Item)] /\ OneStands /\ PaidSharesKept
  BY DEF SharingInv, SharingRows
<1>6. /\ next.ask = s /\ next.item = Assigned(share)
      /\ s.op # "unshare" => next.of = at /\ next.gross = bills[at].amount
  BY <1>4
<1>7. Assigned(share) \in [Person -> Nat]
  <2>1. \A p \in Person : Len(debt[p]) \in Nat /\ Holding[p] \in Nat
    BY <1>5 DEF OneStands
  <2> QED
    BY <2>1 DEF Assigned
<1>8. next \in [ask : Splits, of : Nat, gross : Nat, item : [Person -> Nat]] /\ next.of \in DOMAIN bills
  <2>1. CASE s.op = "unshare"
    <3>1. shared # <<>>
      BY <1>2, <2>1 DEF Shares
    <3>2. /\ Last(shared) \in [ask : Splits, of : Nat, gross : Nat, item : [Person -> Nat]]
          /\ Last(shared) = shared[Len(shared)] /\ Len(shared) \in DOMAIN shared
      BY <1>5, <3>1, LastIsIn
    <3>3. Last(shared).of \in DOMAIN billed /\ Last(shared).gross \in Nat /\ Last(shared).of \in Nat
      <4>1. \A i \in DOMAIN shared : shared[i].of \in DOMAIN billed
        BY DEF SharingInv, SharingRows
      <4> QED
        BY <3>2, <4>1
    <3>4. Last(shared).of \in DOMAIN bills
      BY <1>1, <3>3
    <3> QED
      BY <1>4, <1>7, <2>1, <3>3, <3>4
  <2>2. CASE s.op # "unshare"
    <3>1. at \in Nat
      BY <1>1, <1>2, <2>2
    <3> QED
      BY <1>2, <1>3, <1>4, <1>7, <2>2, <3>1
  <2> QED
    BY <2>1, <2>2
<1> HIDE DEF next, share
<1>9. /\ shared' \in Seq([ask : Splits, of : Nat, gross : Nat, item : [Person -> Nat]])
      /\ Len(shared') = Len(shared) + 1 /\ shared'[Len(shared) + 1] = next /\ shared' # <<>>
      /\ \A i \in 1..Len(shared) : shared'[i] = shared[i]
      /\ Last(shared') = next
  <2>1. shared' = Append(shared, next)
    BY DEF next
  <2>2. /\ Append(shared, next) \in Seq([ask : Splits, of : Nat, gross : Nat, item : [Person -> Nat]])
        /\ Len(Append(shared, next)) = Len(shared) + 1 /\ Append(shared, next)[Len(shared) + 1] = next
        /\ \A i \in 1..Len(shared) : Append(shared, next)[i] = shared[i]
    BY <1>5, <1>8
  <2>3. Append(shared, next) # <<>> /\ Last(Append(shared, next)) = next
    BY <1>5, LastAppended
  <2> QED
    BY <2>1, <2>2, <2>3
<1>10. Holding' = Assigned(share)
  BY <1>6, <1>9 DEF Holding
<1>11. KeepsSettled(share) /\ OfActive(share)
  BY <1>2 DEF MayOwe
<1>12. ASSUME NEW p \in Person
       PROVE  /\ debt'[p] \in Seq(Item) /\ Len(debt'[p]) >= Len(debt[p])
              /\ Holding'[p] \in 0..Len(debt'[p])
              /\ \A i \in DOMAIN debt'[p] :
                    /\ debt'[p][i].void <=> i # Holding'[p]
                    /\ debt'[p][i].settled <= IF debt'[p][i].void THEN 0 ELSE debt'[p][i].amount
              /\ IF share[p] = 0 THEN Holding'[p] = 0
                 ELSE Holding'[p] > 0 /\ debt'[p][Holding'[p]].amount = share[p]
              /\ share[p] = 0 /\ Holding[p] = 0 => debt'[p] = debt[p]
  <2>1. debt' = Owing(share)
    BY DEF share
  <2> QED
    BY <1>3, <1>5, <1>10, <1>11, <2>1, OwingKeeps
<1>13. UNCHANGED <<known, demand>> /\ word' \in [Asker -> {"stored", "replayed", "conflict", "refused", Wordless}]
  BY DEF AnswerWith, SharingInv, SharingRows
<1>14. debt' \in [Person -> Seq(Item)]
  <2>1. debt' = [p \in Person |-> debt'[p]]
    BY DEF Owing
  <2> QED
    BY <1>12, <2>1
<1>15. \A i \in DOMAIN shared' : /\ shared'[i].of \in DOMAIN bills
                                 /\ \A p \in Person : shared'[i].item[p] \in 0..Len(debt'[p])
  <2>1. ASSUME NEW i \in 1..Len(shared)
        PROVE  /\ shared'[i].of \in DOMAIN bills
               /\ \A p \in Person : shared'[i].item[p] \in 0..Len(debt'[p])
    <3>1. shared'[i] = shared[i]
      BY <1>9
    <3>2. shared[i].of \in DOMAIN billed /\ \A p \in Person : shared[i].item[p] \in 0..Len(debt[p])
      BY <1>5 DEF SharingInv, SharingRows
    <3>3. shared[i].of \in DOMAIN bills
      BY <1>1, <3>2
    <3>4. ASSUME NEW p \in Person
          PROVE  shared[i].item[p] \in 0..Len(debt'[p])
      <4>1. Len(debt'[p]) >= Len(debt[p]) /\ Len(debt'[p]) \in Nat /\ Len(debt[p]) \in Nat
        BY SMTT(30), <1>5, <1>12
      <4> QED
        BY <3>2, <4>1
    <3> QED
      BY <3>1, <3>3, <3>4
  <2>2. \A p \in Person : next.item[p] \in 0..Len(debt'[p])
    BY <1>6, <1>10, <1>12
  <2>3. DOMAIN shared' = 1..(Len(shared) + 1) /\ Len(shared) \in Nat
    BY <1>5, <1>9
  <2>4. \A i \in 1..(Len(shared) + 1) : i \in 1..Len(shared) \/ i = Len(shared) + 1
    BY <2>3
  <2> QED
    BY <1>8, <1>9, <2>1, <2>2, <2>3, <2>4
<1>16. SharingRows'
  BY <1>9, <1>13, <1>14, <1>15 DEF Numbered, SharingInv, SharingRows
<1>17. OneStands' /\ PaidSharesKept'
  BY <1>12 DEF OneStands, PaidSharesKept
<1>18. ArchivedOweNothing'
  <2>1. ASSUME NEW p \in Person \ known
        PROVE  debt'[p] = debt[p]
    <3>1. ~(share[p] > 0) /\ ~(Holding[p] > 0) /\ share[p] \in Nat /\ Holding[p] \in Nat
      BY <1>3, <1>5, <1>11 DEF OfActive, OneStands
    <3> QED
      BY <1>12, <3>1
  <2> QED
    BY <1>13, <2>1 DEF ArchivedOweNothing, Owes, SharingInv
<1>19. Current'
  <2>1. Owns(share)'
    BY <1>12 DEF Owns
  <2>2. CASE s.op = "unshare"
    BY <1>6, <1>9, <2>1, <2>2 DEF Current, Shares, Given, share, Owns, NoShare
  <2>3. CASE s.op # "unshare"
    BY <1>2, <1>6, <1>9, <2>1, <2>3 DEF Current, Shares, Given, share, Owns
  <2> QED
    BY <2>2, <2>3
<1> QED
  BY <1>16, <1>17, <1>18, <1>19 DEF SharingInv

-----------------------------------------------------------------------------
(* The steps.                                                              *)

LEMMA RaiseKeeps ==
  ASSUME SharingInv, NEW c \in Asker, NEW d \in Demands[c], Raise(c, d)
  PROVE  SharingInv'
<1>1. UNCHANGED <<billed, shared, debt, known>>
  BY DEF Raise
<1>2. /\ DOMAIN demand' = Asker /\ \A e \in Asker : demand'[e] \in Demands[e] \cup {NoDemand}
      /\ word' \in [Asker -> {"stored", "replayed", "conflict", "refused", Wordless}]
  BY DEF Raise, Anew, SharingInv, SharingRows
<1>3. SharingRows'
  BY <1>1, <1>2 DEF SharingInv, SharingRows
<1>4. OneStands' /\ PaidSharesKept' /\ ArchivedOweNothing'
  BY <1>1 DEF SharingInv, OneStands, Holding, PaidSharesKept, ArchivedOweNothing, Owes
<1>5. Current'
  BY <1>1 DEF SharingInv, Current, Shares, Charged, Owns, Holding
<1> QED
  BY <1>3, <1>4, <1>5 DEF SharingInv

LEMMA ChangePurchaseKeeps ==
  ASSUME SharingInv, NEW c \in Asker, ChangePurchase(c)
  PROVE  SharingInv'
<1> DEFINE q == demand[c].purchase
<1>1. q \in Bills
  BY AskedIsTyped DEF ChangePurchase, Asking, SharingInv
<1>2. Anew(billed, q) \in {"new", "replayed", "conflict"}
  BY DEF Anew
<1>3. CASE Anew(billed, q) = "new" /\ MayBill(q, FALSE) /\ Bound(Append(billed, q), shared)
  <2>1. billed' = Append(billed, q) /\ UNCHANGED <<shared, debt>> /\ AnswerWith(c, "stored")
    BY <1>3 DEF ChangePurchase
  <2> QED
    BY <1>1, <1>3, <2>1, PurchaseAlone
<1>4. CASE ~(Anew(billed, q) = "new" /\ MayBill(q, FALSE) /\ Bound(Append(billed, q), shared))
  <2>1. /\ UNCHANGED <<billed, shared, debt>>
        /\ \E answer \in {"replayed", "conflict", "refused"} : AnswerWith(c, answer)
    BY <1>2, <1>4 DEF ChangePurchase
  <2> QED
    BY <2>1, NothingStored
<1> QED
  BY <1>3, <1>4

LEMMA ChangeSplitKeeps ==
  ASSUME SharingInv, NEW c \in Asker, ChangeSplit(c)
  PROVE  SharingInv'
<1> DEFINE q == demand[c].split
           at == Len(billed)
           next == SplitRevision(q, billed, at)
           stores == Anew(SplitRequests, q) = "new" /\ MaySplit(q, billed, at) /\ Bound(billed, Append(shared, next))
<1>1. q \in Splits
  BY AskedIsTyped DEF ChangeSplit, Asking, SharingInv
<1>2. Anew(SplitRequests, q) \in {"new", "replayed", "conflict"}
  BY DEF Anew
<1>3. CASE stores
  <2>1. /\ UNCHANGED billed /\ shared' = Append(shared, next) /\ AnswerWith(c, "stored")
        /\ debt' = Owing(IF q.op = "unshare" THEN NoShare ELSE ShareOf(q, Last(billed).amount))
    BY <1>3 DEF ChangeSplit
  <2>2. Owing(IF q.op = "unshare" THEN NoShare ELSE ShareOf(q, Last(billed).amount)) = Owing(Given(q, billed, at))
    BY DEF Given, Last
  <2>3. Numbered(billed) /\ Len(billed) \in Nat
    BY DEF Numbered, SharingInv, SharingRows
  <2>4. q.op = "reshare" => at \in DOMAIN billed
    <3>1. q.op = "reshare" => Shares(shared)
      BY <1>3 DEF MaySplit
    <3>2. Shares(shared) => billed # <<>>
      BY DEF SharingInv, Current, Charged
    <3> QED
      BY <2>3, <3>1, <3>2 DEF Numbered
  <2> HIDE DEF q, at, next
  <2>5. MaySplit(q, billed, at) /\ Bound(billed, Append(shared, SplitRevision(q, billed, at)))
    BY <1>3 DEF next
  <2>6. Len(billed) <= Len(billed) /\ (q.op # "reshare" => at = Len(billed))
    BY <2>3 DEF at
  <2> QED
    BY <1>1, <2>1, <2>2, <2>3, <2>4, <2>5, <2>6, SplitStored DEF next
<1>4. CASE ~stores
  <2>1. /\ UNCHANGED <<billed, shared, debt>>
        /\ \E answer \in {"replayed", "conflict", "refused"} : AnswerWith(c, answer)
    BY <1>2, <1>4 DEF ChangeSplit
  <2> QED
    BY <2>1, NothingStored
<1> QED
  BY <1>3, <1>4

LEMMA ChangeBothKeeps ==
  ASSUME SharingInv, NEW c \in Asker, ChangeBoth(c)
  PROVE  SharingInv'
<1> DEFINE q == demand[c].purchase
           s == demand[c].split
           bill == Anew(billed, q)
           split == Anew(SplitRequests, s)
           bills == IF bill = "new" THEN Append(billed, q) ELSE billed
           at == IF s.op # "reshare" \/ bill = "new" THEN Len(bills)
                 ELSE CHOOSE i \in OfKey(billed, q) : TRUE
           revisions == IF split = "new" THEN Append(shared, SplitRevision(s, bills, at)) ELSE shared
           allowed == /\ "conflict" \notin {bill, split}
                      /\ bill = "new" => MayBill(q, TRUE)
                      /\ split = "new" => MaySplit(s, bills, at)
           stores == "new" \in {bill, split} /\ allowed /\ Bound(bills, revisions)
<1>1. q \in Bills /\ s \in Splits
  BY AskedIsTyped DEF ChangeBoth, Asking, SharingInv
<1>2. bill \in {"new", "replayed", "conflict"} /\ split \in {"new", "replayed", "conflict"}
  BY DEF Anew
<1>3. CASE stores
  <2>1. /\ billed' = bills /\ shared' = revisions /\ AnswerWith(c, "stored")
        /\ debt' = IF split # "new" THEN debt ELSE Owing(Given(s, bills, at))
    BY <1>3 DEF ChangeBoth, Given
  <2>2. Numbered(billed) /\ Len(billed) \in Nat
    BY DEF Numbered, SharingInv, SharingRows
  <2>3. CASE split # "new"
    <3>1. bill = "new"
      BY <1>3, <2>3
    <3>2. MayBill(q, TRUE) /\ Bound(Append(billed, q), shared)
      BY <1>3, <2>3, <3>1
    <3>3. billed' = Append(billed, q) /\ UNCHANGED <<shared, debt>>
      BY <2>1, <2>3, <3>1
    <3> QED
      BY <1>1, <2>1, <3>2, <3>3, PurchaseAlone
  <2>4. CASE split = "new"
    <3>1. Numbered(bills) /\ Len(billed) <= Len(bills)
      <4>1. CASE bill = "new"
        <5>1. MayBill(q, TRUE)
          BY <1>3, <4>1
        <5>2. Numbered(Append(billed, q))
          BY <1>1, <2>2, <5>1, BillsGrow
        <5>3. billed \in Seq(Bills)
          BY <2>2 DEF Numbered
        <5>4. Len(billed) <= Len(Append(billed, q))
          BY <5>3
        <5> QED
          BY <4>1, <5>2, <5>4
      <4>2. CASE bill # "new"
        BY <2>2, <4>2
      <4> QED
        BY <4>1, <4>2
    <3>2. s.op # "reshare" => at = Len(bills)
      OBVIOUS
    <3>3. MaySplit(s, bills, at) /\ Bound(bills, Append(shared, SplitRevision(s, bills, at)))
      BY <1>3, <2>4
    <3>4. /\ billed' = bills /\ shared' = Append(shared, SplitRevision(s, bills, at))
          /\ debt' = Owing(Given(s, bills, at))
      BY <2>1, <2>4
    <3>5. s.op = "reshare" => at \in DOMAIN bills
      <4>1. CASE bill = "new"
        <5>1. bills = Append(billed, q) /\ (s.op = "reshare" => at = Len(bills))
          BY <4>1
        <5>2. billed \in Seq(Bills)
          BY <2>2 DEF Numbered
        <5>3. Len(Append(billed, q)) \in DOMAIN Append(billed, q)
          BY <5>2
        <5> QED
          BY <5>1, <5>3
      <4>2. CASE bill # "new"
        <5>1. bill # "conflict"
          BY <1>3
        <5>2. OfKey(billed, q) # {} /\ OfKey(billed, q) \subseteq DOMAIN billed
          BY <4>2, <5>1 DEF Anew, OfKey
        <5>3. s.op = "reshare" => at \in OfKey(billed, q)
          BY <4>2, <5>2
        <5> QED
          BY <4>2, <5>2, <5>3
      <4> QED
        BY <4>1, <4>2
    <3> HIDE DEF bills, at, s
    <3> QED
      BY <1>1, <2>1, <3>1, <3>2, <3>3, <3>4, <3>5, SplitStored
  <2> QED
    BY <2>3, <2>4
<1>4. CASE ~stores
  <2>1. /\ UNCHANGED <<billed, shared, debt>>
        /\ AnswerWith(c, IF allowed /\ "new" \notin {bill, split} THEN "replayed"
                         ELSE IF "conflict" \in {bill, split} THEN "conflict" ELSE "refused")
    BY <1>4 DEF ChangeBoth
  <2>2. \E answer \in {"replayed", "conflict", "refused"} : AnswerWith(c, answer)
    BY <2>1
  <2> QED
    BY <2>1, <2>2, NothingStored
<1> QED
  BY <1>3, <1>4

LEMMA AdjustKeeps ==
  ASSUME SharingInv, NEW p \in known, NEW i \in DOMAIN debt[p], NEW by \in Int, ~debt[p][i].void,
         debt[p][i].settled + by \in 0..debt[p][i].amount, Adjusts(p, i, by)
  PROVE  SharingInv'
<1> DEFINE new == [amount |-> debt[p][i].amount, settled |-> debt[p][i].settled + by, void |-> debt[p][i].void]
<1>1. UNCHANGED <<billed, shared, known, demand, word>>
  BY DEF Adjusts
<1>2. p \in Person /\ debt \in [Person -> Seq(Item)] /\ debt[p][i] \in Item
  BY DEF SharingInv, SharingRows
<1>3. new \in Item /\ debt' = [debt EXCEPT ![p] = [debt[p] EXCEPT ![i] = new]]
  <2>1. debt' = [debt EXCEPT ![p] = [debt[p] EXCEPT ![i] = [debt[p][i] EXCEPT !.settled = debt[p][i].settled + by]]]
    BY DEF Adjusts
  <2>2. debt[p][i].amount \in Nat /\ debt[p][i].void \in BOOLEAN /\ debt[p][i].settled + by \in Nat
    BY <1>2 DEF Item
  <2>3. [debt[p][i] EXCEPT !.settled = debt[p][i].settled + by] = new
    BY <1>2, ItemChanges
  <2> QED
    BY <2>1, <2>2, <2>3 DEF Item
<1>4. /\ new.amount = debt[p][i].amount /\ new.void = debt[p][i].void
      /\ new.settled <= new.amount /\ ~new.void
  <2>1. debt[p][i].amount \in Nat
    BY <1>2 DEF Item
  <2> QED
    BY <2>1
<1> HIDE DEF new
<1>5. debt' \in [Person -> Seq(Item)]
  BY <1>2, <1>3
<1>6. \A x \in Person : x # p => debt'[x] = debt[x]
  BY <1>2, <1>3
<1>7. /\ Len(debt'[p]) = Len(debt[p]) /\ DOMAIN debt'[p] = DOMAIN debt[p] /\ debt'[p][i] = new
      /\ \A k \in DOMAIN debt[p] : k # i => debt'[p][k] = debt[p][k]
  BY <1>2, <1>3
<1>8. \A x \in Person : /\ Len(debt'[x]) = Len(debt[x]) /\ DOMAIN debt'[x] = DOMAIN debt[x]
                        /\ \A k \in DOMAIN debt[x] : /\ debt'[x][k].amount = debt[x][k].amount
                                                      /\ debt'[x][k].void = debt[x][k].void
  BY <1>4, <1>6, <1>7
<1>9. Holding' = Holding
  BY <1>1 DEF Holding
<1>10. SharingRows'
  BY <1>1, <1>5, <1>8 DEF SharingInv, SharingRows
<1>11. OneStands'
  BY <1>8, <1>9 DEF SharingInv, OneStands
<1>12. PaidSharesKept'
  <2>1. ASSUME NEW x \in Person, NEW k \in DOMAIN debt'[x]
        PROVE  debt'[x][k].settled <= IF debt'[x][k].void THEN 0 ELSE debt'[x][k].amount
    <3>1. CASE x = p /\ k = i
      BY <1>4, <1>7, <3>1
    <3>2. CASE ~(x = p /\ k = i)
      <4>1. debt'[x][k] = debt[x][k] /\ k \in DOMAIN debt[x]
        BY <1>6, <1>7, <1>8, <3>2
      <4> QED
        BY <4>1 DEF SharingInv, PaidSharesKept
    <3> QED
      BY <3>1, <3>2
  <2> QED
    BY <2>1 DEF PaidSharesKept
<1>13. ArchivedOweNothing'
  <2>1. \A x \in Person \ known : debt'[x] = debt[x]
    BY <1>6
  <2> QED
    BY <1>1, <2>1 DEF SharingInv, ArchivedOweNothing, Owes
<1>14. Current'
  <2>1. ASSUME NEW share, Owns(share)
        PROVE  Owns(share)'
    <3>1. \A x \in Person : Holding[x] \in 0..Len(debt[x]) /\ (Holding[x] > 0 => Holding[x] \in DOMAIN debt[x])
      BY <1>2 DEF SharingInv, OneStands
    <3> QED
      BY <1>8, <1>9, <2>1, <3>1 DEF Owns
  <2> QED
    BY <1>1, <2>1 DEF SharingInv, Current, Shares, Charged
<1> QED
  BY <1>10, <1>11, <1>12, <1>13, <1>14 DEF SharingInv

LEMMA ParticipantKeeps ==
  ASSUME SharingInv, NEW p \in Person, ArchiveParticipant(p)
  PROVE  SharingInv'
<1>1. /\ UNCHANGED <<billed, shared, debt, demand, word>>
      /\ known' = known \ {p} /\ Owes(p) = {}
  BY DEF ArchiveParticipant
<1>2. SharingRows'
  BY <1>1 DEF SharingInv, SharingRows
<1>3. OneStands' /\ PaidSharesKept' /\ ArchivedOweNothing'
  BY <1>1 DEF SharingInv, OneStands, Holding, PaidSharesKept, ArchivedOweNothing, Owes
<1>4. Current'
  BY <1>1 DEF SharingInv, Current, Shares, Charged, Owns, Holding
<1> QED
  BY <1>2, <1>3, <1>4 DEF SharingInv

LEMMA StartsShared == SharingInit => SharingInv
<1> SUFFICES ASSUME SharingInit PROVE SharingInv
  OBVIOUS
<1>1. /\ billed = <<>> /\ shared = <<>> /\ debt = [p \in Person |-> <<>>] /\ known = Person
      /\ demand = [c \in Asker |-> NoDemand] /\ word = [c \in Asker |-> Wordless]
  BY DEF SharingInit
<1>2. SharingRows
  BY <1>1 DEF SharingRows
<1>3. \A p \in Person : Holding[p] = 0 /\ Len(debt[p]) = 0 /\ DOMAIN debt[p] = {}
  BY <1>1 DEF Holding, NoShare
<1>4. OneStands /\ PaidSharesKept /\ ArchivedOweNothing
  BY <1>1, <1>3 DEF OneStands, PaidSharesKept, ArchivedOweNothing
<1>5. Current
  BY <1>1, <1>3 DEF Current, Shares, Owns, NoShare
<1> QED
  BY <1>2, <1>4, <1>5 DEF SharingInv

LEMMA StepKeepsShares == SharingInv /\ [SharingNext]_sharingVars => SharingInv'
<1> SUFFICES ASSUME SharingInv, [SharingNext]_sharingVars
             PROVE  SharingInv'
  OBVIOUS
<1>1. ASSUME NEW c \in Asker, NEW d \in Demands[c], Raise(c, d)
      PROVE  SharingInv'
  BY <1>1, RaiseKeeps
<1>2. ASSUME NEW c \in Asker, ChangePurchase(c)
      PROVE  SharingInv'
  BY <1>2, ChangePurchaseKeeps
<1>3. ASSUME NEW c \in Asker, ChangeSplit(c)
      PROVE  SharingInv'
  BY <1>3, ChangeSplitKeeps
<1>4. ASSUME NEW c \in Asker, ChangeBoth(c)
      PROVE  SharingInv'
  BY <1>4, ChangeBothKeeps
<1>5. ASSUME NEW p \in Person, ArchiveParticipant(p)
      PROVE  SharingInv'
  BY <1>5, ParticipantKeeps
<1>6. ASSUME NEW p \in Person, NEW i \in DOMAIN debt[p], SettleShare(p, i)
      PROVE  SharingInv'
  <2>1. debt[p][i] \in Item
    BY DEF SharingInv, SharingRows
  <2>2. debt[p][i].settled + 1 \in 0..debt[p][i].amount
    BY <1>6, <2>1 DEF SettleShare, Item
  <2>3. p \in known /\ ~debt[p][i].void /\ Adjusts(p, i, 1)
    BY <1>6 DEF SettleShare
  <2> QED
    BY <2>2, <2>3, AdjustKeeps
<1>7. ASSUME NEW p \in Person, NEW i \in DOMAIN debt[p], UnsettleShare(p, i)
      PROVE  SharingInv'
  <2>1. debt[p][i] \in Item /\ debt[p][i].settled <= IF debt[p][i].void THEN 0 ELSE debt[p][i].amount
    BY DEF SharingInv, SharingRows, PaidSharesKept
  <2>2. p \in known /\ debt[p][i].settled > 0 /\ Adjusts(p, i, -1)
    BY <1>7 DEF UnsettleShare
  <2>3. ~debt[p][i].void /\ debt[p][i].settled + (-1) \in 0..debt[p][i].amount
    BY <2>1, <2>2 DEF Item
  <2> QED
    BY <2>2, <2>3, AdjustKeeps
<1>8. CASE UNCHANGED sharingVars
  <2>1. UNCHANGED <<billed, shared, debt, known, demand, word>>
    BY <1>8 DEF sharingVars
  <2>2. SharingRows'
    BY <2>1 DEF SharingInv, SharingRows
  <2>3. OneStands' /\ PaidSharesKept' /\ ArchivedOweNothing'
    BY <2>1 DEF SharingInv, OneStands, Holding, PaidSharesKept, ArchivedOweNothing, Owes
  <2>4. Current'
    BY <2>1 DEF SharingInv, Current, Shares, Charged, Owns, Holding
  <2> QED
    BY <2>2, <2>3, <2>4 DEF SharingInv
<1> QED
  BY <1>1, <1>2, <1>3, <1>4, <1>5, <1>6, <1>7, <1>8 DEF SharingNext

-----------------------------------------------------------------------------
(* What stands is what is owed.                                            *)

LEMMA StandingIsOwed ==
  ASSUME SharingInv, NEW share \in [Person -> Nat], Owns(share), NEW p \in Person
  PROVE  Summed([i \in DOMAIN debt[p] |-> debt[p][i].amount], {i \in DOMAIN debt[p] : ~debt[p][i].void}) = share[p]
<1> DEFINE f == [i \in DOMAIN debt[p] |-> debt[p][i].amount]
           live == {i \in DOMAIN debt[p] : ~debt[p][i].void}
           h == Holding[p]
<1>1. /\ debt[p] \in Seq(Item) /\ h \in 0..Len(debt[p])
      /\ \A i \in DOMAIN debt[p] : debt[p][i].void <=> i # h
  BY DEF SharingInv, SharingRows, OneStands
<1>2. Summed(f, live) = SumFunctionOnSet(f, live)
  BY DEF Summed
<1>3. CASE share[p] = 0
  <2>1. h = 0
    BY <1>3 DEF Owns
  <2>2. live = {}
    BY <1>1, <2>1
  <2> QED
    BY <1>2, <1>3, <2>2, SumEmpty
<1>4. CASE share[p] # 0
  <2>1. h > 0 /\ debt[p][h].amount = share[p]
    BY <1>4 DEF Owns
  <2>2. live = {h} /\ h \in DOMAIN debt[p]
    BY <1>1, <2>1
  <2>3. f[h] = share[p]
    BY <2>1, <2>2
  <2>4. share[p] \in Int
    OBVIOUS
  <2> HIDE DEF f, live, h
  <2>5. IsFiniteSet({h}) /\ {h} \ {h} = {} /\ \A x \in {h} : f[x] \in Int
    BY <2>3, <2>4, FS_Singleton
  <2>6. SumFunctionOnSet(f, {h}) = f[h] + SumFunctionOnSet(f, {h} \ {h})
    BY <2>5, SumTakes
  <2>7. Summed(f, live) = share[p]
    BY <1>2, <2>2, <2>3, <2>5, <2>6, <2>4, SumEmpty
  <2> QED
    BY <2>7 DEF f, live
<1> QED
  BY <1>3, <1>4

LEMMA InvShares == SharingInv => SharesInStep
<1> SUFFICES ASSUME SharingInv PROVE SharesOwed
  BY DEF SharingInv, SharesInStep
<1> DEFINE live(p) == {i \in DOMAIN debt[p] : ~debt[p][i].void}
           owed == [p \in Person |-> Summed([i \in DOMAIN debt[p] |-> debt[p][i].amount], live(p))]
<1>1. ASSUME NEW share \in [Person -> Nat], Owns(share)
      PROVE  owed = share
  BY <1>1, StandingIsOwed
<1>2. CASE Shares(shared)
  <2> DEFINE latest == Last(shared)
             share == ShareOf(latest.ask, Last(billed).amount)
  <2>1. /\ Charged(billed) /\ latest.gross = Last(billed).amount /\ latest.ask.op \in {"share", "reshare"}
        /\ Allocates(latest.ask, Last(billed).amount) /\ Owns(share)
    BY <1>2 DEF SharingInv, Current
  <2>2. latest.ask \in Splits /\ Last(billed) \in Bills /\ Last(billed).op # "cancel"
    <3>1. shared # <<>> /\ billed # <<>>
      BY <1>2, <2>1 DEF Shares, Charged
    <3>2. /\ billed \in Seq(Bills)
          /\ shared \in Seq([ask : Splits, of : Nat, gross : Nat, item : [Person -> Nat]])
      BY DEF SharingInv, SharingRows
    <3>3. Last(shared) \in [ask : Splits, of : Nat, gross : Nat, item : [Person -> Nat]] /\ Last(billed) \in Bills
      BY <3>1, <3>2, LastIsIn
    <3> QED
      BY <2>1, <3>3 DEF Charged
  <2>3. share \in [Person -> Nat]
    BY <2>1, <2>2, BillTyped, ShareNatural
  <2>4. owed = share
    BY <1>1, <2>1, <2>3
  <2>5. Summed(share, Person) <= Last(billed).amount
    BY <2>1 DEF Allocates
  <2> HIDE DEF owed, share
  <2>6. owed = share /\ Summed(owed, Person) <= Last(billed).amount
    BY <2>4, <2>5
  <2> QED
    BY <1>2, <2>1, <2>6 DEF SharesOwed, owed, share
<1>3. CASE ~Shares(shared)
  <2>1. NoShare \in [Person -> Nat] /\ Owns(NoShare)
    BY <1>3 DEF SharingInv, Current, NoShare
  <2>2. owed = NoShare
    BY <1>1, <2>1
  <2> QED
    BY <1>3, <2>2 DEF SharesOwed
<1> QED
  BY <1>2, <1>3

\* SharesInStep: what the people owe for a shared purchase is at every moment
\* their part of its latest revision, each in one obligation; what a
\* participant paid stays covered, and nobody who was archived owes.
THEOREM SharesStayInStep == SharingSpec => []SharesInStep
<1>1. SharingSpec => []SharingInv
  BY StartsShared, StepKeepsShares, PTL DEF SharingSpec
<1> QED
  BY <1>1, InvShares, PTL

-----------------------------------------------------------------------------
(***************************************************************************)
(* CampaignRewards, for any requests, purchases and terms. A request's     *)
(* answer depends on the key (CampaignKeys), a revision on its number: it  *)
(* was stored by the request whose expectation was the length of the       *)
(* chain (ChainStored). A credit holds the period and its cards while it   *)
(* is computed, so no revision and no change of a price comes between      *)
(* (ProgressStands); there is at most one, and what it gave is the         *)
(* balance and what was spent of it. A proposal that is being applied is   *)
(* pending, and nobody else's (ApplyingPending), which is what its row     *)
(* lock is for: it becomes one revision, with the terms that were          *)
(* proposed (Became).                                                      *)
(***************************************************************************)

AnyTerms == {q.terms : q \in UNION {Calls[c] : c \in Campaigner}}
            \cup UNION {{s[n].terms : n \in DOMAIN s} : s \in Starts}
PeriodRevision == [by : Campaigner \cup {NoVerdict}, life : Lives, visible : BOOLEAN, terms : AnyTerms]

CampaignRows == CampaignTypeOK /\ periodChain \in Seq(PeriodRevision)

\* A key is stored once, and a replay is answered as what it repeats.
CallsAnswered == \A c \in Campaigner : call[c] = NoCall => fate[c] = NoVerdict
KeysOnce ==
    \A c, d \in Campaigner :
        fate[c] = "stored" /\ fate[d] = "stored" /\ call[c].key = call[d].key
        /\ TableFor(call[c].op) = TableFor(call[d].op) => c = d
ReplaysBound ==
    \A d \in Campaigner : fate[d] = "replayed" =>
        \E e \in Campaigner : fate[e] = "stored" /\ call[e] = call[d] /\ boundTo[e] = boundTo[d]
ReceiptsBound ==
    \A c \in Campaigner : fate[c] = "stored" /\ TableFor(call[c].op) = "receipts" =>
        boundTo[c] \in Campaigner /\ proposal[boundTo[c]].status # "none"
CampaignKeys == CallsAnswered /\ KeysOnce /\ ReplaysBound /\ ReceiptsBound

\* A revision is that of a request that was stored, and builds on the one before.
ChainStored ==
    \A n \in 1..Len(periodChain) : periodChain[n].by # NoVerdict =>
        /\ periodChain[n].by \in Campaigner /\ fate[periodChain[n].by] = "stored"
        /\ call[periodChain[n].by].expected = n - 1

\* So is a credit, and a proposal.
CreditsStored ==
    /\ \A c \in credited : fate[c] = "stored" /\ call[c].op = "CREDIT"
    /\ (\A c, d \in credited : c = d) /\ CreditedOnce
ProposalsStored == \A x \in Campaigner : proposal[x].status # "none" => fate[x] = "stored" /\ call[x].op = "PROPOSE"

\* A proposal that is being applied is pending, and nobody else applies it.
ApplyingPending ==
    \A c \in Campaigner : Pursues(c, "APPLY") =>
        /\ proposal[call[c].proposal].status = "PENDING"
        /\ \A d \in Campaigner : Pursues(d, "APPLY") /\ call[d].proposal = call[c].proposal => d = c
Became ==
    /\ \A x \in Campaigner :
          IF proposal[x].status = "APPLIED"
          THEN /\ proposal[x].became \in 1..Len(periodChain)
               /\ periodChain[proposal[x].became].terms = TermsOf(x)
          ELSE proposal[x].became = 0
    /\ \A x, y \in Campaigner : proposal[x].became = proposal[y].became /\ proposal[x].became # 0 => x = y
    /\ \A n \in 1..Len(periodChain) : periodChain[n].by # NoVerdict /\ call[periodChain[n].by].op = "APPLY" =>
          \E x \in Campaigner : proposal[x].became = n
CampaignProposals == ProposalsStored /\ ApplyingPending /\ OnePendingAlike /\ Became

CampaignInv == CampaignRows /\ CampaignKeys /\ ChainStored /\ CreditsStored /\ CampaignProposals /\ ProgressStands

-----------------------------------------------------------------------------
(* A step of one request.                                                  *)

Fates == {"stored", "replayed", "conflict", "refused", NoVerdict}

\* It goes on with what it asks for, which no other step changes.
Moves(c) ==
    /\ fate[c] = NoVerdict /\ (call[c] # NoCall => call'[c] = call[c])
    /\ call'[c] \in Calls[c] /\ fate'[c] \in Fates
    /\ DOMAIN call' = Campaigner /\ \A d \in Campaigner \ {c} : call'[d] = call[d]
    /\ fate' = [fate EXCEPT ![c] = fate'[c]]

LEMMA CallTyped ==
  ASSUME NEW c \in Campaigner, NEW q \in Calls[c]
  PROVE  /\ q.op \in Revising \cup {"RULE", "CREDIT", "VOID", "PROPOSE", "APPLY", "DISMISS"}
         /\ q # NoCall
         /\ q.op \in Revising \cup {"APPLY"} => q.expected \in Nat
         /\ q.op = "RULE" => q.purchase \in Bought /\ q.ruling \in RulingKinds
         /\ q.op = "CREDIT" => q.points \in Nat
         /\ q.op \in {"APPLY", "DISMISS"} => q.proposal \in Campaigner
<1>1. /\ q.op \in Revising \cup {"RULE", "CREDIT", "VOID", "PROPOSE", "APPLY", "DISMISS"}
      /\ q.op \in Revising \cup {"APPLY"} => q.expected \in Nat
      /\ q.op = "RULE" => q.purchase \in Bought /\ q.ruling \in RulingKinds
      /\ q.op = "CREDIT" => q.points \in Nat
      /\ q.op \in {"APPLY", "DISMISS"} => q.proposal \in Campaigner
  BY CampaignAssumption
<1>2. NoCall.op = "none"
  BY DEF NoCall
<1>3. q # NoCall
  BY <1>1, <1>2 DEF Revising
<1> QED
  BY <1>1, <1>3

LEMMA Moved ==
  ASSUME CampaignRows, NEW c \in Campaigner, Moves(c)
  PROVE  /\ \A d \in Campaigner \ {c} : call'[d] = call[d] /\ fate'[d] = fate[d]
         /\ \A d \in Campaigner : fate[d] # NoVerdict => d # c /\ call'[d] = call[d] /\ fate'[d] = fate[d]
         /\ call'[c] # NoCall
         /\ DOMAIN call' = Campaigner /\ \A d \in Campaigner : call'[d] \in Calls[d] \cup {NoCall}
         /\ fate' \in [Campaigner -> Fates]
<1>1. DOMAIN call = Campaigner /\ (\A d \in Campaigner : call[d] \in Calls[d] \cup {NoCall}) /\ fate \in [Campaigner -> Fates]
  BY DEF CampaignRows, CampaignTypeOK, Fates
<1>2. call'[c] # NoCall
  BY CallTyped DEF Moves
<1> QED
  BY <1>1, <1>2 DEF Moves

\* What a step does to the answers keeps them in step with the keys.
AnsweredAs(c, q) ==
    \/ fate'[c] \in {"refused", "conflict", NoVerdict}
    \/ /\ fate'[c] = "replayed" /\ SameAsked(q) # {}
       /\ boundTo'[c] = boundTo[CHOOSE d \in SameAsked(q) : TRUE]
    \/ /\ fate'[c] = "stored" /\ EarlierCalls(q) = {}
       /\ TableFor(q.op) = "receipts" => boundTo'[c] \in Campaigner /\ proposal'[boundTo'[c]].status # "none"

LEMMA KeysKept ==
  ASSUME CampaignRows, CampaignKeys, NEW c \in Campaigner, Moves(c), AnsweredAs(c, call'[c]),
         \A d \in Campaigner \ {c} : boundTo'[d] = boundTo[d],
         \A x \in Campaigner : proposal[x].status # "none" => proposal'[x].status # "none"
  PROVE  CampaignKeys'
<1> DEFINE q == call'[c]
<1>1. /\ \A d \in Campaigner \ {c} : call'[d] = call[d] /\ fate'[d] = fate[d] /\ boundTo'[d] = boundTo[d]
      /\ \A d \in Campaigner : fate[d] # NoVerdict =>
            d # c /\ call'[d] = call[d] /\ fate'[d] = fate[d] /\ boundTo'[d] = boundTo[d]
      /\ q # NoCall /\ fate[c] = NoVerdict
  BY Moved DEF Moves
<1>2. \A d \in Campaigner : fate[d] \in {"stored", "replayed"} =>
        d # c /\ call'[d] = call[d] /\ fate'[d] = fate[d] /\ boundTo'[d] = boundTo[d]
  BY <1>1, CampaignAssumption
<1>3. CallsAnswered'
  BY <1>1 DEF CampaignKeys, CallsAnswered
<1>4. ASSUME NEW d \in Campaigner, fate'[d] = "stored", d # c
      PROVE  fate[d] = "stored" /\ call'[d] = call[d] /\ boundTo'[d] = boundTo[d]
  BY <1>1, <1>4
<1>5. ASSUME fate'[c] = "stored", NEW d \in Campaigner, fate'[d] = "stored",
             q.key = call'[d].key, TableFor(q.op) = TableFor(call'[d].op)
      PROVE  d = c
  <2>1. EarlierCalls(q) = {}
    BY <1>5, CampaignAssumption DEF AnsweredAs
  <2> SUFFICES ASSUME d # c PROVE FALSE
    OBVIOUS
  <2>2. fate[d] = "stored" /\ call'[d] = call[d]
    BY <1>4, <1>5
  <2>3. d \in EarlierCalls(q)
    BY <1>5, <2>2 DEF EarlierCalls
  <2> QED
    BY <2>1, <2>3
<1>6. KeysOnce'
  <2>1. ASSUME NEW d \in Campaigner, NEW e \in Campaigner, fate'[d] = "stored", fate'[e] = "stored",
               call'[d].key = call'[e].key, TableFor(call'[d].op) = TableFor(call'[e].op)
        PROVE  d = e
    <3>1. CASE d = c
      BY <1>5, <2>1, <3>1
    <3>2. CASE e = c
      BY <1>5, <2>1, <3>2
    <3>3. CASE d # c /\ e # c
      BY <1>4, <2>1, <3>3 DEF CampaignKeys, KeysOnce
    <3> QED
      BY <3>1, <3>2, <3>3
  <2> QED
    BY <2>1 DEF KeysOnce
<1>7. ReplaysBound'
  <2>1. ASSUME NEW d \in Campaigner, fate'[d] = "replayed", d # c
        PROVE  \E e \in Campaigner : fate'[e] = "stored" /\ call'[e] = call'[d] /\ boundTo'[e] = boundTo'[d]
    <3>1. fate[d] = "replayed"
      BY <1>1, <2>1
    <3>2. PICK e \in Campaigner : fate[e] = "stored" /\ call[e] = call[d] /\ boundTo[e] = boundTo[d]
      BY <3>1 DEF CampaignKeys, ReplaysBound
    <3> QED
      BY <1>2, <3>1, <3>2
  <2>2. ASSUME fate'[c] = "replayed"
        PROVE  \E e \in Campaigner : fate'[e] = "stored" /\ call'[e] = call'[c] /\ boundTo'[e] = boundTo'[c]
    <3>1. SameAsked(q) # {} /\ boundTo'[c] = boundTo[CHOOSE d \in SameAsked(q) : TRUE]
      BY <2>2, CampaignAssumption DEF AnsweredAs
    <3>2. PICK e \in SameAsked(q) : boundTo'[c] = boundTo[e]
      BY <3>1
    <3>3. e \in Campaigner /\ fate[e] = "stored" /\ call[e] = q
      BY <3>2 DEF SameAsked, EarlierCalls
    <3> QED
      BY <1>2, <3>2, <3>3
  <2> QED
    BY <2>1, <2>2 DEF ReplaysBound
<1>8. ReceiptsBound'
  <2>1. ASSUME NEW d \in Campaigner, fate'[d] = "stored", TableFor(call'[d].op) = "receipts", d # c
        PROVE  boundTo'[d] \in Campaigner /\ proposal'[boundTo'[d]].status # "none"
    BY <1>4, <2>1 DEF CampaignKeys, ReceiptsBound
  <2>2. ASSUME fate'[c] = "stored", TableFor(q.op) = "receipts"
        PROVE  boundTo'[c] \in Campaigner /\ proposal'[boundTo'[c]].status # "none"
    BY <2>2, CampaignAssumption DEF AnsweredAs
  <2> QED
    BY <2>1, <2>2 DEF ReceiptsBound, TableFor, Revising
<1> QED
  BY <1>3, <1>6, <1>7, <1>8 DEF CampaignKeys

\* A step that answers nobody.
LEMMA KeysUnmoved ==
  ASSUME CampaignKeys, UNCHANGED <<fate, call, boundTo, proposal>>
  PROVE  CampaignKeys'
<1>1. CallsAnswered' /\ ReplaysBound'
  BY DEF CampaignKeys, CallsAnswered, ReplaysBound
<1>2. KeysOnce'
  BY DEF CampaignKeys, KeysOnce
<1>3. ReceiptsBound'
  BY DEF CampaignKeys, ReceiptsBound, TableFor, Revising
<1> QED
  BY <1>1, <1>2, <1>3 DEF CampaignKeys

-----------------------------------------------------------------------------
(* What a step leaves of the chain, the credits and the proposals.         *)

\* The requests that made something stay as they are.
StoredStay == \A d \in Campaigner : fate[d] = "stored" => fate'[d] = "stored" /\ call'[d] = call[d]

LEMMA MovedStoredStay ==
  ASSUME CampaignRows, NEW c \in Campaigner, Moves(c)
  PROVE  StoredStay
BY Moved, CampaignAssumption DEF StoredStay

LEMMA ChainUnmovedStored ==
  ASSUME ChainStored, StoredStay, UNCHANGED periodChain
  PROVE  ChainStored'
BY DEF ChainStored, StoredStay

LEMMA CreditsUnmoved ==
  ASSUME CampaignRows, CreditsStored, StoredStay, UNCHANGED <<credited, earned, redeemed>>
  PROVE  CreditsStored'
<1>1. \A c \in credited : c \in Campaigner /\ fate[c] = "stored"
  BY DEF CampaignRows, CampaignTypeOK, CreditsStored
<1>2. [c \in credited' |-> call'[c].points] = [c \in credited |-> call[c].points]
  BY <1>1 DEF StoredStay
<1>3. CreditedOnce'
  BY <1>2 DEF CreditsStored, CreditedOnce
<1> QED
  BY <1>1, <1>3 DEF CreditsStored, StoredStay

LEMMA ProgressKept ==
  ASSUME ProgressStands, UNCHANGED <<periodChain, price>>,
         \A c \in Campaigner : sight'[c].of = "progress" => sight'[c] = sight[c]
  PROVE  ProgressStands'
BY DEF ProgressStands

\* Nobody starts to apply a proposal, and none changes.
LEMMA ProposalsUnmoved ==
  ASSUME CampaignRows, CampaignProposals, ChainStored, StoredStay, UNCHANGED <<periodChain, proposal>>,
         \A c \in Campaigner : Pursues(c, "APPLY")' => Pursues(c, "APPLY") /\ call'[c] = call[c]
  PROVE  CampaignProposals'
<1>1. \A x \in Campaigner : proposal[x].status # "none" => fate[x] = "stored" /\ call'[x] = call[x] /\ fate'[x] = "stored"
  BY DEF CampaignProposals, ProposalsStored, StoredStay
<1>2. ProposalsStored'
  BY <1>1 DEF CampaignProposals, ProposalsStored
<1>3. ApplyingPending'
  BY DEF CampaignProposals, ApplyingPending
<1>4. OnePendingAlike'
  BY <1>1 DEF CampaignProposals, OnePendingAlike, TermsOf
<1>5. Became'
  <2>1. \A n \in 1..Len(periodChain) : periodChain[n].by # NoVerdict => call'[periodChain[n].by] = call[periodChain[n].by]
    BY DEF ChainStored, StoredStay
  <2> QED
    BY <1>1, <2>1 DEF CampaignProposals, Became, TermsOf
<1> QED
  BY <1>2, <1>3, <1>4, <1>5 DEF CampaignProposals

\* A request that makes no revision, credit or proposal.
BooksStay(c) ==
    /\ Moves(c) /\ AnsweredAs(c, call'[c])
    /\ \A d \in Campaigner \ {c} : boundTo'[d] = boundTo[d]
    /\ boundTo' \in [Campaigner -> Campaigner \cup {NoVerdict}]
    /\ UNCHANGED <<periodChain, credited, earned, proposal, price, redeemed>>
    /\ rulings' \in [Bought -> Seq(RulingKinds)]
    /\ DOMAIN sight' = Campaigner /\ \A d \in Campaigner : sight'[d].of \in {"nothing", "progress", "credit"}
    /\ \A d \in Campaigner : sight'[d].of = "progress" => sight'[d] = sight[d]

LEMMA BooksStand ==
  ASSUME CampaignInv, NEW c \in Campaigner, BooksStay(c)
  PROVE  CampaignRows' /\ CampaignKeys' /\ ChainStored' /\ CreditsStored' /\ ProgressStands' /\ StoredStay
<1>1. CampaignRows /\ CampaignKeys /\ ChainStored /\ CreditsStored /\ CampaignProposals /\ ProgressStands
  BY DEF CampaignInv
<1>2. StoredStay
  BY <1>1, MovedStoredStay DEF BooksStay
<1>3. CampaignRows'
  <2>1. /\ DOMAIN call' = Campaigner /\ \A d \in Campaigner : call'[d] \in Calls[d] \cup {NoCall}
        /\ fate' \in [Campaigner -> Fates]
    BY <1>1, Moved DEF BooksStay
  <2> QED
    BY <1>1, <2>1 DEF BooksStay, CampaignRows, CampaignTypeOK, Fates
<1>4. CampaignKeys'
  BY <1>1, KeysKept DEF BooksStay
<1>5. ChainStored' /\ CreditsStored' /\ ProgressStands'
  BY <1>1, <1>2, ChainUnmovedStored, CreditsUnmoved, ProgressKept DEF BooksStay
<1> QED
  BY <1>2, <1>3, <1>4, <1>5

LEMMA BooksUnmoved ==
  ASSUME CampaignInv, NEW c \in Campaigner, BooksStay(c),
         call'[c].op = "APPLY" => call'[c] = call[c] \/ fate'[c] # NoVerdict
  PROVE  CampaignInv'
<1>1. CampaignRows' /\ CampaignKeys' /\ ChainStored' /\ CreditsStored' /\ ProgressStands' /\ StoredStay
  BY BooksStand
<1>2. ASSUME NEW d \in Campaigner, Pursues(d, "APPLY")'
      PROVE  Pursues(d, "APPLY") /\ call'[d] = call[d]
  <2>1. CASE d = c
    BY <1>2, <2>1 DEF Pursues, BooksStay, Moves
  <2>2. CASE d # c
    BY <1>2, <2>2, Moved DEF Pursues, BooksStay, CampaignInv
  <2> QED
    BY <2>1, <2>2
<1>3. CampaignProposals'
  BY <1>1, <1>2, ProposalsUnmoved DEF CampaignInv, BooksStay
<1> QED
  BY <1>1, <1>3 DEF CampaignInv

-----------------------------------------------------------------------------
(* Requests that are answered with what is there.                          *)

LEMMA ReplayAnswers ==
  ASSUME CampaignRows, NEW c \in Campaigner, NEW q, ReplayCall(c, q)
  PROVE  /\ fate'[c] \in {"replayed", "conflict"} /\ fate' = [fate EXCEPT ![c] = fate'[c]]
         /\ AnsweredAs(c, q) /\ boundTo' \in [Campaigner -> Campaigner \cup {NoVerdict}]
         /\ \A d \in Campaigner \ {c} : boundTo'[d] = boundTo[d]
         /\ UNCHANGED <<periodChain, rulings, credited, earned, proposal>>
<1>1. boundTo \in [Campaigner -> Campaigner \cup {NoVerdict}] /\ fate \in [Campaigner -> Fates]
  BY DEF CampaignRows, CampaignTypeOK, Fates
<1>2. SameAsked(q) \subseteq Campaigner
  BY DEF SameAsked, EarlierCalls
<1> DEFINE first == CHOOSE d \in SameAsked(q) : TRUE
<1>3. CASE SameAsked(q) # {}
  <2>1. first \in Campaigner
    BY <1>2, <1>3
  <2>2. boundTo[first] \in Campaigner \cup {NoVerdict}
    BY <1>1, <2>1
  <2>3. fate' = [fate EXCEPT ![c] = "replayed"] /\ boundTo' = [boundTo EXCEPT ![c] = boundTo[first]]
    BY <1>3 DEF ReplayCall
  <2> HIDE DEF first
  <2>4. fate'[c] = "replayed" /\ boundTo'[c] = boundTo[first] /\ boundTo' \in [Campaigner -> Campaigner \cup {NoVerdict}]
    BY <1>1, <2>2, <2>3
  <2>5. AnsweredAs(c, q)
    BY <1>3, <2>4 DEF AnsweredAs, first
  <2> QED
    BY <1>1, <2>3, <2>4, <2>5 DEF ReplayCall
<1>4. CASE SameAsked(q) = {}
  <2>1. fate' = [fate EXCEPT ![c] = "conflict"] /\ boundTo' = [boundTo EXCEPT ![c] = NoVerdict]
    BY <1>4 DEF ReplayCall
  <2>2. fate'[c] = "conflict"
    BY <1>1, <2>1
  <2> QED
    BY <1>1, <2>1, <2>2 DEF ReplayCall, AnsweredAs
<1> QED
  BY <1>3, <1>4

LEMMA RequestKeeps ==
  ASSUME CampaignInv, NEW c \in Campaigner, NEW q \in Calls[c], LookUp(c, q)
  PROVE  CampaignInv'
<1>1. /\ CampaignRows /\ call[c] = NoCall /\ fate[c] = NoVerdict /\ q.op # "APPLY"
      /\ call' = [call EXCEPT ![c] = q] /\ UNCHANGED <<price, redeemed, sight>>
  BY DEF CampaignInv, CampaignKeys, CallsAnswered, LookUp, shopVars
<1>2. /\ DOMAIN call = Campaigner /\ fate \in [Campaigner -> Fates] /\ rulings \in [Bought -> Seq(RulingKinds)]
      /\ boundTo \in [Campaigner -> Campaigner \cup {NoVerdict}]
      /\ DOMAIN sight = Campaigner /\ \A d \in Campaigner : sight[d].of \in {"nothing", "progress", "credit"}
  BY <1>1 DEF CampaignRows, CampaignTypeOK, Fates
<1>3. call'[c] = q
  BY <1>1, <1>2
<1>4. /\ fate'[c] \in Fates /\ fate' = [fate EXCEPT ![c] = fate'[c]] /\ AnsweredAs(c, q)
      /\ boundTo' \in [Campaigner -> Campaigner \cup {NoVerdict}]
      /\ \A d \in Campaigner \ {c} : boundTo'[d] = boundTo[d]
      /\ UNCHANGED <<periodChain, rulings, credited, earned, proposal>>
  <2>1. CASE EarlierCalls(q) # {}
    <3>1. ReplayCall(c, q)
      BY <2>1 DEF LookUp
    <3> QED
      BY <1>1, <3>1, ReplayAnswers DEF Fates
  <2>2. CASE EarlierCalls(q) = {}
    <3>1. UNCHANGED <<fate, periodChain, rulings, credited, earned, proposal, boundTo>>
      BY <2>2 DEF LookUp, bookVars
    <3> QED
      BY <1>1, <1>2, <3>1 DEF AnsweredAs
  <2> QED
    BY <2>1, <2>2
<1>5. Moves(c)
  BY <1>1, <1>2, <1>3, <1>4 DEF Moves
<1>6. /\ rulings' \in [Bought -> Seq(RulingKinds)] /\ DOMAIN sight' = Campaigner
      /\ \A d \in Campaigner : sight'[d].of \in {"nothing", "progress", "credit"} /\ sight'[d] = sight[d]
  BY <1>1, <1>2, <1>4
<1>7. AnsweredAs(c, call'[c]) /\ call'[c].op # "APPLY"
  BY <1>1, <1>3, <1>4
<1> QED
  BY <1>1, <1>4, <1>5, <1>6, <1>7, BooksUnmoved DEF BooksStay

\* A request that goes on, or is declined.
Rested == \A d \in Campaigner : sight'[d].of = "progress" => sight'[d] = sight[d]
Sights == DOMAIN sight' = Campaigner /\ \A d \in Campaigner : sight'[d].of \in {"nothing", "progress", "credit"}

LEMMA OwnAnswer ==
  ASSUME CampaignInv, NEW c \in Campaigner, call[c] # NoCall, fate[c] = NoVerdict, UNCHANGED call,
         NEW v \in Fates, fate' = [fate EXCEPT ![c] = v]
  PROVE  Moves(c) /\ fate'[c] = v /\ call'[c] = call[c] /\ call[c] \in Calls[c] /\ StoredStay
<1>1. CampaignRows /\ DOMAIN call = Campaigner /\ call[c] \in Calls[c] /\ fate \in [Campaigner -> Fates]
  BY DEF CampaignInv, CampaignRows, CampaignTypeOK, Fates
<1>2. Moves(c)
  BY <1>1 DEF Moves
<1> QED
  BY <1>1, <1>2, MovedStoredStay

LEMMA UnmovedKeeps ==
  ASSUME CampaignInv, NEW c \in Campaigner, call[c] # NoCall, fate[c] = NoVerdict,
         NEW v \in {"refused", "conflict", NoVerdict}, fate' = [fate EXCEPT ![c] = v],
         UNCHANGED <<bookVars, shopVars, call>>, Sights, Rested
  PROVE  CampaignInv'
<1>1. Moves(c) /\ fate'[c] = v /\ call'[c] = call[c] /\ call[c] \in Calls[c]
  BY OwnAnswer DEF Fates
<1>2. AnsweredAs(c, call'[c])
  BY <1>1 DEF AnsweredAs
<1>3. UNCHANGED <<periodChain, rulings, credited, earned, proposal, boundTo, price, redeemed>>
  BY DEF bookVars, shopVars
<1>4. boundTo' \in [Campaigner -> Campaigner \cup {NoVerdict}] /\ rulings' \in [Bought -> Seq(RulingKinds)]
  BY <1>3 DEF CampaignInv, CampaignRows, CampaignTypeOK
<1> QED
  BY <1>1, <1>2, <1>3, <1>4, BooksUnmoved DEF BooksStay, Sights, Rested

LEMMA SightsReset ==
  ASSUME CampaignInv, NEW c \in Campaigner, sight' = [sight EXCEPT ![c] = NoSight] \/ sight' = sight
  PROVE  Sights /\ Rested
<1>1. DOMAIN sight = Campaigner /\ \A d \in Campaigner : sight[d].of \in {"nothing", "progress", "credit"}
  BY DEF CampaignInv, CampaignRows, CampaignTypeOK
<1>2. NoSight.of = "nothing"
  BY DEF NoSight
<1>3. CASE sight' = sight
  BY <1>1, <1>3 DEF Sights, Rested
<1>4. CASE sight' = [sight EXCEPT ![c] = NoSight]
  <2>1. DOMAIN sight' = Campaigner /\ \A d \in Campaigner : sight'[d] = IF d = c THEN NoSight ELSE sight[d]
    BY <1>1, <1>4
  <2> QED
    BY <1>1, <1>2, <2>1 DEF Sights, Rested
<1> QED
  BY <1>3, <1>4

\* A request whose rows are written, and one whose are not.
Storing(c) ==
    /\ EarlierCalls(call[c]) = {} /\ fate' = [fate EXCEPT ![c] = "stored"]
    /\ sight' = [sight EXCEPT ![c] = NoSight] /\ UNCHANGED <<price, redeemed, call>>
Declining(c) ==
    /\ \E v \in {"refused", "conflict"} : fate' = [fate EXCEPT ![c] = v]
    /\ sight' = [sight EXCEPT ![c] = NoSight] /\ UNCHANGED <<bookVars, shopVars, call>>

LEMMA DecliningKeeps ==
  ASSUME CampaignInv, NEW c \in Campaigner, call[c] # NoCall, fate[c] = NoVerdict, Declining(c)
  PROVE  CampaignInv'
BY UnmovedKeeps, SightsReset DEF Declining

\* What a stored request does not change.
LEMMA StoringKeeps ==
  ASSUME CampaignInv, NEW c \in Campaigner, call[c] # NoCall, fate[c] = NoVerdict, Storing(c),
         \A d \in Campaigner \ {c} : boundTo'[d] = boundTo[d],
         TableFor(call[c].op) = "receipts" => boundTo'[c] \in Campaigner /\ proposal'[boundTo'[c]].status # "none",
         \A x \in Campaigner : proposal[x].status # "none" => proposal'[x].status # "none"
  PROVE  /\ CampaignKeys' /\ StoredStay /\ call[c] \in Calls[c] /\ fate'[c] = "stored"
         /\ DOMAIN call' = Campaigner /\ \A d \in Campaigner : call'[d] \in Calls[d] \cup {NoCall}
         /\ fate' \in [Campaigner -> Fates] /\ Sights /\ Rested
         /\ \A d \in Campaigner : Pursues(d, "APPLY")' => Pursues(d, "APPLY") /\ d # c
<1>1. Moves(c) /\ fate'[c] = "stored" /\ call'[c] = call[c] /\ call[c] \in Calls[c] /\ StoredStay
  BY OwnAnswer DEF Storing, Fates
<1>2. AnsweredAs(c, call'[c])
  BY <1>1 DEF AnsweredAs, Storing
<1>3. CampaignKeys'
  BY <1>1, <1>2, KeysKept DEF CampaignInv
<1>4. Sights /\ Rested
  BY SightsReset DEF Storing
<1>5. /\ DOMAIN call' = Campaigner /\ \A d \in Campaigner : call'[d] \in Calls[d] \cup {NoCall}
      /\ fate' \in [Campaigner -> Fates] /\ \A d \in Campaigner \ {c} : fate'[d] = fate[d]
  BY <1>1, Moved DEF CampaignInv
<1>6. \A d \in Campaigner : Pursues(d, "APPLY")' => Pursues(d, "APPLY") /\ d # c
  <2>1. "stored" # NoVerdict
    BY CampaignAssumption
  <2> QED
    BY <1>1, <1>5, <2>1 DEF Pursues, Storing
<1> QED
  BY <1>1, <1>3, <1>4, <1>5, <1>6

-----------------------------------------------------------------------------
(* The chain of the period.                                                *)

LEMMA ChainGrows ==
  ASSUME CampaignInv, NEW c \in Campaigner, StoredStay, fate'[c] = "stored", call'[c] = call[c], ~PeriodHeld, Rested,
         NEW new \in PeriodRevision, new.by = c, call[c].expected = Len(periodChain), periodChain' = Append(periodChain, new)
  PROVE  /\ periodChain' \in Seq(PeriodRevision) /\ Len(periodChain') = Len(periodChain) + 1 /\ Len(periodChain) \in Nat
         /\ periodChain'[Len(periodChain) + 1] = new
         /\ \A n \in 1..Len(periodChain) : periodChain'[n] = periodChain[n]
         /\ ChainStored' /\ ProgressStands'
         /\ \A n \in DOMAIN periodChain' : periodChain'[n].life \in Lives
<1>1. periodChain \in Seq(PeriodRevision)
  BY DEF CampaignInv, CampaignRows
<1>2. /\ periodChain' \in Seq(PeriodRevision) /\ Len(periodChain') = Len(periodChain) + 1 /\ Len(periodChain) \in Nat
      /\ periodChain'[Len(periodChain) + 1] = new
      /\ \A n \in 1..Len(periodChain) : periodChain'[n] = periodChain[n]
  BY <1>1
<1>3. ChainStored'
  <2>1. ASSUME NEW n \in 1..(Len(periodChain) + 1), periodChain'[n].by # NoVerdict
        PROVE  /\ periodChain'[n].by \in Campaigner /\ fate'[periodChain'[n].by] = "stored"
               /\ call'[periodChain'[n].by].expected = n - 1
    <3>1. CASE n \in 1..Len(periodChain)
      <4>1. periodChain'[n] = periodChain[n]
        BY <1>2, <3>1
      <4>2. /\ periodChain[n].by \in Campaigner /\ fate[periodChain[n].by] = "stored"
            /\ call[periodChain[n].by].expected = n - 1
        BY <2>1, <3>1, <4>1 DEF CampaignInv, ChainStored
      <4> QED
        BY <4>1, <4>2 DEF StoredStay
    <3>2. CASE n = Len(periodChain) + 1
      BY <1>2, <3>2
    <3> QED
      BY <1>2, <3>1, <3>2
  <2> QED
    BY <1>2, <2>1 DEF ChainStored
<1>4. ProgressStands'
  BY DEF ProgressStands, PeriodHeld, Rested
<1>5. \A n \in DOMAIN periodChain' : periodChain'[n].life \in Lives
  <2>1. ASSUME NEW n \in DOMAIN periodChain'
        PROVE  periodChain'[n] \in PeriodRevision
    BY <1>2
  <2> QED
    BY <2>1 DEF PeriodRevision
<1> QED
  BY <1>2, <1>3, <1>4, <1>5

LEMMA TermsAsked ==
  ASSUME NEW c \in Campaigner, NEW q \in Calls[c]
  PROVE  q.terms \in AnyTerms
BY DEF AnyTerms

LEMMA FirstTyped ==
  ASSUME NEW c \in Campaigner, NEW terms \in AnyTerms, NEW new,
         new = [by |-> c, life |-> "REVIEW_REQUIRED", visible |-> TRUE, terms |-> terms]
  PROVE  new \in PeriodRevision /\ new.by = c
BY DEF PeriodRevision, Lives

\* What follows a revision of the chain.
LEMMA RevisionTyped ==
  ASSUME CampaignInv, NEW n \in 1..Len(periodChain)
  PROVE  periodChain[n] \in PeriodRevision /\ periodChain[n].terms \in AnyTerms
<1>1. periodChain[n] \in PeriodRevision
  BY DEF CampaignInv, CampaignRows
<1> QED
  BY <1>1 DEF PeriodRevision

LEMMA SuccessorTyped ==
  ASSUME NEW c \in Campaigner, NEW op, NEW terms \in AnyTerms, NEW r \in PeriodRevision,
         NEW new, new = Successor(c, op, terms, r)
  PROVE  new \in PeriodRevision /\ new.by = c /\ new.terms = terms
<1>1. r.life \in Lives /\ r.visible \in BOOLEAN
  BY DEF PeriodRevision
<1>2. LifeAfter(op, r.life) \in Lives
  BY <1>1 DEF LifeAfter, Lives
<1> QED
  BY <1>1, <1>2 DEF Successor, PeriodRevision

LEMMA RevisionKeeps ==
  ASSUME CampaignInv, NEW c \in Campaigner, StoreRevision(c)
  PROVE  CampaignInv'
<1> DEFINE q == call[c]
           new == IF q.op = "CREATE"
                  THEN [by |-> c, life |-> "REVIEW_REQUIRED", visible |-> TRUE, terms |-> q.terms]
                  ELSE Successor(c, q.op, IF q.op = "AMEND" THEN q.terms ELSE periodChain[q.expected].terms,
                                 periodChain[q.expected])
<1>1. /\ q.op \in Revising /\ fate[c] = NoVerdict /\ ~PeriodHeld
      /\ \/ Declining(c)
         \/ /\ Storing(c) /\ MayFollow(q.expected, q.op) /\ periodChain' = Append(periodChain, new)
            /\ UNCHANGED <<rulings, credited, earned, proposal, boundTo>>
  BY DEF StoreRevision, StoreUnder, Declining, Storing, Answer, shopVars
<1>2. q # NoCall
  BY <1>1 DEF NoCall, Revising
<1>3. CASE Declining(c)
  BY <1>1, <1>2, <1>3, DecliningKeeps
<1>4. CASE /\ Storing(c) /\ MayFollow(q.expected, q.op) /\ periodChain' = Append(periodChain, new)
           /\ UNCHANGED <<rulings, credited, earned, proposal, boundTo>>
  <2>1. TableFor(q.op) # "receipts" /\ q.op # "APPLY"
    BY <1>1 DEF TableFor, Revising
  <2>2. /\ CampaignKeys' /\ StoredStay /\ q \in Calls[c] /\ fate'[c] = "stored"
        /\ DOMAIN call' = Campaigner /\ \A d \in Campaigner : call'[d] \in Calls[d] \cup {NoCall}
        /\ fate' \in [Campaigner -> Fates] /\ Sights /\ Rested
        /\ \A d \in Campaigner : Pursues(d, "APPLY")' => Pursues(d, "APPLY") /\ d # c
    BY <1>1, <1>2, <1>4, <2>1, StoringKeeps
  <2>3. UNCHANGED <<call, price, redeemed, rulings, credited, earned, proposal, boundTo>>
    BY <1>4 DEF Storing
  <2>4. q.expected \in Nat /\ q.expected = Len(periodChain) /\ (q.op # "CREATE" => q.expected \in 1..Len(periodChain))
    <3>1. q.expected \in Nat
      BY <1>1, <2>2, CallTyped
    <3> QED
      BY <1>4, <3>1 DEF MayFollow
  <2>5. new \in PeriodRevision /\ new.by = c
    <3>1. q.terms \in AnyTerms
      BY <2>2, TermsAsked
    <3>2. CASE q.op = "CREATE"
      <4>1. new = [by |-> c, life |-> "REVIEW_REQUIRED", visible |-> TRUE, terms |-> q.terms]
        BY <3>2
      <4> HIDE DEF new
      <4> QED
        BY <3>1, <4>1, FirstTyped
    <3>3. CASE q.op # "CREATE"
      <4> DEFINE terms == IF q.op = "AMEND" THEN q.terms ELSE periodChain[q.expected].terms
      <4>1. new = Successor(c, q.op, terms, periodChain[q.expected])
        BY <3>3
      <4>2. q.expected \in 1..Len(periodChain)
        BY <2>4, <3>3
      <4>3. periodChain[q.expected] \in PeriodRevision /\ periodChain[q.expected].terms \in AnyTerms
        BY <4>2, RevisionTyped
      <4>4. terms \in AnyTerms
        BY <3>1, <4>3
      <4> HIDE DEF new, terms
      <4> QED
        BY <4>1, <4>3, <4>4, SuccessorTyped
    <3> QED
      BY <3>2, <3>3
  <2> HIDE DEF new
  <2>6. /\ periodChain' \in Seq(PeriodRevision) /\ Len(periodChain') = Len(periodChain) + 1 /\ Len(periodChain) \in Nat
        /\ periodChain'[Len(periodChain) + 1] = new
        /\ \A n \in 1..Len(periodChain) : periodChain'[n] = periodChain[n]
        /\ ChainStored' /\ ProgressStands'
        /\ \A n \in DOMAIN periodChain' : periodChain'[n].life \in Lives
    <3>1. call'[c] = call[c] /\ periodChain' = Append(periodChain, new)
      BY <1>4, <2>3
    <3> QED
      BY <1>1, <2>2, <2>4, <2>5, <3>1, ChainGrows
  <2>7. CampaignRows'
    BY <2>2, <2>3, <2>6 DEF CampaignInv, CampaignRows, CampaignTypeOK, Sights, Fates
  <2>8. CreditsStored'
    BY <2>2, <2>3, CreditsUnmoved DEF CampaignInv
  <2>9. ProposalsStored' /\ ApplyingPending' /\ OnePendingAlike'
    BY <2>2, <2>3 DEF CampaignInv, CampaignProposals, ProposalsStored, ApplyingPending, OnePendingAlike, TermsOf,
                      StoredStay, Pursues
  <2>10. Became'
    <3>1. \A x \in Campaigner :
             IF proposal[x].status = "APPLIED"
             THEN proposal[x].became \in 1..Len(periodChain) /\ periodChain[proposal[x].became].terms = TermsOf(x)
             ELSE proposal[x].became = 0
      BY DEF CampaignInv, CampaignProposals, Became
    <3>2. \A x \in Campaigner :
             IF proposal'[x].status = "APPLIED"
             THEN /\ proposal'[x].became \in 1..(Len(periodChain) + 1)
                  /\ periodChain'[proposal'[x].became].terms = call'[x].terms
             ELSE proposal'[x].became = 0
      BY <2>3, <2>6, <3>1 DEF TermsOf
    <3>3. \A n \in 1..(Len(periodChain) + 1) :
             periodChain'[n].by # NoVerdict /\ call'[periodChain'[n].by].op = "APPLY" =>
                n \in 1..Len(periodChain) /\ periodChain'[n] = periodChain[n]
      BY <2>1, <2>3, <2>5, <2>6
    <3>4. \A n \in 1..Len(periodChain) : periodChain[n].by # NoVerdict /\ call[periodChain[n].by].op = "APPLY" =>
             \E x \in Campaigner : proposal[x].became = n
      BY DEF CampaignInv, CampaignProposals, Became
    <3>5. \A x, y \in Campaigner : proposal[x].became = proposal[y].became /\ proposal[x].became # 0 => x = y
      BY DEF CampaignInv, CampaignProposals, Became
    <3> QED
      BY <2>3, <2>6, <3>2, <3>3, <3>4, <3>5 DEF Became, TermsOf
  <2> QED
    BY <2>2, <2>6, <2>7, <2>8, <2>9, <2>10 DEF CampaignInv, CampaignProposals
<1> QED
  BY <1>1, <1>3, <1>4


-----------------------------------------------------------------------------
(* Rulings, and what a credit reads.                                       *)

LEMMA RuleKeeps ==
  ASSUME CampaignInv, NEW c \in Campaigner, Rule(c)
  PROVE  CampaignInv'
<1> DEFINE q == call[c]
<1>1. /\ q.op = "RULE" /\ fate[c] = NoVerdict
      /\ \/ Declining(c)
         \/ /\ Storing(c) /\ rulings' = [rulings EXCEPT ![q.purchase] = Append(rulings[q.purchase], q.ruling)]
            /\ UNCHANGED <<periodChain, credited, earned, proposal, boundTo>>
  BY DEF Rule, Pursues, StoreUnder, Declining, Storing, Answer, shopVars
<1>2. q # NoCall
  BY <1>1 DEF NoCall
<1>3. CASE Declining(c)
  BY <1>1, <1>2, <1>3, DecliningKeeps
<1>4. CASE /\ Storing(c) /\ rulings' = [rulings EXCEPT ![q.purchase] = Append(rulings[q.purchase], q.ruling)]
           /\ UNCHANGED <<periodChain, credited, earned, proposal, boundTo>>
  <2>1. UNCHANGED call /\ fate' = [fate EXCEPT ![c] = "stored"] /\ UNCHANGED <<price, redeemed>>
    BY <1>4 DEF Storing
  <2>2. Moves(c) /\ fate'[c] = "stored" /\ call'[c] = q /\ q \in Calls[c]
    BY <1>1, <1>2, <2>1, OwnAnswer DEF Fates
  <2>3. TableFor(q.op) # "receipts" /\ q.op # "APPLY"
    BY <1>1 DEF TableFor, Revising
  <2>4. AnsweredAs(c, q)
    BY <1>4, <2>2, <2>3 DEF AnsweredAs, Storing
  <2>5. q.purchase \in Bought /\ q.ruling \in RulingKinds
    BY <1>1, <2>2, CallTyped
  <2>6. rulings \in [Bought -> Seq(RulingKinds)] /\ boundTo \in [Campaigner -> Campaigner \cup {NoVerdict}]
    BY DEF CampaignInv, CampaignRows, CampaignTypeOK
  <2>7. Append(rulings[q.purchase], q.ruling) \in Seq(RulingKinds)
    BY <2>5, <2>6
  <2>8. rulings' \in [Bought -> Seq(RulingKinds)]
    BY <1>4, <2>6, <2>7
  <2>9. Sights /\ Rested
    BY <1>4, SightsReset DEF Storing
  <2> QED
    BY <1>4, <2>1, <2>2, <2>3, <2>4, <2>6, <2>8, <2>9, BooksUnmoved DEF BooksStay, Sights, Rested
<1> QED
  BY <1>1, <1>3, <1>4

LEMMA ProgressKeeps ==
  ASSUME CampaignInv, NEW c \in Campaigner, ReadProgress(c)
  PROVE  CampaignInv'
<1>1. call[c].op = "CREDIT" /\ fate[c] = NoVerdict /\ UNCHANGED <<bookVars, shopVars, call>>
  BY DEF ReadProgress, Pursues
<1>2. call[c] # NoCall
  BY <1>1 DEF NoCall
<1>3. DOMAIN sight = Campaigner /\ fate \in [Campaigner -> Fates]
      /\ \A d \in Campaigner : sight[d].of \in {"nothing", "progress", "credit"}
  BY DEF CampaignInv, CampaignRows, CampaignTypeOK, Fates
<1>4. CASE Answer(c, "refused") /\ UNCHANGED sight
  <2>1. Sights /\ Rested
    BY <1>4, SightsReset
  <2> QED
    BY <1>1, <1>2, <1>4, <2>1, UnmovedKeeps DEF Answer
<1> DEFINE read == [of |-> "progress", revision |-> Len(periodChain),
                    terms |-> LastRevision.terms, prices |-> price, said |-> rulings]
<1>5. CASE sight' = [sight EXCEPT ![c] = read] /\ UNCHANGED fate
  <2>1. read.of = "progress" /\ read.revision = Len(periodChain) /\ read.prices = price
    OBVIOUS
  <2> HIDE DEF read
  <2>2. DOMAIN sight' = Campaigner /\ \A d \in Campaigner : sight'[d] = IF d = c THEN read ELSE sight[d]
    BY <1>3, <1>5
  <2>3. UNCHANGED <<periodChain, rulings, credited, earned, proposal, boundTo, price, redeemed, call, fate>>
    BY <1>1, <1>5 DEF bookVars, shopVars
  <2>4. CampaignRows'
    BY <1>3, <2>1, <2>2, <2>3 DEF CampaignInv, CampaignRows, CampaignTypeOK
  <2>5. StoredStay
    BY <2>3 DEF StoredStay
  <2>6. CampaignKeys' /\ ChainStored' /\ CreditsStored' /\ CampaignProposals'
    BY <2>3, <2>5, KeysUnmoved, ChainUnmovedStored, CreditsUnmoved, ProposalsUnmoved DEF CampaignInv, Pursues
  <2>7. ProgressStands'
    BY <2>1, <2>2, <2>3 DEF CampaignInv, ProgressStands
  <2> QED
    BY <2>4, <2>6, <2>7 DEF CampaignInv
<1>6. \/ Answer(c, "refused") /\ UNCHANGED sight
      \/ sight' = [sight EXCEPT ![c] = read] /\ UNCHANGED fate
  <2>1. CASE periodChain # <<>> /\ LastRevision.life \in {"ACTIVE", "ENDED"} /\ Uncredited
    BY <2>1 DEF ReadProgress
  <2>2. CASE ~(periodChain # <<>> /\ LastRevision.life \in {"ACTIVE", "ENDED"} /\ Uncredited)
    BY <2>2 DEF ReadProgress
  <2> QED
    BY <2>1, <2>2
<1> QED
  BY <1>4, <1>5, <1>6

LEMMA FindCreditKeeps ==
  ASSUME CampaignInv, NEW c \in Campaigner, FindCredit(c)
  PROVE  CampaignInv'
<1>1. call[c].op = "VOID" /\ fate[c] = NoVerdict /\ UNCHANGED <<bookVars, shopVars, call>>
  BY DEF FindCredit, Pursues
<1>2. call[c] # NoCall
  BY <1>1 DEF NoCall
<1>3. DOMAIN sight = Campaigner /\ fate \in [Campaigner -> Fates]
      /\ \A d \in Campaigner : sight[d].of \in {"nothing", "progress", "credit"}
  BY DEF CampaignInv, CampaignRows, CampaignTypeOK, Fates
<1>4. CASE Answer(c, "refused") /\ UNCHANGED sight
  <2>1. Sights /\ Rested
    BY <1>4, SightsReset
  <2> QED
    BY <1>1, <1>2, <1>4, <2>1, UnmovedKeeps DEF Answer
<1> DEFINE found == [of |-> "credit", credit |-> CHOOSE d \in credited : TRUE]
<1>5. CASE sight' = [sight EXCEPT ![c] = found] /\ UNCHANGED fate
  <2>1. found.of = "credit"
    OBVIOUS
  <2> HIDE DEF found
  <2>2. DOMAIN sight' = Campaigner /\ \A d \in Campaigner : sight'[d] = IF d = c THEN found ELSE sight[d]
    BY <1>3, <1>5
  <2>3. Sights /\ Rested
    BY <1>3, <2>1, <2>2 DEF Sights, Rested
  <2>4. fate' = [fate EXCEPT ![c] = NoVerdict]
    BY <1>1, <1>3, <1>5
  <2> QED
    BY <1>1, <1>2, <2>3, <2>4, UnmovedKeeps
<1> QED
  BY <1>4, <1>5 DEF FindCredit


-----------------------------------------------------------------------------
(* The credit of the reward.                                               *)

LEMMA NothingSummed == ASSUME NEW f PROVE SumFunctionOnSet(f, {}) = 0
BY SumEmpty

LEMMA OneSummed ==
  ASSUME NEW c, NEW f, f[c] \in Int
  PROVE  SumFunctionOnSet(f, {c}) = f[c]
<1>1. IsFiniteSet({c}) /\ {c} \ {c} = {} /\ \A x \in {c} : f[x] \in Int
  BY FS_Singleton
<1>2. SumFunctionOnSet(f, {c}) = f[c] + SumFunctionOnSet(f, {c} \ {c})
  BY <1>1, SumTakes
<1> QED
  BY <1>1, <1>2, SumEmpty

\* What a stored request leaves of the proposals when it touches none.
LEMMA StoredProposals ==
  ASSUME CampaignInv, NEW c \in Campaigner, call[c] # NoCall, fate[c] = NoVerdict, Storing(c),
         TableFor(call[c].op) # "receipts", UNCHANGED <<periodChain, proposal, boundTo, rulings>>,
         credited' \subseteq Campaigner, earned' \in Nat, CreditsStored'
  PROVE  CampaignInv'
<1>1. /\ CampaignKeys' /\ StoredStay
      /\ DOMAIN call' = Campaigner /\ \A d \in Campaigner : call'[d] \in Calls[d] \cup {NoCall}
      /\ fate' \in [Campaigner -> Fates] /\ Sights /\ Rested
      /\ \A d \in Campaigner : Pursues(d, "APPLY")' => Pursues(d, "APPLY") /\ d # c
  BY StoringKeeps
<1>2. UNCHANGED <<call, price, redeemed>>
  BY DEF Storing
<1>3. CampaignRows'
  BY <1>1, <1>2 DEF CampaignInv, CampaignRows, CampaignTypeOK, Sights, Fates
<1>4. ChainStored' /\ ProgressStands'
  BY <1>1, <1>2, ChainUnmovedStored, ProgressKept DEF CampaignInv, Rested
<1>5. CampaignProposals'
  BY <1>1, <1>2, ProposalsUnmoved DEF CampaignInv
<1> QED
  BY <1>1, <1>3, <1>4, <1>5 DEF CampaignInv

LEMMA StoreCreditKeeps ==
  ASSUME CampaignInv, NEW c \in Campaigner, StoreCredit(c)
  PROVE  CampaignInv'
<1> DEFINE q == call[c]
<1>1. /\ q.op = "CREDIT" /\ fate[c] = NoVerdict
      /\ \/ Declining(c)
         \/ /\ Storing(c) /\ credited = {} /\ credited' = credited \cup {c} /\ earned' = earned + q.points
            /\ UNCHANGED <<periodChain, rulings, proposal, boundTo>>
  BY DEF StoreCredit, Pursues, StoreUnder, Declining, Storing, Answer, shopVars, Uncredited
<1>2. q # NoCall
  BY <1>1 DEF NoCall
<1>3. CASE Declining(c)
  BY <1>1, <1>2, <1>3, DecliningKeeps
<1>4. CASE /\ Storing(c) /\ credited = {} /\ credited' = credited \cup {c} /\ earned' = earned + q.points
           /\ UNCHANGED <<periodChain, rulings, proposal, boundTo>>
  <2>1. TableFor(q.op) # "receipts"
    BY <1>1 DEF TableFor, Revising
  <2>2. UNCHANGED <<call, redeemed>> /\ fate' = [fate EXCEPT ![c] = "stored"]
    BY <1>4 DEF Storing
  <2>3. fate'[c] = "stored" /\ q \in Calls[c]
    BY <1>1, <1>2, <2>2, OwnAnswer DEF Fates
  <2>4. q.points \in Nat /\ earned \in Nat /\ redeemed \in Nat
    BY <1>1, <2>3, CallTyped DEF CampaignInv, CampaignRows, CampaignTypeOK
  <2>5. earned = 0 - redeemed
    <3>1. earned = SumFunctionOnSet([d \in credited |-> call[d].points], {}) - redeemed
      BY <1>4 DEF CampaignInv, CreditsStored, CreditedOnce
    <3>2. SumFunctionOnSet([d \in credited |-> call[d].points], {}) = 0
      BY NothingSummed
    <3> QED
      BY <3>1, <3>2
  <2> DEFINE f == [d \in credited' |-> call'[d].points]
  <2>6. f[c] = q.points /\ credited' = {c}
    BY <1>4, <2>2
  <2> HIDE DEF f
  <2>7. SumFunctionOnSet(f, {c}) = q.points
    BY <2>4, <2>6, OneSummed
  <2>8. Cardinality(credited') = 1
    BY <2>6, FS_Singleton
  <2>9. CreditedOnce'
    BY <1>4, <2>2, <2>4, <2>5, <2>6, <2>7, <2>8 DEF CreditedOnce, f
  <2>10. CreditsStored'
    BY <1>1, <2>2, <2>3, <2>6, <2>9 DEF CreditsStored
  <2>11. credited' \subseteq Campaigner /\ earned' \in Nat
    BY <1>4, <2>4, <2>6
  <2> QED
    BY <1>1, <1>2, <1>4, <2>1, <2>10, <2>11, StoredProposals
<1> QED
  BY <1>1, <1>3, <1>4

LEMMA VoidCreditKeeps ==
  ASSUME CampaignInv, NEW c \in Campaigner, VoidCredit(c)
  PROVE  CampaignInv'
<1> DEFINE d == sight[c].credit
<1>1. /\ call[c].op = "VOID" /\ fate[c] = NoVerdict
      /\ \/ Declining(c)
         \/ /\ Storing(c) /\ d \in credited /\ earned >= call[d].points
            /\ credited' = credited \ {d} /\ earned' = earned - call[d].points
            /\ UNCHANGED <<periodChain, rulings, proposal, boundTo>>
  BY DEF VoidCredit, Pursues, StoreUnder, Declining, Storing, Answer, shopVars, Revocable
<1>2. call[c] # NoCall
  BY <1>1 DEF NoCall
<1>3. CASE Declining(c)
  BY <1>1, <1>2, <1>3, DecliningKeeps
<1> HIDE DEF d
<1>4. CASE /\ Storing(c) /\ d \in credited /\ earned >= call[d].points
           /\ credited' = credited \ {d} /\ earned' = earned - call[d].points
           /\ UNCHANGED <<periodChain, rulings, proposal, boundTo>>
  <2>1. TableFor(call[c].op) # "receipts"
    BY <1>1 DEF TableFor, Revising
  <2>2. UNCHANGED <<call, redeemed>>
    BY <1>4 DEF Storing
  <2>3. d \in Campaigner /\ call[d] \in Calls[d] /\ call[d].op = "CREDIT"
    <3>1. d \in Campaigner /\ call[d] \in Calls[d] \cup {NoCall} /\ call[d].op = "CREDIT"
      BY <1>4 DEF CampaignInv, CampaignRows, CampaignTypeOK, CreditsStored
    <3> QED
      BY <3>1 DEF NoCall
  <2>4. call[d].points \in Nat /\ earned \in Nat /\ redeemed \in Nat
    BY <2>3, CallTyped DEF CampaignInv, CampaignRows, CampaignTypeOK
  <2> DEFINE f == [e \in credited |-> call[e].points]
  <2>5. Cardinality(credited) <= 1 /\ earned = SumFunctionOnSet(f, credited) - redeemed
    BY DEF CampaignInv, CreditsStored, CreditedOnce
  <2>6. credited = {d}
    BY <1>4 DEF CampaignInv, CreditsStored
  <2>7. f[d] = call[d].points
    BY <1>4
  <2> HIDE DEF f
  <2>8. SumFunctionOnSet(f, {d}) = call[d].points
    <3>1. f[d] \in Int
      BY <2>4, <2>7
    <3>2. SumFunctionOnSet(f, {d}) = f[d]
      BY <3>1, OneSummed
    <3> QED
      BY <2>7, <3>2
  <2>9. earned' = 0 - redeemed /\ credited' = {}
    BY <1>4, <2>4, <2>5, <2>6, <2>8
  <2>10. SumFunctionOnSet([e \in credited' |-> call'[e].points], {}) = 0 /\ Cardinality({}) = 0
    BY NothingSummed, FS_EmptySet
  <2>11. CreditedOnce'
    BY <2>2, <2>4, <2>9, <2>10 DEF CreditedOnce
  <2>12. CreditsStored' /\ credited' \subseteq Campaigner
    BY <2>9, <2>11 DEF CreditsStored
  <2>13. earned' \in Nat
    BY <1>4, <2>4
  <2> QED
    BY <1>1, <1>2, <1>4, <2>1, <2>12, <2>13, StoredProposals
<1> QED
  BY <1>1, <1>3, <1>4


-----------------------------------------------------------------------------
(* Proposals.                                                              *)

LEMMA ProposalTyped ==
  ASSUME CampaignInv, NEW x \in Campaigner
  PROVE  /\ proposal[x] \in [status : {"none", "PENDING", "APPLIED", "DISMISSED"}, became : Nat]
         /\ DOMAIN proposal = Campaigner
         /\ proposal[x].status # "APPLIED" => proposal[x].became = 0
         /\ fate[x] = NoVerdict => proposal[x] = Unproposed
         /\ proposal[x].status # "none" => call[x] \in Calls[x] /\ fate[x] = "stored"
<1>1. proposal[x] \in [status : {"none", "PENDING", "APPLIED", "DISMISSED"}, became : Nat] /\ DOMAIN proposal = Campaigner
  BY DEF CampaignInv, CampaignRows, CampaignTypeOK
<1>2. proposal[x].status # "APPLIED" => proposal[x].became = 0
  BY DEF CampaignInv, CampaignProposals, Became
<1>3. proposal[x].status # "none" => fate[x] = "stored" /\ call[x].op = "PROPOSE"
  BY DEF CampaignInv, CampaignProposals, ProposalsStored
<1>4. proposal[x].status # "none" => call[x] \in Calls[x]
  BY <1>3 DEF CampaignInv, CampaignRows, CampaignTypeOK, NoCall
<1>5. fate[x] = NoVerdict => proposal[x] = Unproposed
  BY <1>1, <1>2, <1>3, CampaignAssumption DEF Unproposed, NotApplied
<1> QED
  BY <1>1, <1>2, <1>3, <1>4, <1>5

\* A proposal is made, or set aside: no revision comes of it.
LEMMA ProposalsMoved ==
  ASSUME CampaignInv, StoredStay, UNCHANGED periodChain, NEW x \in Campaigner, NEW s \in {"PENDING", "DISMISSED"},
         proposal[x].status \in {"none", "PENDING"}, proposal' = [proposal EXCEPT ![x] = [status |-> s, became |-> 0]],
         fate'[x] = "stored", call'[x].op = "PROPOSE",
         \A d \in Campaigner : Pursues(d, "APPLY")' => Pursues(d, "APPLY") /\ call'[d] = call[d] /\ call[d].proposal # x,
         s = "PENDING" => \A y \in Campaigner : proposal[y].status = "PENDING" => TermsOf(y) # call'[x].terms
  PROVE  CampaignProposals' /\ proposal' \in [Campaigner -> [status : {"none", "PENDING", "APPLIED", "DISMISSED"}, became : Nat]]
<1> DEFINE new == [status |-> s, became |-> 0]
<1>1. /\ new \in [status : {"none", "PENDING", "APPLIED", "DISMISSED"}, became : Nat]
      /\ new.status = s /\ new.became = 0
  OBVIOUS
<1>2. proposal' = [proposal EXCEPT ![x] = new]
  OBVIOUS
<1> HIDE DEF new
<1>3. /\ proposal \in [Campaigner -> [status : {"none", "PENDING", "APPLIED", "DISMISSED"}, became : Nat]]
      /\ CampaignProposals
  BY DEF CampaignInv, CampaignRows, CampaignTypeOK
<1>4. \A y \in Campaigner : proposal'[y] = IF y = x THEN new ELSE proposal[y]
  BY <1>2, <1>3
<1>5. \A y \in Campaigner : proposal[y].status # "none" => fate'[y] = "stored" /\ call'[y] = call[y] /\ call[y].op = "PROPOSE"
  BY <1>3 DEF CampaignProposals, ProposalsStored, StoredStay
<1>6. ProposalsStored'
  BY <1>4, <1>5 DEF ProposalsStored
<1>7. ApplyingPending'
  BY <1>3, <1>4 DEF CampaignProposals, ApplyingPending
<1>8. OnePendingAlike'
  BY <1>1, <1>3, <1>4, <1>5 DEF CampaignProposals, OnePendingAlike, TermsOf
<1>9. Became'
  <2>1. proposal[x].became = 0
    BY ProposalTyped
  <2>2. \A n \in 1..Len(periodChain) : periodChain[n].by # NoVerdict => call'[periodChain[n].by] = call[periodChain[n].by]
    BY DEF CampaignInv, ChainStored, StoredStay
  <2>3. \A y \in Campaigner :
           IF proposal'[y].status = "APPLIED"
           THEN /\ proposal'[y].became \in 1..Len(periodChain)
                /\ periodChain[proposal'[y].became].terms = call'[y].terms
           ELSE proposal'[y].became = 0
    BY <1>1, <1>3, <1>4, <1>5 DEF CampaignProposals, Became, TermsOf
  <2>4. \A y \in Campaigner : proposal'[y].became = proposal[y].became
    BY <1>1, <1>4, <2>1
  <2> QED
    BY <1>3, <2>2, <2>3, <2>4 DEF CampaignProposals, Became, TermsOf
<1> QED
  BY <1>1, <1>2, <1>3, <1>6, <1>7, <1>8, <1>9 DEF CampaignProposals

\* A replay answers, and moves nothing.
LEMMA ReplayKeeps ==
  ASSUME CampaignInv, NEW c \in Campaigner, NEW q \in Calls[c], fate[c] = NoVerdict,
         call[c] \in {NoCall, q}, call'[c] = q, DOMAIN call' = Campaigner,
         \A d \in Campaigner \ {c} : call'[d] = call[d], ReplayCall(c, q), UNCHANGED <<shopVars, sight>>
  PROVE  CampaignInv'
<1>1. /\ CampaignRows /\ DOMAIN call = Campaigner /\ fate \in [Campaigner -> Fates] /\ rulings \in [Bought -> Seq(RulingKinds)]
      /\ DOMAIN sight = Campaigner /\ \A d \in Campaigner : sight[d].of \in {"nothing", "progress", "credit"}
  BY DEF CampaignInv, CampaignRows, CampaignTypeOK, Fates
<1>3. /\ fate'[c] \in {"replayed", "conflict"} /\ fate' = [fate EXCEPT ![c] = fate'[c]]
      /\ AnsweredAs(c, q) /\ boundTo' \in [Campaigner -> Campaigner \cup {NoVerdict}]
      /\ \A d \in Campaigner \ {c} : boundTo'[d] = boundTo[d]
      /\ UNCHANGED <<periodChain, rulings, credited, earned, proposal>>
  BY <1>1, ReplayAnswers
<1>4. Moves(c)
  BY <1>1, <1>3 DEF Moves, Fates
<1>5. BooksStay(c)
  BY <1>1, <1>3, <1>4 DEF BooksStay, shopVars
<1>6. fate'[c] # NoVerdict
  BY <1>3, CampaignAssumption
<1> QED
  BY <1>5, <1>6, BooksUnmoved

LEMMA ProposeKeeps ==
  ASSUME CampaignInv, NEW c \in Campaigner, Propose(c)
  PROVE  CampaignInv'
<1> DEFINE q == call[c]
           alike == PendingAlike(q)
           x == IF alike = {} THEN c ELSE CHOOSE d \in alike : TRUE
<1>1. /\ q.op = "PROPOSE" /\ fate[c] = NoVerdict
      /\ \/ ReplayCall(c, q) /\ UNCHANGED <<shopVars, call, sight>>
         \/ Declining(c)
         \/ /\ Storing(c) /\ boundTo' = [boundTo EXCEPT ![c] = x]
            /\ proposal' = IF x = c THEN [proposal EXCEPT ![c] = NotApplied("PENDING")] ELSE proposal
            /\ UNCHANGED <<periodChain, rulings, credited, earned>>
  BY DEF Propose, Pursues, StoreUnder, Declining, Storing, Answer, shopVars, BoundAs
<1>2. q # NoCall /\ q \in Calls[c] /\ DOMAIN call = Campaigner
  BY <1>1 DEF NoCall, CampaignInv, CampaignRows, CampaignTypeOK
<1>3. CASE ReplayCall(c, q) /\ UNCHANGED <<shopVars, call, sight>>
  <2>1. UNCHANGED call
    BY <1>3
  <2> QED
    BY <1>1, <1>2, <1>3, <2>1, ReplayKeeps
<1>4. CASE Declining(c)
  BY <1>1, <1>2, <1>4, DecliningKeeps
<1>5. x \in Campaigner /\ (x # c => proposal[x].status = "PENDING")
      /\ (x = c => \A y \in Campaigner : proposal[y].status = "PENDING" => TermsOf(y) # q.terms)
  <2>1. alike \subseteq {y \in Campaigner : proposal[y].status = "PENDING"}
    BY DEF PendingAlike
  <2>2. CASE alike = {}
    BY <2>2 DEF PendingAlike
  <2>3. CASE alike # {}
    <3>1. x \in alike
      BY <2>3
    <3>2. x \in Campaigner /\ proposal[x].status = "PENDING"
      BY <2>1, <3>1
    <3>3. proposal[c].status # "PENDING"
      BY <1>1, ProposalTyped DEF Unproposed, NotApplied
    <3> QED
      BY <3>2, <3>3
  <2> QED
    BY <2>2, <2>3
<1> HIDE DEF x, alike
<1>6. CASE /\ Storing(c) /\ boundTo' = [boundTo EXCEPT ![c] = x]
           /\ proposal' = IF x = c THEN [proposal EXCEPT ![c] = NotApplied("PENDING")] ELSE proposal
           /\ UNCHANGED <<periodChain, rulings, credited, earned>>
  <2>1. UNCHANGED <<call, price, redeemed>>
    BY <1>6 DEF Storing
  <2>2. boundTo \in [Campaigner -> Campaigner \cup {NoVerdict}]
    BY DEF CampaignInv, CampaignRows, CampaignTypeOK
  <2>3. boundTo' \in [Campaigner -> Campaigner \cup {NoVerdict}] /\ boundTo'[c] = x
        /\ \A d \in Campaigner \ {c} : boundTo'[d] = boundTo[d]
    BY <1>5, <1>6, <2>2
  <2>4. proposal[c] = Unproposed /\ DOMAIN proposal = Campaigner
    BY <1>1, ProposalTyped
  <2>5. x = c => proposal' = [proposal EXCEPT ![c] = [status |-> "PENDING", became |-> 0]]
    BY <1>6 DEF NotApplied
  <2>6. \A y \in Campaigner : y # c \/ x # c => proposal'[y] = proposal[y]
    BY <1>6, <2>4, <2>5
  <2>7. x = c => proposal'[c].status = "PENDING"
    BY <2>4, <2>5
  <2>8. proposal'[x].status # "none" /\ \A y \in Campaigner : proposal[y].status # "none" => proposal'[y].status # "none"
    BY <1>5, <2>4, <2>6, <2>7 DEF Unproposed, NotApplied
  <2>9. /\ CampaignKeys' /\ StoredStay /\ fate'[c] = "stored"
        /\ DOMAIN call' = Campaigner /\ \A d \in Campaigner : call'[d] \in Calls[d] \cup {NoCall}
        /\ fate' \in [Campaigner -> Fates] /\ Sights /\ Rested
        /\ \A d \in Campaigner : Pursues(d, "APPLY")' => Pursues(d, "APPLY") /\ d # c
    BY <1>1, <1>2, <1>5, <1>6, <2>3, <2>8, StoringKeeps
  <2>10. CampaignProposals' /\ proposal' \in [Campaigner -> [status : {"none", "PENDING", "APPLIED", "DISMISSED"}, became : Nat]]
    <3>1. CASE x = c
      <4>1. \A d \in Campaigner : Pursues(d, "APPLY") => call[d].proposal # c
        BY <2>4 DEF CampaignInv, CampaignProposals, ApplyingPending, Unproposed, NotApplied
      <4>2. proposal[c].status = "none"
        BY <2>4 DEF Unproposed, NotApplied
      <4> QED
        BY <1>1, <1>5, <1>6, <2>1, <2>5, <2>9, <3>1, <4>1, <4>2, ProposalsMoved
    <3>2. CASE x # c
      <4>1. UNCHANGED proposal
        BY <1>6, <3>2
      <4> QED
        BY <1>6, <2>1, <2>9, <4>1, ProposalsUnmoved DEF CampaignInv, CampaignRows, CampaignTypeOK
    <3> QED
      BY <3>1, <3>2
  <2>11. CampaignRows'
    BY <1>6, <2>1, <2>3, <2>9, <2>10 DEF CampaignInv, CampaignRows, CampaignTypeOK, Sights, Fates
  <2>12. ChainStored' /\ ProgressStands' /\ CreditsStored'
    BY <1>6, <2>1, <2>9, ChainUnmovedStored, ProgressKept, CreditsUnmoved DEF CampaignInv, Rested
  <2> QED
    BY <2>9, <2>10, <2>11, <2>12 DEF CampaignInv
<1> QED
  BY <1>1, <1>3, <1>4, <1>6


\* A proposal that exists is taken under its row.
LEMMA ProposalTaken ==
  ASSUME CampaignInv, NEW c \in Campaigner, NEW q \in Calls[c], q.op \in {"APPLY", "DISMISS"}, TakeProposal(c, q)
  PROVE  /\ call[c] = NoCall /\ fate[c] = NoVerdict /\ q.proposal \in Campaigner
         /\ call'[c] = q /\ DOMAIN call' = Campaigner /\ \A d \in Campaigner \ {c} : call'[d] = call[d]
         /\ \A d \in Campaigner : Pursues(d, "APPLY") => call[d].proposal # q.proposal
         /\ UNCHANGED <<shopVars, sight>>
<1>1. DOMAIN call = Campaigner /\ CallsAnswered
  BY DEF CampaignInv, CampaignRows, CampaignTypeOK, CampaignKeys
<1>2. call[c] = NoCall /\ call' = [call EXCEPT ![c] = q] /\ UNCHANGED <<shopVars, sight>> /\ ~ProposalHeld(q.proposal)
  BY DEF TakeProposal
<1>3. q.proposal \in Campaigner
  BY CallTyped
<1> QED
  BY <1>1, <1>2, <1>3 DEF CallsAnswered, ProposalHeld

\* What was taken is answered, and nothing moves.
LEMMA TakenStays ==
  ASSUME CampaignInv, NEW c \in Campaigner, NEW q \in Calls[c], fate[c] = NoVerdict, call[c] = NoCall,
         call'[c] = q, DOMAIN call' = Campaigner, \A d \in Campaigner \ {c} : call'[d] = call[d],
         NEW v \in {"refused", NoVerdict}, Answer(c, v), UNCHANGED bookVars, UNCHANGED <<shopVars, sight>>
  PROVE  BooksStay(c) /\ fate'[c] = v
<1>1. /\ fate \in [Campaigner -> Fates] /\ rulings \in [Bought -> Seq(RulingKinds)]
      /\ boundTo \in [Campaigner -> Campaigner \cup {NoVerdict}]
      /\ DOMAIN sight = Campaigner /\ \A d \in Campaigner : sight[d].of \in {"nothing", "progress", "credit"}
  BY DEF CampaignInv, CampaignRows, CampaignTypeOK, Fates
<1>2. fate' = [fate EXCEPT ![c] = fate'[c]] /\ fate'[c] = v
  BY <1>1 DEF Answer
<1>3. Moves(c)
  BY <1>2 DEF Moves, Fates
<1>4. AnsweredAs(c, call'[c])
  BY <1>2 DEF AnsweredAs
<1> QED
  BY <1>1, <1>2, <1>3, <1>4 DEF BooksStay, bookVars, shopVars

LEMMA BeginApplyKeeps ==
  ASSUME CampaignInv, NEW c \in Campaigner, NEW q \in Calls[c], BeginApply(c, q)
  PROVE  CampaignInv'
<1>1. /\ call[c] = NoCall /\ fate[c] = NoVerdict /\ q.proposal \in Campaigner
      /\ call'[c] = q /\ DOMAIN call' = Campaigner /\ \A d \in Campaigner \ {c} : call'[d] = call[d]
      /\ \A d \in Campaigner : Pursues(d, "APPLY") => call[d].proposal # q.proposal
      /\ UNCHANGED <<shopVars, sight>>
  BY ProposalTaken DEF BeginApply
<1>2. CASE ReplayCall(c, q)
  BY <1>1, <1>2, ReplayKeeps
<1>3. CASE Answer(c, "refused") /\ UNCHANGED bookVars
  <2>1. BooksStay(c) /\ fate'[c] = "refused"
    BY <1>1, <1>3, TakenStays
  <2> QED
    BY <2>1, BooksUnmoved, CampaignAssumption
<1>4. CASE StillPending(q.proposal) /\ Answer(c, NoVerdict) /\ UNCHANGED bookVars
  <2>1. BooksStay(c) /\ fate'[c] = NoVerdict
    BY <1>1, <1>4, TakenStays
  <2>2. CampaignRows' /\ CampaignKeys' /\ ChainStored' /\ CreditsStored' /\ ProgressStands' /\ StoredStay
    BY <2>1, BooksStand
  <2>3. UNCHANGED <<periodChain, proposal>>
    BY <1>4 DEF bookVars
  <2>4. \A x \in Campaigner : proposal[x].status # "none" => fate'[x] = "stored" /\ call'[x] = call[x] /\ call[x].op = "PROPOSE"
    BY <2>2 DEF CampaignInv, CampaignProposals, ProposalsStored, StoredStay
  <2>5. ProposalsStored' /\ OnePendingAlike'
    BY <2>3, <2>4 DEF CampaignInv, CampaignProposals, ProposalsStored, OnePendingAlike, TermsOf
  <2>6. \A d \in Campaigner \ {c} : fate'[d] = fate[d]
    BY <2>1, Moved DEF BooksStay, CampaignInv
  <2>7. ApplyingPending'
    <3>1. ASSUME NEW d \in Campaigner \ {c}, Pursues(d, "APPLY")'
          PROVE  /\ Pursues(d, "APPLY") /\ call'[d] = call[d] /\ call[d].proposal # q.proposal
                 /\ proposal'[call'[d].proposal].status = "PENDING"
      <4>1. Pursues(d, "APPLY") /\ call'[d] = call[d]
        BY <1>1, <2>6, <3>1 DEF Pursues
      <4> QED
        BY <1>1, <2>3, <4>1 DEF CampaignInv, CampaignProposals, ApplyingPending
    <3>2. proposal'[call'[c].proposal].status = "PENDING"
      BY <1>1, <1>4, <2>3 DEF StillPending
    <3>3. ASSUME NEW d \in Campaigner, Pursues(d, "APPLY")', NEW e \in Campaigner, Pursues(e, "APPLY")',
                 call'[e].proposal = call'[d].proposal
          PROVE  e = d
      <4>1. CASE d = c \/ e = c
        BY <1>1, <3>1, <3>3, <4>1
      <4>2. CASE d # c /\ e # c
        <5>1. Pursues(d, "APPLY") /\ Pursues(e, "APPLY") /\ call[e].proposal = call[d].proposal
          BY <3>1, <3>3, <4>2
        <5> QED
          BY <5>1 DEF CampaignInv, CampaignProposals, ApplyingPending
      <4> QED
        BY <4>1, <4>2
    <3> QED
      BY <3>1, <3>2, <3>3 DEF ApplyingPending
  <2>8. Became'
    <3>1. \A n \in 1..Len(periodChain) : periodChain[n].by # NoVerdict => call'[periodChain[n].by] = call[periodChain[n].by]
      BY <2>2 DEF CampaignInv, ChainStored, StoredStay
    <3> QED
      BY <2>3, <2>4, <3>1 DEF CampaignInv, CampaignProposals, Became, TermsOf
  <2> QED
    BY <2>2, <2>5, <2>7, <2>8 DEF CampaignInv, CampaignProposals
<1> QED
  BY <1>2, <1>3, <1>4 DEF BeginApply

LEMMA DismissKeeps ==
  ASSUME CampaignInv, NEW c \in Campaigner, NEW q \in Calls[c], Dismiss(c, q)
  PROVE  CampaignInv'
<1> DEFINE x == q.proposal
<1>1. /\ q.op = "DISMISS" /\ call[c] = NoCall /\ fate[c] = NoVerdict /\ x \in Campaigner
      /\ call'[c] = q /\ DOMAIN call' = Campaigner /\ \A d \in Campaigner \ {c} : call'[d] = call[d]
      /\ \A d \in Campaigner : Pursues(d, "APPLY") => call[d].proposal # x
      /\ UNCHANGED <<shopVars, sight>>
  BY ProposalTaken DEF Dismiss
<1>2. CASE ReplayCall(c, q)
  BY <1>1, <1>2, ReplayKeeps
<1>3. CASE Answer(c, "refused") /\ UNCHANGED bookVars
  <2>1. BooksStay(c) /\ fate'[c] = "refused"
    BY <1>1, <1>3, TakenStays
  <2> QED
    BY <2>1, BooksUnmoved, CampaignAssumption
<1> HIDE DEF x
<1>4. CASE /\ EarlierCalls(q) = {} /\ StillPending(x) /\ Answer(c, "stored")
           /\ proposal' = [proposal EXCEPT ![x] = NotApplied("DISMISSED")] /\ boundTo' = [boundTo EXCEPT ![c] = x]
           /\ UNCHANGED <<periodChain, rulings, credited, earned>>
  <2>1. /\ CampaignRows /\ fate \in [Campaigner -> Fates] /\ boundTo \in [Campaigner -> Campaigner \cup {NoVerdict}]
        /\ proposal \in [Campaigner -> [status : {"none", "PENDING", "APPLIED", "DISMISSED"}, became : Nat]]
    BY DEF CampaignInv, CampaignRows, CampaignTypeOK, Fates
  <2>2. fate' = [fate EXCEPT ![c] = fate'[c]] /\ fate'[c] = "stored"
    BY <1>4, <2>1 DEF Answer
  <2>3. Moves(c)
    BY <1>1, <2>2 DEF Moves, Fates
  <2>4. /\ StoredStay /\ fate' \in [Campaigner -> Fates]
        /\ \A d \in Campaigner : call'[d] \in Calls[d] \cup {NoCall}
        /\ \A d \in Campaigner \ {c} : fate'[d] = fate[d]
    BY <2>1, <2>3, Moved, MovedStoredStay
  <2>5. boundTo' \in [Campaigner -> Campaigner \cup {NoVerdict}] /\ boundTo'[c] = x
        /\ \A d \in Campaigner \ {c} : boundTo'[d] = boundTo[d]
    BY <1>1, <1>4, <2>1
  <2>6. proposal' = [proposal EXCEPT ![x] = [status |-> "DISMISSED", became |-> 0]] /\ proposal[x].status = "PENDING"
    BY <1>4 DEF NotApplied, StillPending
  <2>7. \A y \in Campaigner : y # x => proposal'[y] = proposal[y]
    BY <2>1, <2>6
  <2>8. proposal'[x].status = "DISMISSED"
    BY <1>1, <2>1, <2>6
  <2>9. /\ proposal'[boundTo'[c]].status # "none"
        /\ \A y \in Campaigner : proposal[y].status # "none" => proposal'[y].status # "none"
    BY <2>5, <2>7, <2>8
  <2>10. AnsweredAs(c, call'[c])
    BY <1>1, <1>4, <2>2, <2>5, <2>9 DEF AnsweredAs
  <2>11. CampaignKeys'
    BY <2>1, <2>3, <2>5, <2>9, <2>10, KeysKept DEF CampaignInv
  <2>12. CampaignProposals' /\ proposal' \in [Campaigner -> [status : {"none", "PENDING", "APPLIED", "DISMISSED"}, became : Nat]]
    <3>1. fate'[x] = "stored" /\ call'[x].op = "PROPOSE"
      BY <1>1, <2>4, <2>6 DEF CampaignInv, CampaignProposals, ProposalsStored, StoredStay
    <3>2. \A d \in Campaigner : Pursues(d, "APPLY")' => Pursues(d, "APPLY") /\ call'[d] = call[d] /\ call[d].proposal # x
      <4>1. ASSUME NEW d \in Campaigner, Pursues(d, "APPLY")'
            PROVE  d # c
        BY <1>1, <4>1 DEF Pursues
      <4> QED
        BY <1>1, <2>4, <4>1 DEF Pursues
    <3> QED
      BY <1>1, <1>4, <2>4, <2>6, <3>1, <3>2, ProposalsMoved
  <2>13. UNCHANGED <<price, redeemed, sight>>
    BY <1>1 DEF shopVars
  <2>14. CampaignRows'
    BY <1>1, <1>4, <2>4, <2>5, <2>12, <2>13 DEF CampaignInv, CampaignRows, CampaignTypeOK, Fates
  <2>15. ChainStored' /\ CreditsStored' /\ ProgressStands'
    BY <1>4, <2>1, <2>4, <2>13, ChainUnmovedStored, CreditsUnmoved, ProgressKept DEF CampaignInv
  <2> QED
    BY <2>11, <2>12, <2>14, <2>15 DEF CampaignInv
<1> QED
  BY <1>2, <1>3, <1>4 DEF Dismiss, x


\* The proposal becomes the revision that follows.
LEMMA ProposalApplied ==
  ASSUME CampaignInv, StoredStay, NEW x \in Campaigner, NEW c \in Campaigner, proposal[x].status = "PENDING",
         NEW new \in PeriodRevision, new.by = c, new.terms = TermsOf(x), UNCHANGED call,
         Len(periodChain') = Len(periodChain) + 1, Len(periodChain) \in Nat,
         periodChain'[Len(periodChain) + 1] = new, \A n \in 1..Len(periodChain) : periodChain'[n] = periodChain[n],
         proposal' = [proposal EXCEPT ![x] = [status |-> "APPLIED", became |-> Len(periodChain) + 1]],
         \A d \in Campaigner : Pursues(d, "APPLY")' => Pursues(d, "APPLY") /\ call[d].proposal # x
  PROVE  CampaignProposals' /\ proposal' \in [Campaigner -> [status : {"none", "PENDING", "APPLIED", "DISMISSED"}, became : Nat]]
<1> DEFINE N == Len(periodChain) + 1
           made == [status |-> "APPLIED", became |-> N]
<1>1. /\ made \in [status : {"none", "PENDING", "APPLIED", "DISMISSED"}, became : Nat]
      /\ made.status = "APPLIED" /\ made.became = N /\ N # 0
  OBVIOUS
<1>2. proposal' = [proposal EXCEPT ![x] = made]
  OBVIOUS
<1> HIDE DEF made
<1>3. /\ proposal \in [Campaigner -> [status : {"none", "PENDING", "APPLIED", "DISMISSED"}, became : Nat]]
      /\ CampaignProposals
  BY DEF CampaignInv, CampaignRows, CampaignTypeOK
<1>4. \A y \in Campaigner : proposal'[y] = IF y = x THEN made ELSE proposal[y]
  BY <1>2, <1>3
<1>5. \A y \in Campaigner : proposal[y].status # "none" => fate'[y] = "stored" /\ call[y].op = "PROPOSE"
  BY <1>3 DEF CampaignProposals, ProposalsStored, StoredStay
<1>6. ProposalsStored'
  BY <1>4, <1>5 DEF ProposalsStored
<1>7. ApplyingPending'
  BY <1>3, <1>4 DEF CampaignProposals, ApplyingPending
<1>8. OnePendingAlike'
  BY <1>1, <1>3, <1>4 DEF CampaignProposals, OnePendingAlike, TermsOf
<1>9. Became'
  <2>1. \A y \in Campaigner :
           IF proposal[y].status = "APPLIED"
           THEN proposal[y].became \in 1..Len(periodChain) /\ periodChain[proposal[y].became].terms = call[y].terms
           ELSE proposal[y].became = 0
    BY <1>3 DEF CampaignProposals, Became, TermsOf
  <2>2. \A y \in Campaigner : proposal[y].became = 0 \/ proposal[y].became \in 1..Len(periodChain)
    BY <2>1
  <2>3. \A y \in Campaigner : y # x =>
           IF proposal'[y].status = "APPLIED"
           THEN proposal'[y].became \in 1..N /\ periodChain'[proposal'[y].became].terms = call[y].terms
           ELSE proposal'[y].became = 0
    BY <1>4, <2>1
  <2>4. proposal'[x].status = "APPLIED" /\ proposal'[x].became \in 1..N /\ periodChain'[proposal'[x].became].terms = call[x].terms
    BY <1>1, <1>4 DEF TermsOf
  <2>5. \A y, z \in Campaigner : proposal'[y].became = proposal'[z].became /\ proposal'[y].became # 0 => y = z
    <3>1. \A y, z \in Campaigner : proposal[y].became = proposal[z].became /\ proposal[y].became # 0 => y = z
      BY <1>3 DEF CampaignProposals, Became
    <3>2. \A y \in Campaigner : proposal[y].became # N
      BY <2>2
    <3> QED
      BY <1>1, <1>4, <3>1, <3>2
  <2>6. ASSUME NEW n \in 1..N, periodChain'[n].by # NoVerdict, call[periodChain'[n].by].op = "APPLY"
        PROVE  \E y \in Campaigner : proposal'[y].became = n
    <3>1. CASE n = N
      BY <1>1, <1>4, <3>1
    <3>2. CASE n # N
      <4>1. n \in 1..Len(periodChain) /\ periodChain'[n] = periodChain[n]
        BY <3>2
      <4>2. PICK y \in Campaigner : proposal[y].became = n
        BY <1>3, <2>6, <4>1 DEF CampaignProposals, Became
      <4>3. y # x
        BY <2>1, <4>1, <4>2
      <4> QED
        BY <1>4, <4>2, <4>3
    <3> QED
      BY <3>1, <3>2
  <2> HIDE DEF N
  <2>7. Len(periodChain') = N
    BY DEF N
  <2>8. \A y \in Campaigner :
           IF proposal'[y].status = "APPLIED"
           THEN proposal'[y].became \in 1..N /\ periodChain'[proposal'[y].became].terms = call[y].terms
           ELSE proposal'[y].became = 0
    BY <2>3, <2>4
  <2> QED
    BY <2>5, <2>6, <2>7, <2>8 DEF Became, TermsOf
<1> QED
  BY <1>1, <1>2, <1>3, <1>6, <1>7, <1>8, <1>9 DEF CampaignProposals

LEMMA ApplyKeeps ==
  ASSUME CampaignInv, NEW c \in Campaigner, Apply(c)
  PROVE  CampaignInv'
<1> DEFINE q == call[c]
           x == q.proposal
           new == Successor(c, "AMEND", TermsOf(x), periodChain[q.expected])
<1>1. /\ q.op = "APPLY" /\ fate[c] = NoVerdict /\ Pursues(c, "APPLY") /\ ~PeriodHeld
      /\ \/ Declining(c)
         \/ /\ Storing(c) /\ MayFollow(q.expected, "AMEND") /\ periodChain' = Append(periodChain, new)
            /\ proposal' = [proposal EXCEPT ![x] = [status |-> "APPLIED", became |-> Len(periodChain) + 1]]
            /\ boundTo' = [boundTo EXCEPT ![c] = x] /\ UNCHANGED <<rulings, credited, earned>>
  BY DEF Apply, Pursues, StoreUnder, Declining, Storing, Answer, shopVars
<1>2. q # NoCall /\ q \in Calls[c]
  BY <1>1 DEF NoCall, CampaignInv, CampaignRows, CampaignTypeOK
<1>3. CASE Declining(c)
  BY <1>1, <1>2, <1>3, DecliningKeeps
<1>4. q.expected \in Nat /\ x \in Campaigner
  BY <1>1, <1>2, CallTyped
<1>5. proposal[x].status = "PENDING" /\ \A d \in Campaigner : Pursues(d, "APPLY") /\ call[d].proposal = x => d = c
  BY <1>1 DEF CampaignInv, CampaignProposals, ApplyingPending
<1> HIDE DEF x
<1>6. CASE /\ Storing(c) /\ MayFollow(q.expected, "AMEND") /\ periodChain' = Append(periodChain, new)
           /\ proposal' = [proposal EXCEPT ![x] = [status |-> "APPLIED", became |-> Len(periodChain) + 1]]
           /\ boundTo' = [boundTo EXCEPT ![c] = x] /\ UNCHANGED <<rulings, credited, earned>>
  <2>1. UNCHANGED <<call, price, redeemed>>
    BY <1>6 DEF Storing
  <2>2. boundTo \in [Campaigner -> Campaigner \cup {NoVerdict}] /\ periodChain \in Seq(PeriodRevision)
    BY DEF CampaignInv, CampaignRows, CampaignTypeOK
  <2>3. boundTo' \in [Campaigner -> Campaigner \cup {NoVerdict}] /\ boundTo'[c] = x
        /\ \A d \in Campaigner \ {c} : boundTo'[d] = boundTo[d]
    BY <1>4, <1>6, <2>2
  <2>4. DOMAIN proposal = Campaigner
    BY <1>4, ProposalTyped
  <2>5. proposal'[x].status = "APPLIED" /\ \A y \in Campaigner : y # x => proposal'[y] = proposal[y]
    BY <1>4, <1>6, <2>4
  <2>6. proposal'[x].status # "none" /\ \A y \in Campaigner : proposal[y].status # "none" => proposal'[y].status # "none"
    BY <2>5
  <2>7. /\ CampaignKeys' /\ StoredStay /\ fate'[c] = "stored"
        /\ DOMAIN call' = Campaigner /\ \A d \in Campaigner : call'[d] \in Calls[d] \cup {NoCall}
        /\ fate' \in [Campaigner -> Fates] /\ Sights /\ Rested
        /\ \A d \in Campaigner : Pursues(d, "APPLY")' => Pursues(d, "APPLY") /\ d # c
    BY <1>1, <1>2, <1>4, <1>6, <2>3, <2>6, StoringKeeps
  <2>8. q.expected = Len(periodChain) /\ q.expected \in 1..Len(periodChain)
    BY <1>4, <1>6, <2>2 DEF MayFollow
  <2>9. new \in PeriodRevision /\ new.by = c /\ new.terms = TermsOf(x)
    <3>1. periodChain[q.expected] \in PeriodRevision
      BY <2>8, RevisionTyped
    <3>2. TermsOf(x) \in AnyTerms
      BY <1>4, <1>5, ProposalTyped, TermsAsked DEF TermsOf
    <3> HIDE DEF q
    <3> QED
      BY <3>1, <3>2, SuccessorTyped
  <2> HIDE DEF new
  <2>10. /\ periodChain' \in Seq(PeriodRevision) /\ Len(periodChain') = Len(periodChain) + 1 /\ Len(periodChain) \in Nat
         /\ periodChain'[Len(periodChain) + 1] = new
         /\ \A n \in 1..Len(periodChain) : periodChain'[n] = periodChain[n]
         /\ ChainStored' /\ ProgressStands'
         /\ \A n \in DOMAIN periodChain' : periodChain'[n].life \in Lives
    <3>1. call'[c] = call[c] /\ periodChain' = Append(periodChain, new)
      BY <1>6, <2>1
    <3> QED
      BY <1>1, <2>7, <2>8, <2>9, <3>1, ChainGrows
  <2>11. \A d \in Campaigner : Pursues(d, "APPLY")' => Pursues(d, "APPLY") /\ call[d].proposal # x
    BY <1>5, <2>7
  <2>12. CampaignProposals' /\ proposal' \in [Campaigner -> [status : {"none", "PENDING", "APPLIED", "DISMISSED"}, became : Nat]]
    <3>1. StoredStay /\ UNCHANGED call /\ proposal[x].status = "PENDING" /\ x \in Campaigner
      BY <1>4, <1>5, <2>1, <2>7
    <3>2. proposal' = [proposal EXCEPT ![x] = [status |-> "APPLIED", became |-> Len(periodChain) + 1]]
      BY <1>6
    <3>3. new \in PeriodRevision /\ new.by = c /\ new.terms = TermsOf(x)
      BY <2>9
    <3>4. /\ Len(periodChain') = Len(periodChain) + 1 /\ Len(periodChain) \in Nat
          /\ periodChain'[Len(periodChain) + 1] = new /\ \A n \in 1..Len(periodChain) : periodChain'[n] = periodChain[n]
      BY <2>10
    <3> HIDE DEF q
    <3> QED
      BY <3>1, <3>2, <3>3, <3>4, <2>11, ProposalApplied
  <2>13. CreditsStored'
    BY <1>6, <2>1, <2>7, CreditsUnmoved DEF CampaignInv
  <2>14. CampaignRows'
    BY <1>6, <2>1, <2>3, <2>7, <2>10, <2>12 DEF CampaignInv, CampaignRows, CampaignTypeOK, Sights, Fates
  <2> QED
    BY <2>7, <2>10, <2>12, <2>13, <2>14 DEF CampaignInv
<1> QED
  BY <1>1, <1>3, <1>6

-----------------------------------------------------------------------------
(* The purchases and the points, and the whole.                            *)

LEMMA RepriceKeeps ==
  ASSUME CampaignInv, NEW p \in Bought, NEW n \in Prices[p], Reprice(p, n)
  PROVE  CampaignInv'
<1>1. /\ ~CardHeld(BoughtWith[p]) /\ price' = [price EXCEPT ![p] = n]
      /\ UNCHANGED <<periodChain, rulings, credited, earned, proposal, boundTo, redeemed, call, sight, fate>>
  BY DEF Reprice, bookVars
<1>2. DOMAIN price = Bought /\ \A b \in Bought : price[b] \in Prices[b]
  BY DEF CampaignInv, CampaignRows, CampaignTypeOK
<1>3. DOMAIN price' = Bought /\ \A b \in Bought : price'[b] \in Prices[b] /\ (b # p => price'[b] = price[b])
  BY <1>1, <1>2
<1>4. CampaignRows'
  BY <1>1, <1>3 DEF CampaignInv, CampaignRows, CampaignTypeOK
<1>5. StoredStay
  BY <1>1 DEF StoredStay
<1>6. CampaignKeys' /\ ChainStored' /\ CreditsStored' /\ CampaignProposals'
  BY <1>1, <1>5, KeysUnmoved, ChainUnmovedStored, CreditsUnmoved, ProposalsUnmoved DEF CampaignInv, Pursues
<1>7. ProgressStands'
  BY <1>1, <1>3 DEF CampaignInv, ProgressStands, CardHeld
<1> QED
  BY <1>4, <1>6, <1>7 DEF CampaignInv

LEMMA CreditSummed ==
  ASSUME CampaignInv
  PROVE  SumFunctionOnSet([c \in credited |-> call[c].points], credited) \in Int
<1> DEFINE f == [c \in credited |-> call[c].points]
<1>1. CASE credited = {}
  BY <1>1, NothingSummed
<1>2. CASE credited # {}
  <2>1. PICK d \in credited : credited = {d}
    BY <1>2 DEF CampaignInv, CreditsStored
  <2>2. d \in Campaigner /\ call[d] \in Calls[d] /\ call[d].op = "CREDIT"
    <3>1. d \in Campaigner /\ call[d] \in Calls[d] \cup {NoCall} /\ call[d].op = "CREDIT"
      BY DEF CampaignInv, CampaignRows, CampaignTypeOK, CreditsStored
    <3> QED
      BY <3>1 DEF NoCall
  <2>3. f[d] \in Int
    BY <2>2, CallTyped
  <2> HIDE DEF f
  <2>4. SumFunctionOnSet(f, {d}) = f[d]
    BY <2>3, OneSummed
  <2>5. SumFunctionOnSet(f, credited) \in Int
    BY <2>1, <2>3, <2>4
  <2> QED
    BY <2>5 DEF f
<1> QED
  BY <1>1, <1>2

LEMMA SpendKeeps ==
  ASSUME CampaignInv, Redeem
  PROVE  CampaignInv'
<1>1. /\ earned > 0 /\ earned' = earned - 1 /\ redeemed' = redeemed + 1
      /\ UNCHANGED <<periodChain, rulings, credited, proposal, boundTo, price, call, sight, fate>>
  BY DEF Redeem
<1>2. earned \in Nat /\ redeemed \in Nat
  BY DEF CampaignInv, CampaignRows, CampaignTypeOK
<1>3. CampaignRows'
  BY <1>1, <1>2 DEF CampaignInv, CampaignRows, CampaignTypeOK
<1>4. StoredStay
  BY <1>1 DEF StoredStay
<1>5. CampaignKeys' /\ ChainStored' /\ CampaignProposals'
  BY <1>1, <1>4, KeysUnmoved, ChainUnmovedStored, ProposalsUnmoved DEF CampaignInv, Pursues
<1>6. ProgressStands'
  BY <1>1, ProgressKept DEF CampaignInv
<1>7. CreditsStored'
  <2> DEFINE total == SumFunctionOnSet([c \in credited |-> call[c].points], credited)
  <2>1. total \in Int /\ total' = total
    BY <1>1, CreditSummed
  <2>2. Cardinality(credited) <= 1 /\ earned = total - redeemed
    BY DEF CampaignInv, CreditsStored, CreditedOnce
  <2>3. Cardinality(credited)' <= 1 /\ earned' = total' - redeemed'
    <3> HIDE DEF total
    <3> QED
      BY <1>1, <1>2, <2>1, <2>2
  <2>4. CreditedOnce'
    BY <2>3 DEF CreditedOnce
  <2> QED
    BY <1>1, <2>4 DEF CampaignInv, CreditsStored
<1> QED
  BY <1>3, <1>5, <1>6, <1>7 DEF CampaignInv

LEMMA StartsCampaign ==
  ASSUME CampaignInit
  PROVE  CampaignInv
<1>1. /\ periodChain \in Starts /\ price = FirstPrice /\ rulings = [p \in Bought |-> <<>>]
      /\ credited = {} /\ earned = 0 /\ redeemed = 0
      /\ proposal = [c \in Campaigner |-> Unproposed] /\ boundTo = [c \in Campaigner |-> NoVerdict]
      /\ call = [c \in Campaigner |-> NoCall] /\ sight = [c \in Campaigner |-> NoSight]
      /\ fate = [c \in Campaigner |-> NoVerdict]
  BY DEF CampaignInit
<1>2. Unproposed = [status |-> "none", became |-> 0] /\ NoSight.of = "nothing" /\ NoCall.op = "none"
  BY DEF Unproposed, NotApplied, NoSight, NoCall
<1>3. periodChain \in Seq(PeriodRevision) /\ \A n \in 1..Len(periodChain) : periodChain[n].by = NoVerdict
  <2> DEFINE own == {periodChain[n].terms : n \in DOMAIN periodChain}
             first == [by : {NoVerdict}, life : Lives, visible : BOOLEAN, terms : own]
  <2>1. periodChain \in Seq(first)
    BY <1>1, CampaignAssumption
  <2>2. own \subseteq AnyTerms
    BY <1>1 DEF AnyTerms
  <2> HIDE DEF own
  <2>3. \A r \in first : r \in PeriodRevision /\ r.by = NoVerdict
    BY <2>2 DEF PeriodRevision
  <2> HIDE DEF first
  <2> QED
    BY <2>1, <2>3
<1>4. \A n \in DOMAIN periodChain : periodChain[n].life \in Lives
  <2>1. ASSUME NEW n \in DOMAIN periodChain
        PROVE  periodChain[n] \in PeriodRevision
    BY <1>3
  <2> QED
    BY <2>1 DEF PeriodRevision
<1>5. DOMAIN price = Bought /\ \A p \in Bought : price[p] \in Prices[p]
  BY <1>1, CampaignAssumption
<1>6. CampaignRows
  BY <1>1, <1>2, <1>3, <1>4, <1>5 DEF CampaignRows, CampaignTypeOK
<1>7. \A c \in Campaigner : fate[c] = NoVerdict /\ call[c].op = "none" /\ proposal[c].status = "none" /\ proposal[c].became = 0
                            /\ sight[c].of = "nothing"
  BY <1>1, <1>2
<1>8. CampaignKeys
  BY <1>7, CampaignAssumption DEF CampaignKeys, CallsAnswered, KeysOnce, ReplaysBound, ReceiptsBound
<1>9. ChainStored /\ ProgressStands
  BY <1>3, <1>7 DEF ChainStored, ProgressStands
<1>10. CreditsStored
  <2>1. SumFunctionOnSet([c \in credited |-> call[c].points], credited) = 0
    BY <1>1, NothingSummed
  <2>2. Cardinality(credited) = 0
    BY <1>1, FS_EmptySet
  <2> QED
    BY <1>1, <2>1, <2>2 DEF CreditsStored, CreditedOnce
<1>11. CampaignProposals
  BY <1>3, <1>7 DEF CampaignProposals, ProposalsStored, ApplyingPending, OnePendingAlike, Became, Pursues
<1> QED
  BY <1>6, <1>8, <1>9, <1>10, <1>11 DEF CampaignInv

LEMMA StepKeepsCampaign == CampaignInv /\ [CampaignNext]_campaignVars => CampaignInv'
<1> SUFFICES ASSUME CampaignInv, [CampaignNext]_campaignVars PROVE CampaignInv'
  OBVIOUS
<1>1. ASSUME NEW c \in Campaigner, NEW q \in Calls[c], LookUp(c, q) \/ BeginApply(c, q) \/ Dismiss(c, q)
      PROVE  CampaignInv'
  BY <1>1, RequestKeeps, BeginApplyKeeps, DismissKeeps
<1>2. ASSUME NEW c \in Campaigner,
             \/ StoreRevision(c) \/ Rule(c) \/ ReadProgress(c) \/ StoreCredit(c)
             \/ FindCredit(c) \/ VoidCredit(c) \/ Propose(c) \/ Apply(c)
      PROVE  CampaignInv'
  BY <1>2, RevisionKeeps, RuleKeeps, ProgressKeeps, StoreCreditKeeps, FindCreditKeeps, VoidCreditKeeps,
     ProposeKeeps, ApplyKeeps
<1>3. ASSUME NEW p \in Bought, NEW n \in Prices[p], Reprice(p, n)
      PROVE  CampaignInv'
  BY <1>3, RepriceKeeps
<1>4. CASE Redeem
  BY <1>4, SpendKeeps
<1>5. CASE UNCHANGED campaignVars
  <2>1. UNCHANGED <<periodChain, price, rulings, credited, earned, redeemed, proposal, boundTo, call, sight, fate>>
    BY <1>5 DEF campaignVars
  <2>2. StoredStay
    BY <2>1 DEF StoredStay
  <2>3. CampaignKeys' /\ ChainStored' /\ CreditsStored' /\ CampaignProposals' /\ ProgressStands'
    BY <2>1, <2>2, KeysUnmoved, ChainUnmovedStored, CreditsUnmoved, ProposalsUnmoved, ProgressKept DEF CampaignInv, Pursues
  <2>4. CampaignRows'
    BY <2>1 DEF CampaignInv, CampaignRows, CampaignTypeOK
  <2> QED
    BY <2>3, <2>4 DEF CampaignInv
<1> QED
  BY <1>1, <1>2, <1>3, <1>4, <1>5 DEF CampaignNext

-----------------------------------------------------------------------------
(* What follows.                                                           *)

\* CampaignTypeOK, the type of what the campaigns keep.
THEOREM CampaignsTyped == CampaignSpec => []CampaignTypeOK
<1>1. CampaignInv => CampaignTypeOK
  BY DEF CampaignInv, CampaignRows
<1> QED
  BY <1>1, StartsCampaign, StepKeepsCampaign, PTL DEF CampaignSpec

LEMMA InvInStep == CampaignInv => CampaignsInStep
<1> SUFFICES ASSUME CampaignInv PROVE CampaignsInStep
  OBVIOUS
<1>1. CreditedOnce /\ ProgressStands /\ OnePendingAlike
  BY DEF CampaignInv, CreditsStored, CampaignProposals
<1>2. RevisedKnowingly
  BY DEF CampaignInv, ChainStored, RevisedKnowingly
<1>3. AppliedAsReviewed
  <2>1. Became
    BY DEF CampaignInv, CampaignProposals
  <2>2. ASSUME NEW x \in Campaigner, proposal[x].status = "APPLIED"
        PROVE  \A y \in Campaigner : proposal[y].became = proposal[x].became => y = x
    <3>1. proposal[x].became # 0
      BY <2>1, <2>2 DEF Became
    <3> QED
      BY <2>1, <3>1 DEF Became
  <2> QED
    BY <2>1, <2>2 DEF Became, AppliedAsReviewed
<1>4. OneAnswerPerKey
  <2>1. CampaignKeys
    BY DEF CampaignInv
  <2>2. ASSUME NEW c \in Campaigner, NEW d \in Campaigner, fate[c] = "stored", d \in EarlierCalls(call[c])
        PROVE  c = d
    BY <2>1, <2>2 DEF EarlierCalls, CampaignKeys, KeysOnce
  <2>3. ASSUME NEW c \in Campaigner, NEW d \in Campaigner, fate[c] = "stored", fate[d] = "replayed", call[c] = call[d]
        PROVE  boundTo[c] = boundTo[d]
    <3>1. PICK e \in Campaigner : fate[e] = "stored" /\ call[e] = call[d] /\ boundTo[e] = boundTo[d]
      BY <2>1, <2>3 DEF CampaignKeys, ReplaysBound
    <3>2. e = c
      BY <2>1, <2>3, <3>1 DEF CampaignKeys, KeysOnce
    <3> QED
      BY <3>1, <3>2
  <2>4. ASSUME NEW c \in Campaigner, fate[c] = "stored", TableFor(call[c].op) = "receipts"
        PROVE  boundTo[c] # NoVerdict /\ proposal[boundTo[c]] # Unproposed
    <3>1. boundTo[c] \in Campaigner /\ proposal[boundTo[c]].status # "none"
      BY <2>1, <2>4 DEF CampaignKeys, ReceiptsBound
    <3>2. Unproposed.status = "none"
      BY DEF Unproposed, NotApplied
    <3> QED
      BY <3>1, <3>2, CampaignAssumption
  <2> QED
    BY <2>2, <2>3, <2>4 DEF OneAnswerPerKey
<1> QED
  BY <1>1, <1>2, <1>3, <1>4 DEF CampaignsInStep

\* CampaignsInStep: a period is credited once at a time, and the account holds
\* what the credit gave it less what was spent; a credit is stored on the
\* revision and the purchases it read; a revision builds on the one its author
\* had seen; a proposal becomes one revision, as it was reviewed; and the
\* requests with one key are one.
THEOREM CampaignsStayInStep == CampaignSpec => []CampaignsInStep
BY StartsCampaign, StepKeepsCampaign, InvInStep, PTL DEF CampaignSpec
=============================================================================
