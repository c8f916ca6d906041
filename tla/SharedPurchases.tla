--------------------------- MODULE SharedPurchases ---------------------------
(***************************************************************************)
(* A credit card purchase of src/credit-cards that the user shares with    *)
(* other people: its revisions, the revisions of its one split, and what   *)
(* each participant owes for it, an obligation of src/people that is       *)
(* settled like any other.                                                 *)
(*                                                                         *)
(* A request changes the purchase, the split or, coordinated, both in one  *)
(* transaction.  It looks its key up, locks the card, the purchase, the    *)
(* split and the people in the order of their ids, and looks its key up    *)
(* again: what follows the first lookup is one step.  A settlement holds   *)
(* the person's row only.  That the card is active and owes enough is      *)
(* CardStatements.  Of the deferred triggers the model has the one that    *)
(* binds a split to the latest revision of its purchase; the others check  *)
(* what SharesOwed states, and the service keeps it without them.          *)
(***************************************************************************)
EXTENDS Integers, Sequences, FiniteSets, SequencesExt, Functions

CONSTANTS
    Asker,         \* the requests the user's clients send
    Person,        \* the people, by the order of their ids
    Demands,       \* what each request may ask of the purchase and of the split
    Wordless       \* no answer yet

NoPart == [op |-> "none"]
NoShare == [p \in Person |-> 0]
ASSUME SharingAssumption ==
    /\ Person \subseteq Nat \ {0} /\ IsFiniteSet(Person)
    /\ \A c \in Asker : \A d \in Demands[c] :
          /\ d.purchase # NoPart => d.purchase.op \in {"record", "amend", "cancel"}
          /\ d.split # NoPart => d.split.op \in {"share", "reshare", "unshare"}
          /\ d.purchase # NoPart \/ d.split # NoPart
          /\ d.purchase.op \in {"record", "amend"} => d.purchase.amount \in Nat
          /\ d.split.op \in {"share", "reshare"} => d.split.weight \in [{0} \cup Person -> Nat]

VARIABLES
    billed,        \* the revisions of the purchase: the requests that made them
    shared,        \* the revisions of its split, with the purchase revision,
                   \* the gross amount and the obligation of each participant
    debt,          \* the obligations of each person that stem from the split
    known,         \* the people who are not archived
    demand,        \* what each request asks for, once it looked its key up
    word           \* its answer

sharingVars == <<billed, shared, debt, known, demand, word>>

NoDemand == [purchase |-> NoPart, split |-> NoPart]
SharingTypeOK ==
    /\ \A i \in DOMAIN billed : billed[i].op = "record" <=> i = 1
    /\ \A i \in DOMAIN shared : /\ shared[i].of \in DOMAIN billed /\ shared[i].gross \in Nat
                                /\ \A p \in Person : shared[i].item[p] \in 0..Len(debt[p])
    /\ debt \in [Person -> Seq([amount : Nat, settled : Nat, void : BOOLEAN])]
    /\ known \subseteq Person
    /\ DOMAIN demand = Asker /\ \A c \in Asker : demand[c] \in Demands[c] \cup {NoDemand}
    /\ word \in [Asker -> {"stored", "replayed", "conflict", "refused", Wordless}]

SharingInit ==
    /\ billed = <<>> /\ shared = <<>>
    /\ debt = [p \in Person |-> <<>>]
    /\ known = Person
    /\ demand = [c \in Asker |-> NoDemand]
    /\ word = [c \in Asker |-> Wordless]

-----------------------------------------------------------------------------
(* split-allocation.ts: how an amount is shared.                           *)

Summed(of, sharers) == SumFunctionOnSet(of, sharers)

\* By weight, the user's the weight of 0: what the division leaves goes in
\* single cents to the largest remainders, the user first among equals.
\* Equal shares are those of equal weights.
ByRatio(gross, weight) ==
    LET sharers == {0} \cup {p \in Person : weight[p] > 0}
        all == Summed(weight, sharers)
        base == [x \in sharers |-> (gross * weight[x]) \div all]
        rest == [x \in sharers |-> (gross * weight[x]) % all]
        residual == gross - Summed(base, sharers)
        before(x) == {y \in sharers : rest[y] > rest[x] \/ (rest[y] = rest[x] /\ y < x)}
    IN  [x \in sharers |-> base[x] + IF Cardinality(before(x)) < residual THEN 1 ELSE 0]

\* The shares of the people, and whether they are shares at all.
ShareOf(q, gross) ==
    LET sharers == {p \in Person : q.weight[p] > 0}
    IN  [p \in Person |-> IF p \notin sharers THEN 0
                          ELSE IF q.method = "MANUAL" THEN q.weight[p]
                          ELSE ByRatio(gross, q.weight)[p]]
Allocates(q, gross) ==
    LET share == ShareOf(q, gross)
    IN  /\ \A p \in Person : q.weight[p] > 0 => share[p] > 0
        /\ Summed(share, Person) <= gross

-----------------------------------------------------------------------------
(* What a transaction finds, and what each of its parts makes of it.       *)

OfKey(revisions, q) == {i \in DOMAIN revisions : revisions[i].key = q.key}
SplitRequests == [i \in DOMAIN shared |-> shared[i].ask]
Anew(revisions, q) == IF OfKey(revisions, q) = {} THEN "new"
                      ELSE IF \E i \in OfKey(revisions, q) : revisions[i] = q THEN "replayed"
                      ELSE "conflict"

Shares(revisions) == revisions # <<>> /\ Last(revisions).ask.op # "unshare"
Charged(bills) == bills # <<>> /\ Last(bills).op # "cancel"

\* updateCreditCardPurchaseInTransaction and voidCreditCardPurchaseInTransaction.
\* Alone, they leave the amount of a purchase that is shared as it is.
MayBill(q, coordinated) ==
    IF q.op = "record" THEN billed = <<>>
    ELSE /\ Charged(billed) /\ q.expected = Len(billed)
         /\ coordinated \/ ~Shares(shared) \/ (q.op = "amend" /\ q.amount = Last(billed).amount)

\* lockPeopleAndVerifyActive, and the checks of updateSplitObligation- and
\* voidSplitObligationInTransaction: who was a participant may be given no less
\* than was settled, and may leave if nothing was.
Holding == IF shared = <<>> THEN NoShare ELSE Last(shared).item
OfActive(share) == \A p \in Person : share[p] > 0 \/ Holding[p] > 0 => p \in known
KeepsSettled(share) == \A p \in Person : Holding[p] > 0 => debt[p][Holding[p]].settled <= share[p]
MayOwe(share) == OfActive(share) /\ KeepsSettled(share)

\* createSplitInTransaction, updateSplitInTransaction, voidSplitInTransaction.
MaySplit(q, bills, at) ==
    CASE q.op = "share" ->
            shared = <<>> /\ Charged(bills) /\ Allocates(q, Last(bills).amount)
            /\ MayOwe(ShareOf(q, Last(bills).amount))
      [] q.op = "reshare" ->
            Shares(shared) /\ q.expected = Len(shared) /\ bills[at].op # "cancel"
            /\ Allocates(q, bills[at].amount) /\ MayOwe(ShareOf(q, bills[at].amount))
      [] q.op = "unshare" -> Shares(shared) /\ q.expected = Len(shared) /\ MayOwe(NoShare)

SplitRevision(q, bills, at) ==
    LET share == IF q.op = "unshare" THEN NoShare ELSE ShareOf(q, bills[at].amount)
    IN  [ask |-> q,
         of |-> IF q.op = "unshare" THEN Last(shared).of ELSE at,
         gross |-> IF q.op = "unshare" THEN Last(shared).gross ELSE bills[at].amount,
         item |-> [p \in Person |-> IF share[p] = 0 THEN 0
                                    ELSE IF Holding[p] = 0 THEN Len(debt[p]) + 1 ELSE Holding[p]]]

\* A new participant gets an obligation, also one who left before; who stays
\* keeps theirs; who leaves has it voided.
Owing(share) ==
    [p \in Person |->
        IF share[p] > 0 /\ Holding[p] = 0
        THEN Append(debt[p], [amount |-> share[p], settled |-> 0, void |-> FALSE])
        ELSE IF share[p] > 0 THEN [debt[p] EXCEPT ![Holding[p]].amount = share[p]]
        ELSE IF Holding[p] > 0 THEN [debt[p] EXCEPT ![Holding[p]].void = TRUE]
        ELSE debt[p]]

\* trg_fn_guard_cc_purchase_split_binding_check, and the same of a split, at
\* the end of the transaction.
BoundToAny(bills, revisions) == Shares(revisions) => Charged(bills)
Bound(bills, revisions) == Shares(revisions) => Charged(bills) /\ Last(revisions).of = Len(bills)

-----------------------------------------------------------------------------
Raise(c, d) ==
    /\ demand[c] = NoDemand
    /\ demand' = [demand EXCEPT ![c] = d]
    /\ word' = [word EXCEPT ![c] =
                  IF d.split = NoPart /\ OfKey(billed, d.purchase) # {}
                  THEN Anew(billed, d.purchase)
                  ELSE IF d.purchase = NoPart /\ OfKey(SplitRequests, d.split) # {}
                  THEN Anew(SplitRequests, d.split)
                  ELSE Wordless]
    /\ UNCHANGED <<billed, shared, debt, known>>
Asking(c) == demand[c] # NoDemand /\ word[c] = Wordless
AnswerWith(c, answer) == word' = [word EXCEPT ![c] = answer] /\ UNCHANGED <<known, demand>>

\* The purchase alone.
ChangePurchase(c) ==
    LET q == demand[c].purchase
        bills == Append(billed, q)
        found == Anew(billed, q)
    IN  /\ Asking(c) /\ q # NoPart /\ demand[c].split = NoPart
        /\ IF found = "new" /\ MayBill(q, FALSE) /\ Bound(bills, shared)
           THEN billed' = bills /\ AnswerWith(c, "stored")
           ELSE UNCHANGED billed /\ AnswerWith(c, IF found = "new" THEN "refused" ELSE found)
        /\ UNCHANGED <<shared, debt>>

\* The split alone.
ChangeSplit(c) ==
    LET q == demand[c].split
        next == SplitRevision(q, billed, Len(billed))
        found == Anew(SplitRequests, q)
    IN  /\ Asking(c) /\ q # NoPart /\ demand[c].purchase = NoPart
        /\ IF found = "new" /\ MaySplit(q, billed, Len(billed))
                          /\ Bound(billed, Append(shared, next))
           THEN /\ shared' = Append(shared, next)
                /\ debt' = Owing(IF q.op = "unshare" THEN NoShare
                                 ELSE ShareOf(q, Last(billed).amount))
                /\ AnswerWith(c, "stored")
           ELSE /\ UNCHANGED <<shared, debt>>
                /\ AnswerWith(c, IF found = "new" THEN "refused" ELSE found)
        /\ UNCHANGED billed

\* recordSharedCreditCardPurchase, updateCreditCardPurchaseWithSplit and
\* voidCreditCardPurchaseWithSplit: one transaction, of which either part may
\* be a replay.  An update shares the amount of the revision its purchase part
\* made or replayed.
ChangeBoth(c) ==
    LET q == demand[c].purchase
        s == demand[c].split
        bill == Anew(billed, q)
        split == Anew(SplitRequests, s)
        bills == IF bill = "new" THEN Append(billed, q) ELSE billed
        at == IF s.op # "reshare" \/ bill = "new" THEN Len(bills)
              ELSE CHOOSE i \in OfKey(billed, q) : TRUE
        revisions == IF split = "new" THEN Append(shared, SplitRevision(s, bills, at)) ELSE shared
        allowed == /\ "conflict" \notin {bill, split}
                   /\ bill = "new" => MayBill(q, TRUE)
                   /\ split = "new" => MaySplit(s, bills, at)
    IN  /\ Asking(c) /\ q # NoPart /\ s # NoPart
        /\ IF "new" \in {bill, split} /\ allowed /\ Bound(bills, revisions)
           THEN /\ billed' = bills /\ shared' = revisions
                /\ debt' = IF split # "new" THEN debt
                           ELSE Owing(IF s.op = "unshare" THEN NoShare
                                      ELSE ShareOf(s, bills[at].amount))
                /\ AnswerWith(c, "stored")
           ELSE /\ UNCHANGED <<billed, shared, debt>>
                /\ AnswerWith(c, IF allowed /\ "new" \notin {bill, split} THEN "replayed"
                            ELSE IF "conflict" \in {bill, split} THEN "conflict" ELSE "refused")

-----------------------------------------------------------------------------
(* src/people: the settlements, a cent at a time, and the archiving.       *)

Adjusts(p, i, by) ==
    /\ debt' = [debt EXCEPT ![p][i].settled = @ + by]
    /\ UNCHANGED <<billed, shared, known, demand, word>>
SettleShare(p, i) ==
    /\ p \in known /\ ~debt[p][i].void /\ debt[p][i].settled < debt[p][i].amount
    /\ Adjusts(p, i, 1)
UnsettleShare(p, i) ==
    /\ p \in known /\ debt[p][i].settled > 0
    /\ Adjusts(p, i, -1)
Owes(p) == {i \in DOMAIN debt[p] : ~debt[p][i].void /\ debt[p][i].settled < debt[p][i].amount}
ArchiveParticipant(p) ==
    /\ p \in known /\ Owes(p) = {}
    /\ known' = known \ {p}
    /\ UNCHANGED <<billed, shared, debt, demand, word>>

SharingNext ==
    \/ \E c \in Asker : \/ \E d \in Demands[c] : Raise(c, d)
                        \/ ChangePurchase(c) \/ ChangeSplit(c) \/ ChangeBoth(c)
    \/ \E p \in Person : \/ ArchiveParticipant(p)
                         \/ \E i \in DOMAIN debt[p] : SettleShare(p, i) \/ UnsettleShare(p, i)
SharingSpec == SharingInit /\ [][SharingNext]_sharingVars

-----------------------------------------------------------------------------
(* Properties.                                                             *)

\* What the people owe for a purchase is their part of what it costs now,
\* each in one obligation: nobody is left with a share of an older amount, of
\* a purchase or a split that was voided, or of two revisions.
SharesOwed ==
    LET live(p) == {i \in DOMAIN debt[p] : ~debt[p][i].void}
        owed == [p \in Person |-> Summed([i \in DOMAIN debt[p] |-> debt[p][i].amount], live(p))]
    IN  IF Shares(shared)
        THEN LET latest == Last(shared)
             IN  /\ Charged(billed) /\ latest.gross = Last(billed).amount
                 /\ owed = ShareOf(latest.ask, Last(billed).amount)
                 /\ Summed(owed, Person) <= Last(billed).amount
        ELSE owed = NoShare

\* What a participant paid stays covered: no change of the split takes a share
\* below what is settled of it or voids it.
PaidSharesKept ==
    \A p \in Person : \A i \in DOMAIN debt[p] :
        debt[p][i].settled <= IF debt[p][i].void THEN 0 ELSE debt[p][i].amount

\* Nobody who was archived comes to owe anything again.
ArchivedOweNothing == \A p \in Person \ known : Owes(p) = {}

SharesInStep == SharesOwed /\ PaidSharesKept /\ ArchivedOweNothing
=============================================================================
