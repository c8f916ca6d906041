-------------------------- MODULE IncomeSettlements --------------------------
(***************************************************************************)
(* The income of src/income.  A receipt is money that arrived, an          *)
(* entitlement what a source owes for a month, and the settlement of a     *)
(* receipt shares it among the entitlements of its source.  All three are  *)
(* chains of revisions of canonical transactions, in one space of keys.    *)
(*                                                                         *)
(* A request's first step is what it reads before its locks.  Its second   *)
(* holds the row of the receipt, then those of the entitlements in         *)
(* ascending order, to the commit; every writer of a sum it reads holds    *)
(* one of these rows.  All take them in that order, so none waits in a     *)
(* circle.                                                                 *)
(***************************************************************************)
EXTENDS Integers, FiniteSets, FiniteSetsExt, Functions

CONSTANTS
    Claimant,          \* the requests
    Receipt,           \* the receipts; a new one is named by the request that records it
    Entitlement,       \* the entitlements, one for each source and month
    IncomeSource,      \* the sources
    SourceOf,          \* the source of each receipt and entitlement
    Received, Awarded, \* the amounts of the receipts and entitlements there are at first, 0 for none
    Claims,            \* what each request may ask for
    Undetermined       \* no answer yet

Creating == {"settle", "entitle", "receive"}
OfReceipts == {"settle", "resettle", "receive", "correct", "void receipt"}
OfMonths == {"entitle", "adjust", "void entitlement"}
\* The handlers refuse amounts and revisions below 1; a receipt comes into
\* being with the request that records it and, under its key, with no other.
ASSUME ClaimAssumption ==
    /\ IsFiniteSet(Receipt) /\ IsFiniteSet(Entitlement)
    /\ Received \in [Receipt -> Nat] /\ Awarded \in [Entitlement -> Nat]
    /\ Undetermined \notin {"stored", "replayed", "conflict", "refused"}
    /\ \A c \in Claimant : \A q \in Claims[c] :
          /\ \/ /\ q.op \in OfReceipts
                /\ q.receipt \in Receipt
             \/ /\ q.op \in OfMonths
                /\ q.entitlement \in Entitlement
          /\ q.op \in {"settle", "resettle"} => q.given \in [Entitlement -> Nat]
          /\ q.op \in {"receive", "correct", "entitle", "adjust"} => q.amount \in Nat \ {0}
          /\ q.op \notin Creating => q.expected \in Nat \ {0}
          /\ q.op = "receive" =>
                /\ Received[q.receipt] = 0
                /\ \A d \in Claimant : \A s \in Claims[d] :
                      s.op = "receive" /\ s.receipt = q.receipt => s.key = q.key

VARIABLES
    receipts,          \* the latest revision of each receipt
    entitlements,      \* and of each entitlement
    shares,            \* and of the settlement of each receipt
    archivedSources,   \* the archived sources
    claim,             \* what each request asks for, once it is under way
    glimpse,           \* what it read before its locks
    decided            \* its answer

incomeVars == <<receipts, entitlements, shares, archivedSources, claim, glimpse, decided>>
attributionVars == <<receipts, entitlements, shares>>

NoClaim == [op |-> "none"]
Unseen == [found |-> FALSE, archived |-> FALSE]
Revision == [no : Nat, amount : Nat, void : BOOLEAN]
First(amount) == [no |-> IF amount = 0 THEN 0 ELSE 1, amount |-> amount, void |-> FALSE]
NoShares == [e \in Entitlement |-> 0]

IncomeTypeOK ==
    /\ receipts \in [Receipt -> Revision] /\ entitlements \in [Entitlement -> Revision]
    /\ shares \in [Receipt -> [no : Nat, given : [Entitlement -> Nat]]]
    /\ archivedSources \subseteq IncomeSource
    /\ \A c \in Claimant : claim[c] \in Claims[c] \cup {NoClaim}
    /\ glimpse \in [Claimant -> [found : BOOLEAN, archived : BOOLEAN]]
    /\ decided \in [Claimant -> {"stored", "replayed", "conflict", "refused", Undetermined}]

IncomeInit ==
    /\ receipts = [r \in Receipt |-> First(Received[r])]
    /\ entitlements = [e \in Entitlement |-> First(Awarded[e])]
    /\ shares = [r \in Receipt |-> [no |-> 0, given |-> NoShares]]
    /\ archivedSources = {}
    /\ claim = [c \in Claimant |-> NoClaim]
    /\ glimpse = [c \in Claimant |-> Unseen]
    /\ decided = [c \in Claimant |-> Undetermined]

-----------------------------------------------------------------------------
(* Sums over the latest revisions of the settlements.                      *)

SumOf(f) == MapThenSumSet(LAMBDA x : f[x], DOMAIN f)
\* getActiveReceiptAllocatedCentsInTransaction.
GivenOf(r) == SumOf(shares[r].given)
\* getActiveEntitlementAllocatedCentsInTransaction.
GivenTo(e, among) == SumOf([r \in among |-> shares[r].given[e]])

-----------------------------------------------------------------------------
(* Keys.                                                                   *)

Entries == {c \in Claimant : decided[c] = "stored"}
Keyed(q) == {c \in Entries : claim[c].key = q.key}
\* What a fingerprint covers: not the revision that was expected.
Hashed(q) == Restrict(q, DOMAIN q \ {"expected"})
Remembered(q) ==
    IF \E c \in Keyed(q) : Hashed(claim[c]) = Hashed(q) THEN "replayed" ELSE "conflict"

\* The two settlement requests look their key up before they lock anything.
FoundEarly(q) ==
    CASE q.op = "settle"   -> {c \in Keyed(q) : claim[c].op \in Creating}
      [] q.op = "resettle" -> Keyed(q)
      [] OTHER             -> {}

\* What is read before the locks: the revision a settlement is based on, and
\* for a creation the archived mark of the source and an entitlement of the month.
Approach(c, q) ==
    /\ claim[c] = NoClaim
    /\ claim' = [claim EXCEPT ![c] = q]
    /\ glimpse' = [glimpse EXCEPT ![c] =
          CASE q.op = "entitle" -> [found |-> entitlements[q.entitlement].no > 0,
                                    archived |-> SourceOf[q.entitlement] \in archivedSources]
            [] q.op = "receive" -> [found |-> FALSE, archived |-> SourceOf[q.receipt] \in archivedSources]
            [] OTHER            -> Unseen]
    /\ decided' = [decided EXCEPT ![c] =
          IF FoundEarly(q) # {} THEN Remembered(q)
          ELSE IF q.op = "resettle" /\ q.expected > shares[q.receipt].no THEN "refused"
          ELSE Undetermined]
    /\ UNCHANGED <<attributionVars, archivedSources>>

\* Under the locks: the domain's checks, then the canonical transaction with
\* its key and its revision number, then the domain's row.
Answering(c, checks, current, effect) ==
    LET q == claim[c]
        answer == IF ~checks THEN "refused"
                  ELSE IF Keyed(q) # {} THEN Remembered(q)
                  ELSE IF current THEN "stored" ELSE "refused"
    IN  /\ decided[c] = Undetermined
        /\ decided' = [decided EXCEPT ![c] = answer]
        /\ IF answer = "stored" THEN effect ELSE UNCHANGED attributionVars
        /\ UNCHANGED <<claim, glimpse, archivedSources>>

-----------------------------------------------------------------------------
(* Settlements.                                                            *)

Stands(row) == row.no > 0 /\ ~row.void

\* The receipt covers what it gives, and each entitlement, of the same
\* source, has room for it beside what other receipts give.
Attributable(r, given) ==
    /\ Stands(receipts[r]) /\ SumOf(given) <= receipts[r].amount
    /\ \A e \in Entitlement : given[e] > 0 =>
          /\ Stands(entitlements[e]) /\ SourceOf[e] = SourceOf[r]
          /\ GivenTo(e, Receipt \ {r}) + given[e] <= entitlements[e].amount
AttributableAlone(r, given) ==
    /\ Stands(receipts[r]) /\ SumOf(given) <= receipts[r].amount
    /\ \A e \in Entitlement : given[e] > 0 =>
          /\ Stands(entitlements[e]) /\ SourceOf[e] = SourceOf[r] /\ given[e] <= entitlements[e].amount

\* createIncomeSettlement.
CreateSettlement(c) ==
    LET q == claim[c]
    IN  /\ q.op = "settle"
        /\ Answering(c, Attributable(q.receipt, q.given), shares[q.receipt].no = 0,
                     /\ shares' = [shares EXCEPT ![q.receipt] = [no |-> 1, given |-> q.given]]
                     /\ UNCHANGED <<receipts, entitlements>>)

\* reviseIncomeSettlement: the whole allocation is replaced, or cleared.
ReviseSettlement(c) ==
    LET q == claim[c]
    IN  /\ q.op = "resettle"
        /\ Answering(c, Attributable(q.receipt, q.given), shares[q.receipt].no = q.expected,
                     /\ shares' = [shares EXCEPT ![q.receipt] = [no |-> @.no + 1, given |-> q.given]]
                     /\ UNCHANGED <<receipts, entitlements>>)

-----------------------------------------------------------------------------
(* Receipts and entitlements.                                              *)

\* The revision that is expected exists and is not void.
Expects(row, n) == n \in 1..row.no /\ (n = row.no => ~row.void)
AtAny(row, n) == row.no >= n /\ ~row.void
\* The canonical transaction is still at it.
AtLatest(row, n) == row.no = n /\ ~row.void
Amended(row, amount) == [no |-> row.no + 1, amount |-> amount, void |-> row.void]
Voided(row) == [no |-> row.no + 1, amount |-> row.amount, void |-> TRUE]

\* createIncomeReceiptInTransaction.
RecordReceipt(c) ==
    LET q == claim[c]
    IN  /\ q.op = "receive"
        /\ Answering(c, TRUE, ~glimpse[c].archived,
                     /\ receipts' = [receipts EXCEPT ![q.receipt] = First(q.amount)]
                     /\ UNCHANGED <<entitlements, shares>>)

ReviseReceipt(c) ==
    LET q == claim[c]
        row == receipts[q.receipt]
    IN  /\ q.op = "correct"
        /\ Answering(c, Expects(row, q.expected) /\ q.amount >= GivenOf(q.receipt), AtLatest(row, q.expected),
                     /\ receipts' = [receipts EXCEPT ![q.receipt] = Amended(row, q.amount)]
                     /\ UNCHANGED <<entitlements, shares>>)
VoidReceipt(c) ==
    LET q == claim[c]
        row == receipts[q.receipt]
    IN  /\ q.op = "void receipt"
        /\ Answering(c, Expects(row, q.expected) /\ GivenOf(q.receipt) = 0, AtLatest(row, q.expected),
                     /\ receipts' = [receipts EXCEPT ![q.receipt] = Voided(row)]
                     /\ UNCHANGED <<entitlements, shares>>)
VoidReceiptAnyway(c) ==
    LET q == claim[c]
        row == receipts[q.receipt]
    IN  /\ q.op = "void receipt"
        /\ Answering(c, Expects(row, q.expected), AtLatest(row, q.expected),
                     /\ receipts' = [receipts EXCEPT ![q.receipt] = Voided(row)]
                     /\ UNCHANGED <<entitlements, shares>>)

\* createIncomeEntitlement: a replay answers with the entitlement it read
\* before, and fails when its first attempt committed since.
CreateEntitlement(c) ==
    LET q == claim[c]
    IN  /\ q.op = "entitle"
        /\ Answering(c, Keyed(q) # {} /\ Remembered(q) = "replayed" => glimpse[c].found,
                     ~glimpse[c].archived /\ entitlements[q.entitlement].no = 0,
                     /\ entitlements' = [entitlements EXCEPT ![q.entitlement] = First(q.amount)]
                     /\ UNCHANGED <<receipts, shares>>)
ReviseEntitlement(c) ==
    LET q == claim[c]
        row == entitlements[q.entitlement]
    IN  /\ q.op = "adjust"
        /\ Answering(c, Expects(row, q.expected) /\ q.amount >= GivenTo(q.entitlement, Receipt),
                     AtLatest(row, q.expected),
                     /\ entitlements' = [entitlements EXCEPT ![q.entitlement] = Amended(row, q.amount)]
                     /\ UNCHANGED <<receipts, shares>>)
VoidEntitlement(c) ==
    LET q == claim[c]
        row == entitlements[q.entitlement]
    IN  /\ q.op = "void entitlement"
        /\ Answering(c, Expects(row, q.expected) /\ GivenTo(q.entitlement, Receipt) = 0,
                     AtLatest(row, q.expected),
                     /\ entitlements' = [entitlements EXCEPT ![q.entitlement] = Voided(row)]
                     /\ UNCHANGED <<receipts, shares>>)

\* archiveIncomeSource.
ArchiveSource(s) ==
    /\ archivedSources' = archivedSources \cup {s}
    /\ UNCHANGED <<attributionVars, claim, glimpse, decided>>

IncomeNext ==
    \/ \E c \in Claimant :
          \/ \E q \in Claims[c] : Approach(c, q)
          \/ CreateSettlement(c) \/ ReviseSettlement(c)
          \/ RecordReceipt(c) \/ ReviseReceipt(c) \/ VoidReceipt(c)
          \/ CreateEntitlement(c) \/ ReviseEntitlement(c) \/ VoidEntitlement(c)
    \/ \E s \in IncomeSource : ArchiveSource(s)
IncomeSpec == IncomeInit /\ [][IncomeNext]_incomeVars

-----------------------------------------------------------------------------
(* Properties.                                                             *)

Worth(row) == IF Stands(row) THEN row.amount ELSE 0

\* No receipt gives more than it brought, whether it was settled, corrected
\* or voided last, and in whichever order the requests arrived.
ReceiptsCover == \A r \in Receipt : GivenOf(r) <= Worth(receipts[r])

\* No entitlement is paid beyond what is owed, by all receipts together.
EntitlementsCap == \A e \in Entitlement : GivenTo(e, Receipt) <= Worth(entitlements[e])

\* The chain a request writes to, and the revision it builds on.
ChainOf(q) ==
    CASE q.op \in {"settle", "resettle"} -> <<"settlement", q.receipt>>
      [] q.op \in {"receive", "correct", "void receipt"} -> <<"receipt", q.receipt>>
      [] OTHER -> <<"entitlement", q.entitlement>>
BuildsOn(q) == IF q.op \in Creating THEN 0 ELSE q.expected

\* A key stores one row, and no two rows build on the same revision: a receipt
\* has one settlement, a month of a source one entitlement, no change is lost.
AttributedOnce ==
    \A c, d \in Entries : c # d =>
       /\ claim[c].key # claim[d].key
       /\ ChainOf(claim[c]) = ChainOf(claim[d]) => BuildsOn(claim[c]) # BuildsOn(claim[d])

\* What arrived, what is owed and what was attributed stay in step.
IncomeInStep == ReceiptsCover /\ EntitlementsCap /\ AttributedOnce
=============================================================================
