------------------------ MODULE StatementReconciliation ------------------------
(***************************************************************************)
(* The reconciliation of a card's statements with its purchases of         *)
(* src/credit-cards/statement-reconciliation.ts: a chain of revisions per  *)
(* statement, each of which takes the statement's amount apart into what   *)
(* the user owes and what other people owe.                                *)
(*                                                                         *)
(* A reconciliation locks the statement's row, a void the reconciliation's *)
(* row, which the trigger of the chain locks as well, and neither locks    *)
(* the purchases and splits it cites.  The first reconciliation of a       *)
(* statement adds a row that refers to the card, and keeps the card's row  *)
(* shared from there to its commit; a reopening holds the card and then    *)
(* wants the statement, so that the two may lock each other out.           *)
(*                                                                         *)
(* The statements and purchases are those of one card.  What changes them  *)
(* is modelled by its effect: CardStatements and SharedPurchases have the  *)
(* detail.  The time a request may give for its revision is left out.      *)
(***************************************************************************)
EXTENDS Integers, Functions, Sequences

CONSTANTS
    Reconciler,      \* the requests the user's clients send
    Invoice,         \* the statements of the card
    Charge,          \* its purchases
    Friend,          \* the people purchases are shared with
    Submissions,     \* what each request may ask for
    InvoiceAmounts,  \* what a statement may be amended to
    Divisions,       \* the splits a purchase may get
    MaxInvoiced,     \* bound: the revisions of a statement
    MaxDivided,      \* bound: the revisions of a purchase's split
    Self,            \* the user
    Nowhere,         \* no purchase: what an adjustment refers to; no statement
    NoFinding        \* no answer yet

\* A split: whether it leaves the user a share, and who has the others.  A
\* split that was voided leaves the user everything.
Undivided == [own |-> TRUE, people |-> {}]
\* What a statement is made of: an amount of a purchase or an adjustment, who
\* owes it, and the revision of the split that says so, 0 when there is none.
Part == [charge : Charge \cup {Nowhere}, amount : Nat \ {0}, owner : Friend \cup {Self}, split : Nat]
Findings == {"stored", "replayed", "conflict", "refused", "aborted"}
ASSUME ReconciliationAssumption ==
    /\ NoFinding \notin Findings /\ Nowhere \notin Charge \cup Invoice /\ Self \notin Friend
    /\ InvoiceAmounts \subseteq Nat \ {0} /\ Undivided \notin Divisions
    /\ Divisions \subseteq [own : BOOLEAN, people : SUBSET Friend]
    /\ \A c \in Reconciler : \A q \in Submissions[c] :
          /\ q.op \in {"reconcile", "void"} /\ q.bill \in Invoice /\ q.expected \in Nat
          /\ IF q.op = "void" THEN q.parts = <<>> ELSE q.parts \in Seq(Part) \ {<<>>}
          /\ \A k \in DOMAIN q.parts : q.parts[k].charge = Nowhere => q.parts[k].split = 0

VARIABLES
    invoiced,   \* the revisions of each statement
    divided,    \* the revisions of each purchase's split
    dropped,    \* the purchases that were voided
    entries,    \* the revisions of the reconciliations
    submitted,  \* what each request asks for, once it looked its key up
    grip,       \* how far its transaction is, and what it read
    finding,    \* its answer
    reopening,  \* the statement whose reopening holds the card
    glance      \* what a reader has seen

invoiceVars == <<invoiced, divided, dropped>>
reconciliationVars == <<invoiceVars, entries, submitted, grip, finding, reopening, glance>>

NoSubmission == [op |-> "none"]
NoGrip == [at |-> "nothing", of |-> 0, no |-> 0]
NoGlance == [at |-> "idle"]
InvoiceRevision == [status : {"OPEN", "PAID", "VOID"}, amount : Nat \ {0}]
EntryRow == [bill : Invoice, no : Nat \ {0}, op : {"CREATE", "SUPERSEDE", "VOID"}, of : Nat,
             amount : Nat, parts : Seq(Part), by : Reconciler]
ReconciliationTypeOK ==
    /\ invoiced \in [Invoice -> Seq(InvoiceRevision) \ {<<>>}]
    /\ divided \in [Charge -> Seq(Divisions \cup {Undivided})]
    /\ dropped \subseteq Charge
    /\ entries \subseteq EntryRow
    /\ DOMAIN submitted = Reconciler /\ \A c \in Reconciler : submitted[c] \in Submissions[c] \cup {NoSubmission}
    /\ grip \in [Reconciler -> [at : {"nothing", "locked", "read", "written"}, of : Nat, no : Nat]]
    /\ finding \in [Reconciler -> Findings \cup {NoFinding}]
    /\ reopening \in Invoice \cup {Nowhere}
    /\ glance.at \in {"idle", "read", "checking", "NONE", "VOIDED", "STALE", "STATEMENT_VOID", "RECONCILED"}

ReconciliationInit ==
    /\ invoiced \in [Invoice -> {<<[status |-> "OPEN", amount |-> n]>> : n \in InvoiceAmounts}]
    /\ divided = [p \in Charge |-> <<>>] /\ dropped = {}
    /\ entries = {}
    /\ submitted = [c \in Reconciler |-> NoSubmission]
    /\ grip = [c \in Reconciler |-> NoGrip]
    /\ finding = [c \in Reconciler |-> NoFinding]
    /\ reopening = Nowhere /\ glance = NoGlance

-----------------------------------------------------------------------------
(* Evidence.                                                               *)

LatestInvoice(s) == invoiced[s][Len(invoiced[s])]
PartsTotal(parts) == SumFunctionOnSet([k \in DOMAIN parts |-> parts[k].amount], DOMAIN parts)

\* The split of a purchase after its first n revisions, 0 when it has none.
ActiveOf(splits, n) == IF n = 0 \/ splits[n] = Undivided THEN 0 ELSE n
\* It says that the owner of the part owes it.
OwedBy(splits, n, part) ==
    /\ part.split = ActiveOf(splits, n)
    /\ IF part.split = 0 THEN part.owner = Self
       ELSE IF part.owner = Self THEN splits[n].own ELSE part.owner \in splits[n].people
Unexamined(part) == TRUE
Consistent(part) == part.charge # Nowhere => OwedBy(divided[part.charge], Len(divided[part.charge]), part)
Evidenced(part) == Consistent(part) /\ part.charge \notin dropped
AllEvidenced(parts) == \A k \in DOMAIN parts : Evidenced(parts[k])

-----------------------------------------------------------------------------
(* The chain and the keys.                                                 *)

EntriesOf(s) == {e \in entries : e.bill = s}
NoEntry == [no |-> 0, op |-> "NONE"]
LastEntry(s) == IF EntriesOf(s) = {} THEN NoEntry ELSE CHOOSE e \in EntriesOf(s) : \A f \in EntriesOf(s) : f.no <= e.no

UnderKey(key) == {e \in entries : submitted[e.by].key = key}
\* replayReconcile compares what was stored with the statement and the parts
\* of the request, and not with the revisions the request expects.
SameBill(e, q) == e.bill = q.bill
SameEntry(e, q) == e.bill = q.bill /\ e.parts = q.parts
RepeatFinding(q) == IF \E e \in UnderKey(q.key) : SameEntry(e, q) THEN "replayed" ELSE "conflict"

\* The transaction ends with this answer.
Finish(c, w) ==
    /\ finding' = [finding EXCEPT ![c] = w] /\ grip' = [grip EXCEPT ![c] = NoGrip]
    /\ UNCHANGED <<invoiceVars, submitted, reopening, glance>>
EndWith(c, w) == Finish(c, w) /\ UNCHANGED entries
StoreEntry(c, e) == Finish(c, "stored") /\ entries' = entries \cup {e}
Advance(c, h) ==
    /\ grip' = [grip EXCEPT ![c] = h]
    /\ UNCHANGED <<invoiceVars, entries, submitted, finding, reopening, glance>>

Reached(c, place) == submitted[c].op = "reconcile" /\ finding[c] = NoFinding /\ grip[c].at = place
\* The row locks: of a statement, of the card, of a reconciliation, and that
\* of a key somebody writes a row under.
InvoiceUnheld(s) == FALSE
InvoiceHeld(s) == \E c \in Reconciler : grip[c].at # "nothing" /\ submitted[c].bill = s
CardShared == \E c \in Reconciler : grip[c].at \in {"read", "written"} /\ grip[c].no = 0
CardFree == reopening = Nowhere /\ ~CardShared
ChainHeld(s) == \E c \in Reconciler : grip[c].at = "written" /\ grip[c].no > 0 /\ submitted[c].bill = s
KeyHeld(key) == \E c \in Reconciler : grip[c].at = "written" /\ submitted[c].key = key

\* The lookup both requests begin with, without a lock.
LookKeyUp(c, q) ==
    /\ submitted[c] = NoSubmission
    /\ submitted' = [submitted EXCEPT ![c] = q]
    /\ finding' = [finding EXCEPT ![c] = IF UnderKey(q.key) # {} THEN RepeatFinding(q) ELSE NoFinding]
    /\ UNCHANGED <<invoiceVars, entries, grip, reopening, glance>>

-----------------------------------------------------------------------------
(* reconcileStatement.                                                     *)

\* The statement is locked; its latest revision must be the one that was
\* seen, and the parts must make it up.
AsNumbered(q) == q.of = Len(invoiced[q.bill])
AsSeen(q) == q.of = Len(invoiced[q.bill]) /\ LatestInvoice(q.bill).status # "VOID"
BeginReconcile(c) ==
    LET q == submitted[c]
    IN  /\ Reached(c, "nothing") /\ ~InvoiceHeld(q.bill)
        /\ IF UnderKey(q.key) # {} THEN EndWith(c, RepeatFinding(q))
           ELSE IF /\ AsSeen(q) /\ PartsTotal(q.parts) = LatestInvoice(q.bill).amount
                   /\ \A k \in DOMAIN q.parts : Consistent(q.parts[k])
           THEN Advance(c, [NoGrip EXCEPT !.at = "locked", !.of = Len(invoiced[q.bill])])
           ELSE EndWith(c, "refused")

\* The reconciliation is found, or made, for which the card must not be held;
\* then the last revision is read.
ReadChain(c) ==
    LET q    == submitted[c]
        last == LastEntry(q.bill)
    IN  /\ Reached(c, "locked") /\ (EntriesOf(q.bill) # {} \/ reopening = Nowhere)
        /\ IF last.op # "VOID" /\ last.no = q.expected
           THEN Advance(c, [grip[c] EXCEPT !.at = "read", !.no = last.no])
           ELSE EndWith(c, "refused")

\* The rows are written: the index of the keys absorbs a row there is, that of
\* the numbers does not, and the trigger of the parts looks at the evidence.
NumberUnchecked(s, no) == TRUE
NumberFree(s, no) == \A e \in EntriesOf(s) : e.no # no
WriteEntry(c) ==
    LET q == submitted[c]
    IN  /\ Reached(c, "read") /\ ~KeyHeld(q.key)
        /\ IF UnderKey(q.key) # {}
           THEN EndWith(c, RepeatFinding(q))
           ELSE IF ~NumberFree(q.bill, grip[c].no + 1) THEN EndWith(c, "aborted")
           ELSE IF AllEvidenced(q.parts) THEN Advance(c, [grip[c] EXCEPT !.at = "written"])
           ELSE EndWith(c, "refused")

CommitEntry(c) ==
    LET q == submitted[c]
    IN  /\ Reached(c, "written")
        /\ StoreEntry(c, [bill |-> q.bill, no |-> grip[c].no + 1,
                          op |-> IF grip[c].no = 0 THEN "CREATE" ELSE "SUPERSEDE",
                          of |-> grip[c].of, amount |-> invoiced[q.bill][grip[c].of].amount,
                          parts |-> q.parts, by |-> c])

-----------------------------------------------------------------------------
(* voidStatementReconciliation, which holds the reconciliation's row all   *)
(* along and is one step.                                                  *)

VoidableStill(last, q) == last.op \notin {"NONE", "VOID"} /\ last.no = q.expected
VoidEntry(c) ==
    LET q    == submitted[c]
        last == LastEntry(q.bill)
    IN  /\ q.op = "void" /\ finding[c] = NoFinding /\ ~ChainHeld(q.bill)
        /\ IF EntriesOf(q.bill) = {} THEN EndWith(c, "refused")
           ELSE IF UnderKey(q.key) # {} THEN EndWith(c, RepeatFinding(q))
           ELSE IF ~VoidableStill(last, q) THEN EndWith(c, "refused")
           ELSE /\ ~KeyHeld(q.key)
                /\ StoreEntry(c, [last EXCEPT !.no = @ + 1, !.op = "VOID", !.parts = <<>>, !.by = c])

-----------------------------------------------------------------------------
(* The statements, the purchases and their splits.                         *)

Restated(s, status, amount) ==
    /\ Len(invoiced[s]) < MaxInvoiced
    /\ invoiced' = [invoiced EXCEPT ![s] = Append(@, [status |-> status, amount |-> amount])]
    /\ UNCHANGED <<divided, dropped, entries, submitted, grip, finding, glance>>

\* An update, a payment and a void lock the statement's row alone.
ChangeInvoice(s) ==
    /\ LatestInvoice(s).status = "OPEN" /\ ~InvoiceHeld(s) /\ UNCHANGED reopening
    /\ \/ \E n \in InvoiceAmounts : Restated(s, "OPEN", n)
       \/ \E status \in {"PAID", "VOID"} : Restated(s, status, LatestInvoice(s).amount)

\* A reopening holds the card's row, and then the statement's.
BeginReopen(s) ==
    /\ CardFree /\ LatestInvoice(s).status = "PAID" /\ Len(invoiced[s]) < MaxInvoiced
    /\ reopening' = s
    /\ UNCHANGED <<invoiceVars, entries, submitted, grip, finding, glance>>
EndReopen ==
    /\ reopening # Nowhere /\ ~InvoiceHeld(reopening) /\ reopening' = Nowhere
    /\ Restated(reopening, "OPEN", LatestInvoice(reopening).amount)

\* A purchase is split, or its split changed or voided, under the card's row.
Divide(p, d) ==
    /\ CardFree /\ p \notin dropped /\ Len(divided[p]) < MaxDivided
    /\ d = Undivided => ActiveOf(divided[p], Len(divided[p])) # 0
    /\ divided' = [divided EXCEPT ![p] = Append(@, d)]
    /\ UNCHANGED <<invoiced, dropped, entries, submitted, grip, finding, reopening, glance>>

\* A purchase is voided, with its split if there is one.
Drop(p) ==
    /\ CardFree /\ p \notin dropped
    /\ dropped' = dropped \cup {p}
    /\ divided' = IF ActiveOf(divided[p], Len(divided[p])) = 0 THEN divided
                  ELSE [divided EXCEPT ![p] = Append(@, Undivided)]
    /\ UNCHANGED <<invoiced, entries, submitted, grip, finding, reopening, glance>>

\* The first reconciliation of a statement that is being reopened holds what
\* the reopening wants and wants what it holds: the database ends one of them.
NeverLockedOut(c) == FALSE
LockedOut(c) == Reached(c, "locked") /\ EntriesOf(submitted[c].bill) = {} /\ reopening = submitted[c].bill
EndLockout(c) ==
    /\ LockedOut(c)
    /\ \/ EndWith(c, "aborted")
       \/ reopening' = Nowhere /\ UNCHANGED <<invoiceVars, entries, submitted, grip, finding, glance>>

-----------------------------------------------------------------------------
(* getStatementReconciliation, whose reads are statements of their own.    *)
(* The rows of a revision are stored together, so that none is unsealed.   *)

Showing(v) == glance' = v /\ UNCHANGED <<invoiceVars, entries, submitted, grip, finding, reopening>>
ReadEntry(s) ==
    LET last == LastEntry(s)
    IN  /\ glance = NoGlance
        /\ Showing(CASE last.op = "NONE" -> [at |-> "NONE"]
                  [] last.op = "VOID" -> [at |-> "VOIDED"]
                  [] OTHER -> [at |-> "read", entry |-> last, since |-> Len(invoiced[s]), of |-> 0, next |-> 1,
                               from |-> [p \in Charge |-> Len(divided[p])]])
AnyAmount(e) == TRUE
SameAmount(e) == LatestInvoice(e.bill).amount = e.amount
ReadInvoice ==
    /\ glance.at = "read"
    /\ LET e == glance.entry
       IN  Showing(IF LatestInvoice(e.bill).status = "VOID" THEN [at |-> "STATEMENT_VOID"]
                ELSE IF SameAmount(e) THEN [glance EXCEPT !.at = "checking", !.of = Len(invoiced[e.bill])]
                ELSE [at |-> "STALE"])
ReadPart ==
    /\ glance.at = "checking"
    /\ LET parts == glance.entry.parts
       IN  Showing(IF ~Evidenced(parts[glance.next]) THEN [at |-> "STALE"]
                ELSE IF glance.next = Len(parts) THEN [glance EXCEPT !.at = "RECONCILED"]
                ELSE [glance EXCEPT !.next = @ + 1])

ReconcilerStep(c) ==
    BeginReconcile(c) \/ ReadChain(c) \/ WriteEntry(c) \/ CommitEntry(c) \/ VoidEntry(c) \/ EndLockout(c)
ReconciliationNext ==
    \/ \E c \in Reconciler : ReconcilerStep(c) \/ \E q \in Submissions[c] : LookKeyUp(c, q)
    \/ \E s \in Invoice : ChangeInvoice(s) \/ BeginReopen(s) \/ ReadEntry(s)
    \/ \E p \in Charge : Drop(p) \/ \E d \in Divisions \cup {Undivided} : Divide(p, d)
    \/ EndReopen \/ ReadInvoice \/ ReadPart
\* A transaction goes on when it can, and the database serves who waits for a
\* row in turn, and ends one of those who lock each other out.
ReconciliationFairness ==
    /\ \A c \in Reconciler : WF_reconciliationVars(ReconcilerStep(c)) /\ SF_reconciliationVars(ReadChain(c))
    /\ WF_reconciliationVars(EndReopen)
ReconciliationSpec ==
    ReconciliationInit /\ [][ReconciliationNext]_reconciliationVars /\ ReconciliationFairness

-----------------------------------------------------------------------------
(* Properties.                                                             *)

\* The revisions of a statement are numbered without a gap or a fork, each by
\* a request that had seen the one before it, and a void is the last: though a
\* reconciliation and a void lock different rows.
ChainsWhole ==
    \A e \in entries :
        /\ \A f \in entries : f.bill = e.bill /\ f.no = e.no => f = e
        /\ submitted[e.by].expected = e.no - 1
        /\ e.no > 1 => \E f \in entries : f.bill = e.bill /\ f.no = e.no - 1 /\ f.op # "VOID"
        /\ (e.op = "CREATE") <=> (e.no = 1)

\* The parts of a revision make up the amount of the statement revision they
\* were made for, and a void keeps both of the revision it voids.
EntriesAddUp ==
    \A e \in entries :
        /\ e.of \in DOMAIN invoiced[e.bill] /\ invoiced[e.bill][e.of].amount = e.amount
        /\ IF e.op = "VOID"
           THEN e.parts = <<>> /\ \E f \in entries : f.bill = e.bill /\ f.no = e.no - 1 /\ f.of = e.of
           ELSE PartsTotal(e.parts) = e.amount /\ invoiced[e.bill][e.of].status # "VOID"

\* Every part that cites a purchase was owed as it says when it was written.
EvidenceReal ==
    \A e \in entries : \A k \in DOMAIN e.parts : LET p == e.parts[k].charge IN
        p # Nowhere => \E n \in 0..Len(divided[p]) : OwedBy(divided[p], n, e.parts[k])

\* What a transaction has read stands until it commits: the statement, because
\* it is locked; the chain, but for a void; the evidence of the reconciliation
\* that is a statement's first, because it keeps the card.
ReadStands ==
    \A c \in Reconciler : grip[c].at # "nothing" =>
        /\ grip[c].of = Len(invoiced[submitted[c].bill])
        /\ grip[c].at # "locked" =>
              \/ LastEntry(submitted[c].bill).no = grip[c].no
              \/ grip[c].at = "read" /\ LastEntry(submitted[c].bill).op = "VOID"
        /\ grip[c].at = "written" /\ grip[c].no = 0 => AllEvidenced(submitted[c].parts)

\* Requests with one key are one: one row is theirs, whatever the statement,
\* and who is told it is there submitted for the same.
OneEntryPerKey ==
    /\ \A e, f \in entries : submitted[e.by].key = submitted[f.by].key => e = f
    /\ \A c \in Reconciler : finding[c] \in {"stored", "replayed"} =>
          \E e \in entries : /\ submitted[e.by].key = submitted[c].key
                             /\ e.bill = submitted[c].bill /\ e.parts = submitted[c].parts

\* Revisions, statements, evidence and keys stay in step.
ReconciliationsInStep == ChainsWhole /\ EntriesAddUp /\ EvidenceReal /\ ReadStands /\ OneEntryPerKey

\* What is called reconciled makes up the statement as it was at some time
\* while it was read, and each of its parts was owed as it says at some such
\* time: though its reads are not of one instant.
ReadInItsTime ==
    glance.at = "RECONCILED" =>
        LET e == glance.entry IN
        /\ e \in entries /\ glance.of \in glance.since..Len(invoiced[e.bill])
        /\ invoiced[e.bill][glance.of].status # "VOID" /\ invoiced[e.bill][glance.of].amount = PartsTotal(e.parts)
        /\ \A k \in DOMAIN e.parts : LET p == e.parts[k].charge IN
              p # Nowhere => \E n \in glance.from[p]..Len(divided[p]) : OwedBy(divided[p], n, e.parts[k])

\* No request waits for ever: not for a statement, not for the card, though
\* some take the two in one order and some in the other.
ReconcilersAnswered == []<>(\A c \in Reconciler : submitted[c] # NoSubmission => finding[c] # NoFinding)
=============================================================================
