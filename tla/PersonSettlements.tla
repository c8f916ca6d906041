-------------------------- MODULE PersonSettlements --------------------------
(***************************************************************************)
(* What a person of src/people and the user owe each other: obligations,   *)
(* the settlements of one of them, and the settlement that spreads a sum   *)
(* the person pays over all open receivables and earmarks what is left.    *)
(*                                                                         *)
(* Every mutation holds the person's row from before its checks until it   *)
(* commits.  The settlement of all receivables locks the row of the user   *)
(* before that; any other meets the user's row last, in the foreign keys   *)
(* of what it inserts.  Two of them can wait for each other: PostgreSQL    *)
(* then aborts one, whose request fails.                                   *)
(***************************************************************************)
EXTENDS Integers, Sequences, FiniteSets, SequencesExt, Functions

CONSTANTS
    Party,         \* the requests the user's clients send
    Receivables,   \* what the person may owe, in the order it is collected
    Payables,      \* what the user may owe the person
    Petitions,     \* what each request may ask for
    NoOne

Obligation == ToSet(Receivables) \cup Payables
Verdict == {"stored", "replayed", "conflict", "refused", "aborted"}
\* Requests and obligations are finitely many.
ASSUME SettlementAssumption ==
    /\ Receivables \in Seq(ToSet(Receivables)) /\ IsInjective(Receivables)
    /\ IsFiniteSet(Payables) /\ Payables \cap ToSet(Receivables) = {}
    /\ IsFiniteSet(Party) /\ NoOne \notin Party \cup Verdict
    /\ \A c \in Party : \A q \in Petitions[c] :
         /\ q.op \in {"record", "update", "void", "archive", "settle", "unsettle", "collect"}
         /\ q.op \in {"record", "update", "void", "settle", "unsettle"} => q.obligation \in Obligation
         /\ q.op \in {"record", "update"} => q.amount \in Nat
         /\ q.op \in {"settle", "collect"} => q.cash \in Nat /\ q.via \in {"cash", "midas"}
         /\ q.op = "unsettle" => q.target \in Party

VARIABLES
    person,        \* the status of the person's latest revision
    obligation,    \* the latest revision of each obligation
    settlement,    \* the settlements each request stored
    spare,         \* the money of the Midas account outside its buckets
    userRow, personRow,    \* who holds these rows FOR UPDATE
    petition,      \* what each request asks for, once it started
    verdict        \* its answer

peopleVars == <<person, obligation, settlement, spare, userRow, personRow, petition, verdict>>
settledVars == <<person, obligation, settlement, spare>>

NoPetition == [op |-> "none"]
NoSettlement == [applied |-> 0, excess |-> 0, via |-> "cash", live |-> FALSE]
PeopleTypeOK ==
    /\ person \in {"ACTIVE", "ARCHIVED"}
    /\ obligation \in [Obligation -> [no : Nat, amount : Nat, void : BOOLEAN]]
    /\ settlement \in [Party -> [Obligation -> [applied : Nat, excess : Nat, via : {"cash", "midas"},
                                                live : BOOLEAN]]]
    /\ spare \in Nat
    /\ {userRow, personRow} \subseteq Party \cup {NoOne}
    /\ DOMAIN petition = Party /\ \A c \in Party : petition[c] \in Petitions[c] \cup {NoPetition}
    /\ verdict \in [Party -> Verdict \cup {NoOne}]

PeopleInit ==
    /\ person = "ACTIVE"
    /\ obligation = [o \in Obligation |-> [no |-> 0, amount |-> 0, void |-> FALSE]]
    /\ settlement = [c \in Party |-> [o \in Obligation |-> NoSettlement]]
    /\ spare = 0
    /\ userRow = NoOne /\ personRow = NoOne
    /\ petition = [c \in Party |-> NoPetition]
    /\ verdict = [c \in Party |-> NoOne]

-----------------------------------------------------------------------------
(* What the handlers compute from the stored rows.                         *)

Open(o) == obligation[o].no > 0 /\ ~obligation[o].void
Applied(o) ==
    SumFunctionOnSet([c \in Party |-> IF settlement[c][o].live THEN settlement[c][o].applied ELSE 0], Party)
StillOwed(o) == IF Open(o) THEN obligation[o].amount - Applied(o) ELSE 0
SumOver(obligations) == SumFunctionOnSet([o \in Obligation |-> StillOwed(o)], obligations)

TableOf(q) == CASE q.op \in {"settle", "unsettle"} -> "settlements"
                 [] q.op = "collect" -> "requests"
                 [] q.op = "archive" -> "people"
                 [] OTHER -> "obligations"
Same(q) == {c \in Party : /\ verdict[c] = "stored" /\ petition[c].key = q.key
                          /\ TableOf(petition[c]) = TableOf(q)}
Repeated(q) == IF \E c \in Same(q) : petition[c] = q THEN "replayed" ELSE "conflict"

-----------------------------------------------------------------------------
(* Locks.                                                                  *)

\* The lookup outside the lock; the settlement of all receivables has none.
Submit(c, q) ==
    /\ petition[c] = NoPetition
    /\ petition' = [petition EXCEPT ![c] = q]
    /\ verdict' = [verdict EXCEPT ![c] = IF q.op # "collect" /\ Same(q) # {} THEN Repeated(q) ELSE NoOne]
    /\ UNCHANGED <<settledVars, userRow, personRow>>

Running(c) == petition[c] # NoPetition /\ verdict[c] = NoOne
LockUser(c) ==
    /\ Running(c) /\ petition[c].op = "collect" /\ userRow = NoOne
    /\ userRow' = c
    /\ UNCHANGED <<settledVars, personRow, petition, verdict>>

LockPerson(c) ==
    /\ Running(c) /\ personRow = NoOne
    /\ petition[c].op = "collect" => userRow = c
    /\ personRow' = c
    /\ UNCHANGED <<settledVars, userRow, petition, verdict>>

ReleaseUser(c) == userRow' = (IF userRow = c THEN NoOne ELSE userRow) /\ UNCHANGED personRow
Release(c) == /\ userRow' = IF userRow = c THEN NoOne ELSE userRow
              /\ personRow' = IF personRow = c THEN NoOne ELSE personRow

\* Two transactions in a circle: either may be the one that is aborted.
AbortVictim(c) ==
    /\ userRow # NoOne /\ personRow # NoOne /\ userRow # personRow
    /\ c \in {userRow, personRow} /\ Running(c)
    /\ verdict' = [verdict EXCEPT ![c] = "aborted"]
    /\ Release(c)
    /\ UNCHANGED <<settledVars, petition>>

\* The transaction of c under the person's row.  What it stores references
\* the user; what it refuses or replays does not get that far.
Conclude(c, op, allowed, effect) ==
    /\ Running(c) /\ petition[c].op = op /\ personRow = c
    /\ LET answer == IF Same(petition[c]) # {} THEN Repeated(petition[c])
                     ELSE IF person = "ACTIVE" /\ allowed THEN "stored" ELSE "refused"
       IN  /\ answer = "stored" => userRow \in {NoOne, c}
           /\ verdict' = [verdict EXCEPT ![c] = answer]
           /\ IF answer = "stored" THEN effect ELSE UNCHANGED settledVars
    /\ Release(c)
    /\ UNCHANGED petition

-----------------------------------------------------------------------------
(* obligations.ts and archivePerson.                                       *)

AtRevision(q) == Open(q.obligation) /\ obligation[q.obligation].no = q.expected
Owe(o, amount, void) ==
    /\ obligation' = [obligation EXCEPT ![o] = [no |-> @.no + 1, amount |-> amount, void |-> void]]
    /\ UNCHANGED <<person, settlement, spare>>

RecordObligation(c) ==
    LET q == petition[c] IN Conclude(c, "record", obligation[q.obligation].no = 0,
                                     Owe(q.obligation, q.amount, FALSE))
UpdateObligation(c) ==
    LET q == petition[c] IN Conclude(c, "update", AtRevision(q) /\ q.amount >= Applied(q.obligation),
                                     Owe(q.obligation, q.amount, FALSE))
VoidObligation(c) ==
    LET q == petition[c] IN Conclude(c, "void", AtRevision(q) /\ Applied(q.obligation) = 0,
                                     Owe(q.obligation, obligation[q.obligation].amount, TRUE))

ArchiveDebtor(c) ==
    Conclude(c, "archive", SumOver(Payables) = 0,
             person' = "ARCHIVED" /\ UNCHANGED <<obligation, settlement, spare>>)
ArchivePerson(c) ==
    Conclude(c, "archive", SumOver(ToSet(Receivables)) = 0 /\ SumOver(Payables) = 0,
             person' = "ARCHIVED" /\ UNCHANGED <<obligation, settlement, spare>>)

-----------------------------------------------------------------------------
(* settlements.ts.                                                         *)

SmallerOf(a, b) == IF a < b THEN a ELSE b
AllApplied(o, cash, via) == [applied |-> cash, excess |-> 0, via |-> via, live |-> TRUE]
Settlement(o, cash, via) == LET applied == SmallerOf(cash, StillOwed(o))
                            IN  [applied |-> applied, excess |-> cash - applied, via |-> via, live |-> TRUE]

\* createSettlementCoreInTransaction.  What a person pays in excess is income;
\* the user never pays more than is owed, nor from earmarked money.
SettleOne(c) ==
    LET q == petition[c]
        o == q.obligation
        change == IF q.via = "cash" THEN 0 ELSE IF o \in Payables THEN -q.cash ELSE q.cash
    IN  Conclude(c, "settle",
                 /\ StillOwed(o) > 0
                 /\ o \in Payables => q.cash <= StillOwed(o)
                 /\ spare + change >= 0,
                 /\ settlement' = [settlement EXCEPT ![c][o] = Settlement(o, q.cash, q.via)]
                 /\ spare' = spare + change
                 /\ UNCHANGED <<person, obligation>>)

\* voidPersonSettlement, with the income receipt of its excess.
Unsettle(c) ==
    LET o == petition[c].obligation
        d == petition[c].target
        s == settlement[d][o]
        change == IF s.via = "cash" THEN 0
                  ELSE IF o \in Payables THEN s.applied ELSE -(s.applied + s.excess)
    IN  Conclude(c, "unsettle", s.live /\ spare + change >= 0,
                 /\ settlement' = [settlement EXCEPT ![d][o].live = FALSE]
                 /\ spare' = spare + change
                 /\ UNCHANGED <<person, obligation>>)

\* settlePersonReceivables.  The open receivables take the cash one by one,
\* the last of them all that is left.  What a payment to the Midas account
\* exceeds them by is earmarked at once, in a goal or as long-term money.
Place(o) == CHOOSE i \in DOMAIN Receivables : Receivables[i] = o
Unpaid == {o \in ToSet(Receivables) : StillOwed(o) > 0}
Ahead(o) == {p \in Unpaid : Place(p) < Place(o)}
IsLast(o) == \A p \in Unpaid : Place(p) <= Place(o)
CashLeft(o, cash) == cash - SumOver(Ahead(o))
CashOwed(o, cash) == SmallerOf(CashLeft(o, cash), StillOwed(o))
FirstTakesAll(o, cash) == IF Ahead(o) = {} THEN cash ELSE 0
CashFor(o, cash) == IF IsLast(o) THEN CashLeft(o, cash) ELSE SmallerOf(CashLeft(o, cash), StillOwed(o))
SettleReceivables(c) ==
    LET q == petition[c]
        paid == {o \in Unpaid : CashLeft(o, q.cash) > 0}
    IN  Conclude(c, "collect", Unpaid # {},
                 /\ settlement' = [settlement EXCEPT ![c] = [o \in Obligation |->
                                      IF o \in paid THEN Settlement(o, CashFor(o, q.cash), q.via) ELSE @[o]]]
                 /\ spare' = spare + (IF q.via = "cash" THEN 0
                                      ELSE SmallerOf(q.cash, SumOver(ToSet(Receivables))))
                 /\ UNCHANGED <<person, obligation>>)

-----------------------------------------------------------------------------
PartyStep(c) ==
    \/ LockUser(c) \/ LockPerson(c) \/ AbortVictim(c)
    \/ RecordObligation(c) \/ UpdateObligation(c) \/ VoidObligation(c) \/ ArchivePerson(c)
    \/ SettleOne(c) \/ Unsettle(c) \/ SettleReceivables(c)
PeopleNext == \E c \in Party : PartyStep(c) \/ \E q \in Petitions[c] : Submit(c, q)
PeopleFairness == \A c \in Party : WF_peopleVars(PartyStep(c))
PeopleSpec == PeopleInit /\ [][PeopleNext]_peopleVars

-----------------------------------------------------------------------------
(* Properties.                                                             *)

\* No obligation is settled beyond its amount, whatever is lowered, voided,
\* settled and unsettled at the same time, and a void one not at all.
NeverOversettled ==
    \A o \in Obligation : Applied(o) <= IF Open(o) THEN obligation[o].amount ELSE 0

\* A settlement of all receivables stores the whole sum or nothing of it, and
\* its key stores it once.
CollectedWhole ==
    \A c \in Party :
        LET sum == SumFunctionOnSet([o \in Obligation |-> settlement[c][o].applied + settlement[c][o].excess],
                                    Obligation)
        IN  /\ petition[c].op = "collect" => sum = IF verdict[c] = "stored" THEN petition[c].cash ELSE 0
            /\ \A d \in Party \ {c} : verdict[c] = "stored" /\ verdict[d] = "stored"
                                      => petition[c].key # petition[d].key
                                         \/ TableOf(petition[c]) # TableOf(petition[d])

\* Nothing counts as the user's income while the person still owes what the
\* same payment could have settled.
ExcessIsLast ==
    [][\A c \in Party : \A o \in Obligation :
         settlement'[c][o].excess > settlement[c][o].excess
         => \A p \in ToSet(Receivables) :
               (p = o \/ petition[c].op = "collect") => StillOwed(p)' = 0]_peopleVars

\* An archived person owes nothing and is owed nothing; no settlement that
\* started before is undone afterwards.
ArchivedIsSquare == person = "ARCHIVED" => \A o \in Obligation : StillOwed(o) = 0

\* The books of a person add up: obligations, settlements of one and of all,
\* and the archiving that relies on both.
DebtsAddUp == NeverOversettled /\ CollectedWhole /\ ArchivedIsSquare

\* Every request is answered, also when two wait for each other's row: time
\* and again none is left.
PetitionsEnd == []<>(\A c \in Party : ~Running(c))
=============================================================================
