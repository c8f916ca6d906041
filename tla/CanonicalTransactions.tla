------------------------ MODULE CanonicalTransactions ------------------------
(***************************************************************************)
(* The canonical transactions of src/transactions with their ledger        *)
(* effects, as src/manual-expenses drives them: a transaction is a chain   *)
(* of numbered revisions (create, updates, void), and each revision is     *)
(* bound to the journal entry that applies it and to the entry that        *)
(* reverses the revision before it.                                        *)
(*                                                                         *)
(* A session is one HTTP request and one READ COMMITTED transaction, a     *)
(* statement per step; it inserts at most one revision, so the revision is *)
(* row[s], and the transaction it may create has the id s.  A posting and  *)
(* a reversal are single steps here: module JournalPosting has their       *)
(* statements.                                                             *)
(***************************************************************************)
EXTENDS Integers, FiniteSets

CONSTANTS
    Session,         \* database sessions, each serving one request
    Key,             \* idempotency keys
    Field,           \* the fields of a payload, the date among them
    Value,           \* the values a field may have
    Given,           \* the fields a create request may state
    Patch,           \* the fields an update request may state
    RevisionNo,      \* the revision numbers an edit request may state
    SourceOf,        \* the external reference that comes with each key
    None             \* no value

Content == [Field -> Value]
Partial == [Field -> Value \cup {None}]
Request ==
    [op : {"create"}, key : Key, given : Given]
      \cup [op : {"update"}, key : Key, tx : Session, expected : RevisionNo, given : Patch]
      \cup [op : {"void"}, key : Key, tx : Session, expected : RevisionNo]
Revision == [tx : Session, no : Nat, op : {"create", "update", "void"},
             prev : Session \cup {None}, content : Content]

ASSUME GivenAssumption == Given \subseteq Partial /\ Patch \subseteq Partial
ASSUME RevisionNoAssumption == RevisionNo \subseteq Nat
ASSUME SourceAssumption == DOMAIN SourceOf = Key
ASSUME NoValueAssumption ==
    /\ None \notin Session /\ None \notin Value
    /\ None \notin Content /\ None \notin Request /\ None \notin Revision
    /\ None \notin [no : Nat, content : Content, void : BOOLEAN]

VARIABLES
    request,      \* what each session was asked to do
    pc,           \* the statement each session executes next
    answer,       \* the revision or the error each session answers with
    base,         \* the content each request's fields are laid over
    identity,     \* whether the session inserted a canonical_transactions row
    row,          \* the transaction_revisions row each session inserted
    sourced,      \* whether it inserted its transaction_sources row
    reversal,     \* the revision whose applied entry the session reversed
    applied,      \* whether it posted the entry that applies its revision
    bound         \* whether it inserted the transaction_ledger_bindings row

written == <<identity, row, sourced, reversal, applied, bound>>
vars == <<request, pc, answer, base, written>>

Error == {"conflict", "revisionConflict", "alreadyVoided",
          "sourceConflict", "alreadyReversed", "incompleteState", "effectInvalid", "rolledBack"}
PC == {"idle", "read", "lookup", "identity", "lateIdentity", "parent", "latest",
       "revision", "source", "reverse", "apply", "bind", "commit",
       "committed", "aborted"}
Finished == {"committed", "aborted"}

TypeOK ==
    /\ request \in [Session -> Request \cup {None}]
    /\ pc \in [Session -> PC]
    /\ answer \in [Session -> Session \cup Error \cup {None}]
    /\ base \in [Session -> Content \cup {None}]
    /\ identity \in [Session -> BOOLEAN]
    /\ row \in [Session -> Revision \cup {None}]
    /\ sourced \in [Session -> BOOLEAN]
    /\ reversal \in [Session -> Session \cup {None}]
    /\ applied \in [Session -> BOOLEAN]
    /\ bound \in [Session -> BOOLEAN]

-----------------------------------------------------------------------------
Active(s) == request[s] # None /\ pc[s] \notin Finished
Committed == {s \in Session : pc[s] = "committed" /\ row[s] # None}
Chain(t) == {s \in Committed : row[s].tx = t}
LatestOf(t) == {s \in Chain(t) : \A r \in Chain(t) : row[r].no <= row[s].no}

\* The payload of a request: the fields it states laid over its base.
Stated(s) == request[s].given
Merged(s) ==
    [f \in Field |-> IF request[s].given[f] = None THEN base[s][f] ELSE request[s].given[f]]

\* Rows, committed or not, that the unique indexes hold against session s.
SameIdentity(s) == {t \in Session \ {s} : identity[t] /\ request[t].key = request[s].key}
SameKey(s) == {t \in Session \ {s} : row[t] # None /\ request[t].key = request[s].key}
SameNumber(s, r) ==
    {t \in Session \ {s} : row[t] # None /\ row[t].tx = r.tx /\ row[t].no = r.no}
SameSource(s) ==
    {t \in Session \ {s} : /\ sourced[t]
                           /\ SourceOf[request[s].key] # None
                           /\ SourceOf[request[t].key] = SourceOf[request[s].key]}

\* Sessions holding the FOR UPDATE lock on the canonical row of transaction t.
LockedPastRollback(t) ==
    {s \in Session : /\ request[s] # None /\ request[s].op # "create"
                     /\ request[s].tx = t
                     /\ pc[s] \in {"latest", "revision", "source", "reverse", "apply",
                                   "bind", "commit", "aborted"}}
LockedBy(t) ==
    {s \in Session : /\ request[s] # None /\ request[s].op # "create"
                     /\ request[s].tx = t
                     /\ pc[s] \in {"latest", "revision", "source", "reverse", "apply",
                                   "bind", "commit"}}

-----------------------------------------------------------------------------
Init ==
    /\ request = [s \in Session |-> None]
    /\ pc = [s \in Session |-> "idle"]
    /\ answer = [s \in Session |-> None]
    /\ base = [s \in Session |-> None]
    /\ identity = [s \in Session |-> FALSE]
    /\ row = [s \in Session |-> None]
    /\ sourced = [s \in Session |-> FALSE]
    /\ reversal = [s \in Session |-> None]
    /\ applied = [s \in Session |-> FALSE]
    /\ bound = [s \in Session |-> FALSE]

Goto(s, label) == pc' = [pc EXCEPT ![s] = label]
Rollback(s, why) ==
    /\ Goto(s, "aborted")
    /\ answer' = [answer EXCEPT ![s] = why]
    /\ identity' = [identity EXCEPT ![s] = FALSE]
    /\ row' = [row EXCEPT ![s] = None]
    /\ sourced' = [sourced EXCEPT ![s] = FALSE]
    /\ reversal' = [reversal EXCEPT ![s] = None]
    /\ applied' = [applied EXCEPT ![s] = FALSE]
    /\ bound' = [bound EXCEPT ![s] = FALSE]
    /\ UNCHANGED <<request, base>>

\* A date the request leaves out is the clock's; the clock shows any value.
BeginCreate(s, r) ==
    /\ pc[s] = "idle" /\ r.op = "create"
    /\ request' = [request EXCEPT ![s] = r]
    /\ \E now \in Value :
          base' = [base EXCEPT ![s] = [f \in Field |-> IF r.given[f] = None THEN now ELSE r.given[f]]]
    /\ Goto(s, "lookup")
    /\ UNCHANGED <<answer, written>>

\* A client edits a transaction from a revision it has been shown.
Shown(r) == \E s \in Chain(r.tx) : row[s].no = r.expected
BeginEdit(s, r) ==
    /\ pc[s] = "idle" /\ r.op # "create" /\ Shown(r)
    /\ request' = [request EXCEPT ![s] = r]
    /\ Goto(s, IF r.op = "update" THEN "read" ELSE "lookup")
    /\ UNCHANGED <<answer, base, written>>

\* updateManualExpense lays the request over the latest revision, unlocked.
ReadLatest(s) ==
    /\ pc[s] = "read"
    /\ \E t \in LatestOf(request[s].tx) : base' = [base EXCEPT ![s] = row[t].content]
    /\ Goto(s, "lookup")
    /\ UNCHANGED <<request, answer, written>>

SameTarget(s, t) == row[t].op = request[s].op
SameRequest(s, t) ==
    /\ row[t].op = request[s].op
    /\ request[s].op # "create" => row[t].tx = request[s].tx
    /\ request[s].op # "void" => row[t].content = Merged(s)
\* Whether revision t is bound to an entry that applies it.
Effective(t) == bound[t] /\ applied[t]
Intact(t) ==
    /\ bound[t]
    /\ applied[t] <=> row[t].op # "void"
    /\ row[t].op # "create" => reversal[t] # None /\ Effective(row[t].prev)
\* Answer from the committed revision t that has the session's key; the ledger
\* calls that are replayed with it find the entries it is bound to.
AnswerFrom(s, t) ==
    \/ SameRequest(s, t) /\ ~Intact(t) /\ Rollback(s, "incompleteState")
    \/ /\ SameRequest(s, t) /\ Intact(t)
       /\ answer' = [answer EXCEPT ![s] = t]
       /\ Goto(s, "committed")
       /\ UNCHANGED <<request, base, written>>
    \/ ~SameRequest(s, t) /\ Rollback(s, "conflict")

EarlyLookup(s) ==
    /\ pc[s] = "lookup"
    /\ LET found == Committed \cap (IF request[s].op = "create" THEN SameIdentity(s) ELSE SameKey(s)) IN
       \/ \E t \in found : AnswerFrom(s, t)
       \/ /\ found = {}
          /\ Goto(s, IF request[s].op = "create" THEN "identity" ELSE "parent")
          /\ UNCHANGED <<request, answer, base, written>>

\* INSERT INTO canonical_transactions ... ON CONFLICT DO NOTHING.
InsertIdentity(s) ==
    /\ pc[s] = "identity"
    /\ SameIdentity(s) \subseteq Committed
    /\ IF SameIdentity(s) # {}
       THEN Goto(s, "lateIdentity") /\ UNCHANGED identity
       ELSE Goto(s, "revision") /\ identity' = [identity EXCEPT ![s] = TRUE]
    /\ UNCHANGED <<request, answer, base, row, sourced, reversal, applied, bound>>

LateIdentity(s) ==
    /\ pc[s] = "lateIdentity"
    /\ \E t \in SameIdentity(s) \cap Committed : AnswerFrom(s, t)

LockParent(s) ==
    /\ pc[s] = "parent"
    /\ LockedBy(request[s].tx) = {}
    /\ Goto(s, "latest")
    /\ UNCHANGED <<request, answer, base, written>>

AnyRevision(s, t) == row[t].op # "void"
Expected(s, t) == row[t].op # "void" /\ row[t].no = request[s].expected
CheckLatest(s) ==
    /\ pc[s] = "latest"
    /\ \E t \in LatestOf(request[s].tx) :
          \/ row[t].op = "void" /\ Rollback(s, "alreadyVoided")
          \/ row[t].op # "void" /\ ~Expected(s, t) /\ Rollback(s, "revisionConflict")
          \/ /\ Expected(s, t)
             /\ Goto(s, "revision")
             /\ UNCHANGED <<request, answer, base, written>>

\* The revision a session appends: the first, or the successor of the latest.
Appended(s) ==
    LET r == request[s] IN
    IF r.op = "create"
    THEN {[tx |-> s, no |-> 1, op |-> "create", prev |-> None, content |-> Merged(s)]}
    ELSE {[tx |-> r.tx, no |-> row[t].no + 1, op |-> r.op, prev |-> t,
           content |-> IF r.op = "void" THEN row[t].content ELSE Merged(s)] :
              t \in LatestOf(r.tx)}
\* INSERT INTO transaction_revisions: a committed row with the key or the
\* number is an error nothing catches.
InsertRevision(s) ==
    /\ pc[s] = "revision"
    /\ \E r \in Appended(s) :
          /\ SameKey(s) \cup SameNumber(s, r) \subseteq Committed
          /\ \/ SameKey(s) \cup SameNumber(s, r) # {} /\ Rollback(s, "rolledBack")
             \/ /\ SameKey(s) \cup SameNumber(s, r) = {}
                /\ row' = [row EXCEPT ![s] = r]
                /\ Goto(s, "source")
                /\ UNCHANGED <<request, answer, base, identity, sourced, reversal,
                               applied, bound>>

AfterSourceOfVoid(s) == IF row[s].op = "void" THEN "reverse" ELSE "apply"
AfterSource(s) == IF row[s].op = "create" THEN "apply" ELSE "reverse"
InsertSource(s) ==
    /\ pc[s] = "source"
    /\ SameSource(s) \subseteq Committed
    /\ \/ SameSource(s) # {} /\ Rollback(s, "sourceConflict")
       \/ /\ SameSource(s) = {}
          /\ sourced' = [sourced EXCEPT ![s] = TRUE]
          /\ Goto(s, AfterSource(s))
          /\ UNCHANGED <<request, answer, base, identity, row, reversal, applied, bound>>

\* Reverse the entry the previous revision is bound to, at its own date.
Creation(s) == row[s].tx
Previous(s) == row[s].prev
ReversePrevious(s) ==
    /\ pc[s] = "reverse"
    /\ LET t == Previous(s) IN
       \/ ~Effective(t) /\ Rollback(s, "incompleteState")
       \/ /\ Effective(t) /\ \E r \in Committed : reversal[r] = t
          /\ Rollback(s, "alreadyReversed")
       \/ /\ Effective(t) /\ \A r \in Committed : reversal[r] # t
          /\ reversal' = [reversal EXCEPT ![s] = t]
          /\ Goto(s, IF row[s].op = "void" THEN "bind" ELSE "apply")
          /\ UNCHANGED <<request, answer, base, identity, row, sourced, applied, bound>>

\* Post the entry of the new content; the posting may be refused.
ApplyNew(s) ==
    /\ pc[s] = "apply"
    /\ \/ Rollback(s, "effectInvalid")
       \/ /\ applied' = [applied EXCEPT ![s] = TRUE]
          /\ Goto(s, "bind")
          /\ UNCHANGED <<request, answer, base, identity, row, sourced, reversal, bound>>

Bind(s) ==
    /\ pc[s] = "bind"
    /\ bound' = [bound EXCEPT ![s] = TRUE]
    /\ Goto(s, "commit")
    /\ UNCHANGED <<request, answer, base, identity, row, sourced, reversal, applied>>

Commit(s) ==
    /\ pc[s] = "commit"
    /\ answer' = [answer EXCEPT ![s] = s]
    /\ Goto(s, "committed")
    /\ UNCHANGED <<request, base, written>>

Crash(s) == Active(s) /\ Rollback(s, "rolledBack")

Step(s) ==
    \/ ReadLatest(s) \/ EarlyLookup(s) \/ InsertIdentity(s) \/ LateIdentity(s)
    \/ LockParent(s) \/ CheckLatest(s) \/ InsertRevision(s) \/ InsertSource(s)
    \/ ReversePrevious(s) \/ ApplyNew(s) \/ Bind(s) \/ Commit(s)
Next ==
    \E s \in Session :
        \/ \E r \in Request : BeginCreate(s, r)
        \/ \E r \in Request : BeginEdit(s, r)
        \/ Step(s)
        \/ Crash(s)

Spec == Init /\ [][Next]_vars
\* A started transaction keeps executing.
FairSpec == Spec /\ \A s \in Session : WF_vars(Step(s))

-----------------------------------------------------------------------------
(* Properties.                                                             *)

\* However edits of one transaction race, fail and are retried, the ledger
\* carries one entry that is not reversed for it, that of the latest revision,
\* and none once it is void.
Live(t) == {s \in Chain(t) : applied[s] /\ \A r \in Committed : reversal[r] # s}
EffectOfLatest ==
    \A t \in Session : Live(t) = {s \in LatestOf(t) : row[s].op # "void"}

\* No edit is lost: an update or void follows the very revision its client was
\* shown, and an update keeps every field of it that the request does not state,
\* although the request was laid over a revision read without a lock.
EditsFollowShown ==
    \A s \in Committed : row[s].op # "create" =>
        LET p == row[s].prev IN
        /\ p \in Chain(row[s].tx)
        /\ row[p].no = request[s].expected /\ row[s].no = row[p].no + 1
        /\ row[s].op = "update" =>
              \A f \in Field : request[s].given[f] = None => row[s].content[f] = row[p].content[f]

\* The revisions of a transaction form one chain, which a void ends.
ChainLinear ==
    \A s, t \in Committed : row[s].tx = row[t].tx =>
        /\ row[s].no = row[t].no => s = t
        /\ row[s].op = "void" => row[t].no <= row[s].no

\* A request that succeeded names a committed revision that is what it asked for.
AnswerIsRequested ==
    \A s \in Session : pc[s] = "committed" =>
        LET a == answer[s] IN
        /\ a \in Committed /\ row[a].op = request[s].op
        /\ row[a].op # "create" => row[a].tx = request[s].tx
        /\ row[a].op # "void" => row[a].content = Merged(s)

\* No history strands a transaction: no edit is ever refused because the entry
\* it must reverse is missing or reversed already, nor a retry because the
\* revision it repeats lacks its entries.
NeverStranded ==
    \A s \in Session : pc[s] = "aborted" => answer[s] \notin {"alreadyReversed", "incompleteState"}

\* Seen from outside, each request is one step of the register.
Count(S) == Cardinality(S)
Current(t) == CHOOSE s \in LatestOf(t) : TRUE
Effects(t, c) == {s \in Chain(t) : applied[s] /\ row[s].content = c}
Reversals(t, c) == {s \in Chain(t) : reversal[s] # None /\ row[reversal[s]].content = c}
LatestRevisions ==
    [t \in Session |->
        IF Chain(t) = {} THEN None
        ELSE [no |-> row[Current(t)].no, content |-> row[Current(t)].content,
              void |-> row[Current(t)].op = "void"]]
LedgerEffects ==
    [t \in Session |-> [c \in Content |-> Count(Effects(t, c)) - Count(Reversals(t, c))]]
Register == INSTANCE TransactionRegister WITH
    Transaction <- Session, current <- LatestRevisions, effect <- LedgerEffects
ImplementsRegister == Register!RegisterSpec

\* Every request is answered: keys, parents and sources are locked in an order
\* in which no sessions wait in a circle, and time and again none waits at all.
OperationsEnd == []<>(\A s \in Session : request[s] # None => pc[s] \in Finished)

\* What tests/manual-expenses-canonical.test.ts:141 says of a create that is
\* repeated with its key and without a date: it is replayed, not refused.
RetriedCreateReplays ==
    \A s \in Session : answer[s] = "conflict" =>
        ~\E t \in Committed : request[s].op = "create" /\ request[t] = request[s]
=============================================================================
