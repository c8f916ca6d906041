--------------------------- MODULE JournalPosting ---------------------------
(***************************************************************************)
(* The double-entry journal of src/ledger: posting, reversal and account   *)
(* archiving, each run by a session (one HTTP request, one READ COMMITTED  *)
(* transaction) that executes one SQL statement per step.  What a session  *)
(* writes is invisible to the others until it commits, so the draft that   *)
(* session s inserts is entry[s] and the entry's id is s.                  *)
(*                                                                         *)
(* CloseMonth is what this module needs of the month close: one atomic     *)
(* step that counts the entries committed so far.  Module MonthClose       *)
(* models the close statement by statement and implements this step.       *)
(***************************************************************************)
EXTENDS Integers, Functions, RowLocks

CONSTANTS
    Session,         \* database sessions, each serving one request
    Key,             \* idempotency keys
    Account,         \* ledger accounts, numbered in the order of their ids
    Expense,         \* the accounts of type EXPENSE
    RoleAccount,     \* the per-user system role accounts
    Budgeted,        \* the role accounts a month close reads
    Linked,          \* the accounts a system role, a Midas account or a card uses
    FirstAccounts,   \* the accounts that exist when the system starts
    Month,           \* calendar months, all ended
    Payload,         \* the contents a posting request may have
    None             \* no value

Lines == [Account -> Int]            \* signed amounts, debit positive, 0 = no line
Request ==
    [op : {"post"}, key : Key, payload : Payload]
      \cup [op : {"reverse"}, key : Key, target : Session, month : Month]
      \cup [op : {"archive"}, account : Account]
Fingerprint == [of : {"posting"}, payload : Payload]
                 \cup [of : {"reversal"}, target : Session, month : Month]
Entry == [key : Key, fingerprint : Fingerprint, reversalOf : Session \cup {None},
          month : Month, lines : Lines]

ASSUME AccountAssumption ==
    /\ Account \subseteq Int
    /\ Budgeted \subseteq Expense
    /\ Expense \subseteq RoleAccount
    /\ RoleAccount \subseteq Linked
    /\ Linked \subseteq Account
    /\ Account \ RoleAccount \subseteq FirstAccounts
    /\ FirstAccounts \subseteq Account
ASSUME PayloadAssumption == Payload \subseteq [month : Month, lines : Lines]
ASSUME NoneAssumption ==
    /\ None \notin Session
    /\ None \notin Request
    /\ None \notin Entry

VARIABLES
    request,      \* what each session was asked to do
    pc,           \* the statement each session executes next
    answer,       \* the entry id or the error each session answers with
    entry,        \* the journal_entries row each session inserted
    adjusted,     \* whether a month_close_adjustments row names that entry
    created,      \* role accounts each session inserted and has not committed
    provisioned,  \* accounts that exist for every session
    archived,     \* accounts with archived_at set
    locks,        \* ledger_accounts row locks held
    closed,       \* months with a committed month_closes row
    counted       \* the entries each closed month's expense figures include

table == <<provisioned, archived, closed, counted>>
vars == <<request, pc, answer, entry, adjusted, created, locks, table>>

Error == {"conflict", "archived", "notFound", "alreadyReversed", "inUse", "rolledBack"}
PC == {"idle", "provision", "lookup", "accounts", "lockOriginal", "checkReversed",
       "insert", "late", "lines", "transition", "closeCheck", "commit", "archive",
       "committed", "aborted"}
Finished == {"committed", "aborted"}

\* The rows, and the locks the sessions hold on the accounts.
RowTypes ==
    /\ request \in [Session -> Request \cup {None}]
    /\ pc \in [Session -> PC]
    /\ answer \in [Session -> Session \cup Error \cup {None}]
    /\ entry \in [Session -> Entry \cup {None}]
    /\ adjusted \in [Session -> BOOLEAN]
    /\ created \in [Session -> SUBSET RoleAccount]
    /\ provisioned \subseteq Account
    /\ archived \subseteq Account
    /\ closed \subseteq Month
    /\ counted \in [Month -> SUBSET Session]
LockTypes == locks \subseteq [session : Session, account : Account, mode : LockMode]
TypeOK == RowTypes /\ LockTypes

-----------------------------------------------------------------------------
(* What the statements read.                                               *)

Posted == {t \in Session : pc[t] = "committed" /\ entry[t] # None}
Active(s) == request[s] # None /\ pc[s] \notin Finished
Visible(s) == provisioned \cup created[s]

Touched(lines) == {a \in Account : lines[a] # 0}
ExpenseDelta(lines) == FoldFunctionOnSet(+, 0, lines, Expense)
Negated(lines) == [a \in Account |-> -lines[a]]

FingerprintOf(r) ==
    IF r.op = "post" THEN [of |-> "posting", payload |-> r.payload]
    ELSE [of |-> "reversal", target |-> r.target, month |-> r.month]

\* The row an INSERT of session s adds.
Draft(s) ==
    LET r == request[s] IN
    IF r.op = "post"
    THEN [key |-> r.key, fingerprint |-> FingerprintOf(r), reversalOf |-> None,
          month |-> r.payload.month, lines |-> r.payload.lines]
    ELSE [key |-> r.key, fingerprint |-> FingerprintOf(r), reversalOf |-> r.target,
          month |-> r.month, lines |-> Negated(entry[r.target].lines)]

\* Rows, committed or not, that the unique index on the key, and the partial
\* unique index on reversal_of_entry_id, hold against the row of session s.
SameKeyIfCommitted(s) == {t \in Posted : entry[t].key = request[s].key}
SameKey(s) == {t \in Session \ {s} : entry[t] # None /\ entry[t].key = request[s].key}
NoSameReversal(s) == {}
SameReversal(s) ==
    {t \in Session \ {s} : /\ request[s].op = "reverse"
                           /\ entry[t] # None
                           /\ entry[t].reversalOf = request[s].target}

\* Sessions holding the FOR UPDATE lock a reversal takes on its original.
OriginalLockedBy(t) ==
    {s \in Session : /\ Active(s)
                     /\ request[s].op = "reverse"
                     /\ request[s].target = t
                     /\ pc[s] \notin {"lookup", "lockOriginal"}}

Held(s, mode) == {a \in Account : [session |-> s, account |-> a, mode |-> mode] \in locks}
Lowest(A) == {a \in A : \A b \in A : a <= b}
Lock(s, a, mode) == locks' = locks \cup {[session |-> s, account |-> a, mode |-> mode]}
NothingReleased(s) == locks
Released(s) == {l \in locks : l.session # s}

-----------------------------------------------------------------------------
Init ==
    /\ request = [s \in Session |-> None]
    /\ pc = [s \in Session |-> "idle"]
    /\ answer = [s \in Session |-> None]
    /\ entry = [s \in Session |-> None]
    /\ adjusted = [s \in Session |-> FALSE]
    /\ created = [s \in Session |-> {}]
    /\ provisioned = FirstAccounts
    /\ archived = {}
    /\ locks = {}
    /\ closed = {}
    /\ counted = [m \in Month |-> {}]

Goto(s, label) == pc' = [pc EXCEPT ![s] = label]

\* ROLLBACK: nothing the session wrote remains, and its locks are gone.
Rollback(s, why) ==
    /\ Goto(s, "aborted")
    /\ answer' = [answer EXCEPT ![s] = why]
    /\ entry' = [entry EXCEPT ![s] = None]
    /\ adjusted' = [adjusted EXCEPT ![s] = FALSE]
    /\ created' = [created EXCEPT ![s] = {}]
    /\ locks' = Released(s)
    /\ UNCHANGED <<request, table>>

Begin(s, r) ==
    /\ pc[s] = "idle"
    /\ request' = [request EXCEPT ![s] = r]
    /\ Goto(s, CASE r.op = "post" -> "provision"
                 [] r.op = "reverse" -> "lookup"
                 [] r.op = "archive" -> "archive")
    /\ UNCHANGED <<answer, entry, adjusted, created, locks, table>>

\* The callers of a posting first provision the missing role accounts; the
\* unique index makes them wait for a session that is inserting one.
Missing == RoleAccount \ provisioned
Provision(s) ==
    /\ pc[s] = "provision"
    /\ \A t \in Session \ {s} : created[t] \cap Missing = {}
    /\ created' = [created EXCEPT ![s] = Missing]
    /\ Goto(s, "lookup")
    /\ UNCHANGED <<request, answer, entry, adjusted, locks, table>>

\* Answer from the committed entry t that has the session's key.
AnyContent(s, t) == TRUE
SameContent(s, t) == entry[t].fingerprint = FingerprintOf(request[s])
AnswerFrom(s, t) ==
    \/ /\ SameContent(s, t)
       /\ answer' = [answer EXCEPT ![s] = t]
       /\ Goto(s, "commit")
       /\ UNCHANGED <<request, entry, adjusted, created, locks, table>>
    \/ /\ ~SameContent(s, t)
       /\ Rollback(s, "conflict")

EarlyLookup(s) ==
    /\ pc[s] = "lookup"
    /\ \/ \E t \in SameKey(s) \cap Posted : AnswerFrom(s, t)
       \/ /\ SameKey(s) \cap Posted = {}
          /\ Goto(s, IF request[s].op = "post" THEN "accounts" ELSE "lockOriginal")
          /\ UNCHANGED <<request, answer, entry, adjusted, created, locks, table>>

ReadAccounts(s) ==
    /\ pc[s] = "accounts"
    /\ LET used == Touched(request[s].payload.lines) IN
       \/ /\ used \subseteq Visible(s) \ archived
          /\ Goto(s, "insert")
          /\ UNCHANGED <<request, answer, entry, adjusted, created, locks, table>>
       \/ ~(used \subseteq Visible(s)) /\ Rollback(s, "notFound")
       \/ used \subseteq Visible(s) /\ used \cap archived # {} /\ Rollback(s, "archived")

LockOriginal(s) ==
    /\ pc[s] = "lockOriginal"
    /\ \/ request[s].target \notin Posted /\ Rollback(s, "notFound")
       \/ /\ request[s].target \in Posted
          /\ OriginalLockedBy(request[s].target) = {}
          /\ Goto(s, "checkReversed")
          /\ UNCHANGED <<request, answer, entry, adjusted, created, locks, table>>

CheckReversed(s) ==
    /\ pc[s] = "checkReversed"
    /\ \/ SameReversal(s) \cap Posted # {} /\ Rollback(s, "alreadyReversed")
       \/ /\ SameReversal(s) \cap Posted = {}
          /\ Goto(s, "insert")
          /\ UNCHANGED <<request, answer, entry, adjusted, created, locks, table>>

\* INSERT ... ON CONFLICT (user_id, idempotency_key) DO NOTHING: it waits for
\* an uncommitted row with the key, skips a committed one, and fails on a
\* committed reversal of the same original.
InsertDraft(s) ==
    /\ pc[s] = "insert"
    /\ \/ /\ SameKey(s) \cap Posted # {}
          /\ Goto(s, "late")
          /\ UNCHANGED <<request, answer, entry, adjusted, created, locks, table>>
       \/ /\ SameKey(s) = {} /\ SameReversal(s) \cap Posted # {}
          /\ Rollback(s, "alreadyReversed")
       \/ /\ SameKey(s) = {} /\ SameReversal(s) = {}
          /\ entry' = [entry EXCEPT ![s] = Draft(s)]
          /\ Goto(s, "lines")
          /\ UNCHANGED <<request, answer, adjusted, created, locks, table>>

LateLookup(s) ==
    /\ pc[s] = "late"
    /\ \E t \in SameKey(s) \cap Posted : AnswerFrom(s, t)

\* INSERT of the lines: each line's foreign key locks its account.
Unshared(s) == Touched(entry[s].lines) \ Held(s, "KeyShare")
InsertLines(s) ==
    /\ pc[s] = "lines"
    /\ \E a \in Unshared(s) :
          /\ Grantable(locks, s, a, "KeyShare")
          /\ Lock(s, a, "KeyShare")
          /\ Goto(s, IF Unshared(s) = {a} THEN "transition" ELSE "lines")
    /\ UNCHANGED <<request, answer, entry, adjusted, created, table>>

\* UPDATE DRAFT -> POSTED: the trigger locks the accounts in ascending order
\* and refuses an archived one unless the entry is a reversal.
Unlocked(s) == Touched(entry[s].lines) \ Held(s, "ForUpdate")
MayAlwaysPostTo(s, a) == TRUE
MayPostTo(s, a) == entry[s].reversalOf # None \/ a \notin archived
Transition(s) ==
    /\ pc[s] = "transition"
    /\ \E a \in Lowest(Unlocked(s)) :
          /\ Grantable(locks, s, a, "ForUpdate")
          /\ \/ ~MayPostTo(s, a) /\ Rollback(s, "archived")
             \/ /\ MayPostTo(s, a)
                /\ Lock(s, a, "ForUpdate")
                /\ Goto(s, IF Unlocked(s) = {a} THEN "closeCheck" ELSE "transition")
                /\ UNCHANGED <<request, answer, entry, adjusted, created, table>>

\* An expense dated in a month that is already closed becomes an adjustment.
OwesAdjustment(s) == entry[s].month \in closed /\ ExpenseDelta(entry[s].lines) # 0
CloseCheck(s) ==
    /\ pc[s] = "closeCheck"
    /\ adjusted' = [adjusted EXCEPT ![s] = OwesAdjustment(s)]
    /\ answer' = [answer EXCEPT ![s] = s]
    /\ Goto(s, "commit")
    /\ UNCHANGED <<request, entry, created, locks, table>>

Commit(s) ==
    /\ pc[s] = "commit"
    /\ Goto(s, "committed")
    /\ provisioned' = provisioned \cup created[s]
    /\ created' = [created EXCEPT ![s] = {}]
    /\ locks' = Released(s)
    /\ UNCHANGED <<request, answer, entry, adjusted, archived, closed, counted>>

\* archiveLedgerAccount runs outside a transaction: its UPDATE is the commit.
Archive(s) ==
    /\ pc[s] = "archive"
    /\ LET a == request[s].account IN
       \/ a \notin provisioned /\ Rollback(s, "notFound")
       \/ a \in provisioned \cap Linked /\ Rollback(s, "inUse")
       \/ /\ a \in provisioned \ Linked
          /\ a \in archived \/ Grantable(locks, s, a, "NoKeyUpdate")
          /\ archived' = archived \cup {a}
          /\ Goto(s, "committed")
          /\ UNCHANGED <<request, answer, entry, adjusted, created, locks,
                         provisioned, closed, counted>>

-----------------------------------------------------------------------------
(* A session may lose its connection at any step; PostgreSQL's deadlock     *)
(* detector picks a victim among sessions that wait for each other.        *)

Crash(s) == Active(s) /\ Rollback(s, "rolledBack")

\* The sessions whose locks or uncommitted rows keep session s waiting.
Waiting(s) ==
    CASE pc[s] = "provision"    ->
           {t \in Session \ {s} : created[t] \cap Missing # {}}
      [] pc[s] = "lockOriginal" -> OriginalLockedBy(request[s].target)
      [] pc[s] = "insert"       -> {t \in SameKey(s) \cup SameReversal(s) : Active(t)}
      [] pc[s] = "lines"        ->
           IF \E a \in Unshared(s) : Grantable(locks, s, a, "KeyShare") THEN {}
           ELSE UNION {Holders(locks, s, a, "KeyShare") : a \in Unshared(s)}
      [] pc[s] = "transition"   ->
           UNION {Holders(locks, s, a, "ForUpdate") : a \in Lowest(Unlocked(s))}
      [] pc[s] = "archive"      -> Holders(locks, s, request[s].account, "NoKeyUpdate")
      [] OTHER                  -> {}

\* Whether x waits in a circle, when every y in S waits for W(y).
InCircle(x, S, W(_)) ==
    \E C \in SUBSET S : /\ x \in C
                        /\ \A y \in C : W(y) \cap C # {}
                        /\ C \subseteq UNION {W(y) : y \in C}
DeadlockVictim(s) == InCircle(s, Session, Waiting) /\ Rollback(s, "rolledBack")

\* The month close, seen from the journal: at its commit it holds FOR UPDATE
\* on the budgeted accounts that exist, so no other session holds any lock.
Countable(m) == {t \in Posted : entry[t].month = m /\ Touched(entry[t].lines) \cap Budgeted # {}}
CloseMonthUnlocked(m) ==
    /\ m \notin closed
    /\ closed' = closed \cup {m}
    /\ counted' = [counted EXCEPT ![m] = Countable(m)]
    /\ UNCHANGED <<request, pc, answer, entry, adjusted, created, locks,
                   provisioned, archived>>
CloseMonth(m) ==
    /\ m \notin closed
    /\ \A l \in locks : l.account \notin Budgeted \cap provisioned
    /\ closed' = closed \cup {m}
    /\ counted' = [counted EXCEPT ![m] = Countable(m)]
    /\ UNCHANGED <<request, pc, answer, entry, adjusted, created, locks,
                   provisioned, archived>>

Step(s) ==
    \/ Provision(s) \/ EarlyLookup(s) \/ ReadAccounts(s)
    \/ LockOriginal(s) \/ CheckReversed(s) \/ InsertDraft(s) \/ LateLookup(s)
    \/ InsertLines(s) \/ Transition(s) \/ CloseCheck(s) \/ Commit(s) \/ Archive(s)
Posting == \E s \in Session : \/ \E r \in Request : Begin(s, r)
                              \/ Step(s)
                              \/ Crash(s)
                              \/ DeadlockVictim(s)
Next == Posting \/ \E m \in Month : CloseMonth(m)

Spec == Init /\ [][Next]_vars
\* Every started transaction keeps executing, and the deadlock detector runs.
FairSpec == /\ Spec
            /\ \A s \in Session : WF_vars(Step(s)) /\ WF_vars(DeadlockVictim(s))

-----------------------------------------------------------------------------
(* Properties.                                                             *)

\* However requests with one idempotency key interleave, crash and are
\* retried, at most one of them leaves a journal entry.
PostedOncePerKey == \A s, t \in Posted : entry[s].key = entry[t].key => s = t

\* An entry has at most one committed reversal, whatever keys its reversals use.
ReversedAtMostOnce ==
    \A s, t \in Posted :
        entry[s].reversalOf # None /\ entry[s].reversalOf = entry[t].reversalOf => s = t

\* A request that succeeded names a committed entry with exactly the content it
\* asked for: neither a rolled back entry nor another request's content.
AnswerIsCommitted ==
    \A s \in Session : pc[s] = "committed" /\ answer[s] \in Session =>
        /\ answer[s] \in Posted
        /\ entry[answer[s]].fingerprint = FingerprintOf(request[s])

\* An expense dated in a closed month reaches the month-close figures exactly
\* once: in that close's snapshot or as an adjustment for a later close.
ExpenseCountedOnce ==
    \A s \in Posted :
        LET e == entry[s] IN
        /\ e.month \in closed
        /\ Touched(e.lines) \cap Budgeted # {}
        /\ ExpenseDelta(e.lines) # 0
        => (s \in counted[e.month]) # adjusted[s]

\* No posting commits on an account that is archived by then, although the
\* posting read the account long before (a reversal may).
NoPostingToArchived ==
    [][\A s \in Session :
          s \in Posted' \ Posted /\ entry'[s].reversalOf = None
          => Touched(entry'[s].lines) \cap archived' = {}]_vars

\* Every request is answered, although sessions wait for each other's rows and
\* a lock upgrade can make them wait in a circle: time and again none waits.
RequestsEnd == []<>(\A s \in Session : request[s] # None => pc[s] \in Finished)

\* What tests/ledger-reversal.test.ts:312 says: a reversal that is retried with
\* the key that performed it is replayed, never refused as already reversed.
RetriedReversalReplays ==
    \A s \in Session : answer[s] = "alreadyReversed" =>
        ~\E t \in Posted : /\ entry[t].key = request[s].key
                           /\ entry[t].fingerprint = FingerprintOf(request[s])
=============================================================================
