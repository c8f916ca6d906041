------------------------ MODULE JournalPostingProofs ------------------------
(***************************************************************************)
(* Proofs about JournalPosting, for every number of sessions, keys,        *)
(* accounts and months.  Three inductive invariants, each resting on the   *)
(* ones before it:                                                         *)
(*   JournalInv  the rows of the journal, committed or not: their keys and *)
(*               reversed originals are unique, and every draft is the one *)
(*               its session's request asks for;                           *)
(*   LockInv     a session past its transition holds every account of its  *)
(*               entry FOR UPDATE, and no such account is archived;        *)
(*   CountInv    hence no month closes between a session's reading of the  *)
(*               closed months and its commit.                             *)
(***************************************************************************)
EXTENDS JournalPosting, TLAPS

Unwritten == {"idle", "provision", "lookup", "accounts", "lockOriginal",
              "checkReversed", "insert", "late", "archive", "aborted"}
Answering == {"commit", "committed"}

\* The request fits the statement its session executes.
Fits(s) ==
    /\ pc[s] = "idle" <=> request[s] = None
    /\ pc[s] \in {"provision", "accounts"} => request[s].op = "post"
    /\ pc[s] \in {"lockOriginal", "checkReversed"} => request[s].op = "reverse"
    /\ pc[s] \in {"lookup", "insert", "late"} => request[s].op \in {"post", "reverse"}
    /\ pc[s] = "archive" => request[s].op = "archive"
    /\ pc[s] \in {"checkReversed", "insert"} /\ request[s].op = "reverse"
       => request[s].target \in Posted
Served == \A s \in Session : Fits(s)

\* A draft exists from its INSERT on, and is the one the request asks for.
Written ==
    \A s \in Session :
        /\ pc[s] \in Unwritten => entry[s] = None
        /\ pc[s] \in {"lines", "transition", "closeCheck"} => entry[s] # None
        /\ entry[s] # None => /\ request[s] # None
                              /\ request[s].op \in {"post", "reverse"}
                              /\ entry[s].key = request[s].key
                              /\ entry[s].fingerprint = FingerprintOf(request[s])

Replies(s) ==
    /\ pc[s] \notin Answering \cup {"aborted"} => answer[s] = None
    /\ pc[s] \in Answering /\ entry[s] # None => answer[s] = s
    /\ pc[s] \in Answering /\ answer[s] \in Session =>
          /\ answer[s] = s \/ answer[s] \in Posted
          /\ entry[answer[s]] # None
          /\ entry[answer[s]].fingerprint = FingerprintOf(request[s])
Answered == \A s \in Session : Replies(s)

\* The unique indexes, over rows that are committed and rows that are not.
SingleKey ==
    \A s, t \in Session :
        entry[s] # None /\ entry[t] # None /\ entry[s].key = entry[t].key => s = t
SingleReversal ==
    \A s, t \in Session :
        /\ entry[s] # None /\ entry[t] # None
        /\ entry[s].reversalOf # None /\ entry[s].reversalOf = entry[t].reversalOf
        => s = t

JournalInv == RowTypes /\ Served /\ Written /\ Answered /\ SingleKey /\ SingleReversal

-----------------------------------------------------------------------------
USE AccountAssumption, PayloadAssumption, NoneAssumption

LEMMA InitJournal == Init => JournalInv
  BY DEF Init, JournalInv, RowTypes, Served, Fits, Written, Answered, Replies, SingleKey, SingleReversal, PC,
         Answering, Unwritten, Posted

LEMMA RollbackJournal ==
  ASSUME JournalInv, NEW s \in Session, pc[s] \notin {"idle", "committed", "aborted"},
         NEW why \in Error, Rollback(s, why)
  PROVE  JournalInv'
<1>1. RowTypes'
  BY DEF JournalInv, RowTypes, Rollback, Goto, PC, Released, table
<1>2. Posted' = Posted
  BY DEF JournalInv, RowTypes, Rollback, Goto, Posted
<1>3. Served'
  BY <1>2 DEF JournalInv, RowTypes, Served, Fits, Rollback, Goto
<1>4. Written'
  BY DEF JournalInv, RowTypes, Written, Rollback, Goto, Unwritten, FingerprintOf
<1>5. Answered'
  BY <1>2 DEF JournalInv, RowTypes, Answered, Replies, Rollback, Goto, Answering, FingerprintOf, Posted
<1>6. SingleKey'
  BY DEF JournalInv, RowTypes, SingleKey, Rollback
<1>7. SingleReversal'
  BY DEF JournalInv, RowTypes, SingleReversal, Rollback
<1> QED
  BY <1>1, <1>3, <1>4, <1>5, <1>6, <1>7 DEF JournalInv

\* A statement that writes no row of the journal only moves its session.
LEMMA MoveJournal ==
  ASSUME JournalInv, NEW s \in Session, NEW label \in PC, Goto(s, label),
         pc[s] \notin Answering \cup {"idle", "aborted"},
         label \notin Answering \cup {"aborted"},
         pc[s] \in Unwritten <=> label \in Unwritten,
         UNCHANGED <<request, answer, entry>>,
         Fits(s)'
  PROVE  Served' /\ Written' /\ Answered' /\ SingleKey' /\ SingleReversal'
<1>1. Posted' = Posted
  BY DEF JournalInv, RowTypes, Goto, Posted, Answering
<1>2. Served'
  BY <1>1 DEF JournalInv, RowTypes, Served, Fits, Goto
<1>3. Written'
  BY DEF JournalInv, RowTypes, Written, Goto, PC, Answering, Unwritten, FingerprintOf
<1>4. Answered'
  BY <1>1 DEF JournalInv, RowTypes, Answered, Replies, Goto, Answering, FingerprintOf
<1>5. SingleKey' /\ SingleReversal'
  BY DEF JournalInv, SingleKey, SingleReversal
<1> QED
  BY <1>2, <1>3, <1>4, <1>5

LEMMA BeginJournal ==
  ASSUME JournalInv, NEW s \in Session, NEW r \in Request, Begin(s, r)
  PROVE  JournalInv'
<1> DEFINE label == CASE r.op = "post" -> "provision"
                      [] r.op = "reverse" -> "lookup"
                      [] r.op = "archive" -> "archive"
<1>1. /\ r.op \in {"post", "reverse", "archive"}
      /\ pc[s] = "idle" /\ entry[s] = None /\ r # None
      /\ \A t \in Session : t # s => request'[t] = request[t] /\ pc'[t] = pc[t]
      /\ request'[s] = r /\ pc'[s] = label /\ answer' = answer /\ entry' = entry
  BY DEF Begin, Goto, JournalInv, RowTypes, Written, Unwritten, Request
<1>2. label \in {"provision", "lookup", "archive"}
  BY <1>1
<1> HIDE DEF label
<1>3. RowTypes'
  BY <1>1, <1>2 DEF JournalInv, RowTypes, Begin, Goto, table, PC
<1>4. Posted' = Posted
  BY <1>1, <1>2 DEF Posted
<1>5. Served'
  <2>1. Fits(s)'
    BY <1>1, <1>2 DEF Fits, label
  <2>2. \A t \in Session : t # s => Fits(t)'
    BY <1>1, <1>4 DEF JournalInv, Served, Fits
  <2> QED
    BY <2>1, <2>2 DEF Served
<1>6. Written'
  BY <1>1, <1>2 DEF JournalInv, Written, Unwritten, FingerprintOf
<1>7. Answered'
  <2>1. Replies(s)'
    BY <1>1, <1>2 DEF JournalInv, Answered, Replies, Answering
  <2>2. ASSUME NEW t \in Session, t # s PROVE Replies(t)'
    BY <1>1, <1>4, <2>2 DEF JournalInv, Answered, Replies, FingerprintOf
  <2> QED
    BY <2>1, <2>2 DEF Answered
<1>8. SingleKey' /\ SingleReversal'
  BY <1>1 DEF JournalInv, SingleKey, SingleReversal
<1> QED
  BY <1>3, <1>5, <1>6, <1>7, <1>8 DEF JournalInv

LEMMA ProvisionJournal ==
  ASSUME JournalInv, NEW s \in Session, Provision(s)
  PROVE  JournalInv'
<1>1. RowTypes'
  BY DEF JournalInv, RowTypes, Provision, Goto, table, PC, Missing
<1>2. Goto(s, "lookup") /\ pc[s] = "provision" /\ UNCHANGED <<request, answer, entry>>
  BY DEF Provision
<1>3. Fits(s)'
  BY <1>2 DEF JournalInv, RowTypes, Served, Fits, Goto
<1> QED
  BY <1>1, <1>2, <1>3, MoveJournal, "lookup" \in PC DEF JournalInv, PC, Answering, Unwritten

\* A replay or a conflict.
LEMMA AnswerJournal ==
  ASSUME JournalInv, NEW s \in Session, NEW t \in Session, t \in Posted,
         pc[s] \in {"lookup", "late"}, AnswerFrom(s, t)
  PROVE  JournalInv'
<1>1. CASE Rollback(s, "conflict")
  BY <1>1, RollbackJournal DEF Error
<1>2. CASE /\ SameContent(s, t)
           /\ answer' = [answer EXCEPT ![s] = t]
           /\ Goto(s, "commit")
           /\ UNCHANGED <<request, entry, adjusted, created, locks, table>>
  <2>1. RowTypes'
    BY <1>2 DEF JournalInv, RowTypes, Goto, table, PC
  <2>2. Posted' = Posted
    BY <1>2 DEF JournalInv, RowTypes, Goto, Posted
  <2>3. Served'
    BY <1>2, <2>2 DEF JournalInv, RowTypes, Served, Fits, Goto
  <2>4. entry[s] = None /\ entry[t] # None
    BY DEF JournalInv, Written, Unwritten, Posted
  <2>5. Written'
    BY <1>2, <2>4 DEF JournalInv, RowTypes, Written, Goto, Unwritten, FingerprintOf
  <2>6. Answered'
    BY <1>2, <2>2, <2>4 DEF JournalInv, RowTypes, Answered, Replies, Goto, Answering, SameContent,
                            FingerprintOf
  <2>7. SingleKey' /\ SingleReversal'
    BY <1>2 DEF JournalInv, SingleKey, SingleReversal
  <2> QED
    BY <2>1, <2>3, <2>5, <2>6, <2>7 DEF JournalInv
<1> QED
  BY <1>1, <1>2 DEF AnswerFrom

LEMMA EarlyLookupJournal ==
  ASSUME JournalInv, NEW s \in Session, EarlyLookup(s)
  PROVE  JournalInv'
<1>1. CASE \E t \in SameKey(s) \cap Posted : AnswerFrom(s, t)
  BY <1>1, AnswerJournal DEF EarlyLookup, Posted
<1> DEFINE label == IF request[s].op = "post" THEN "accounts" ELSE "lockOriginal"
<1>2. CASE Goto(s, label) /\ UNCHANGED <<request, answer, entry, adjusted, created, locks, table>>
  <2>1. label \in {"accounts", "lockOriginal"} /\ label \in PC
    BY DEF PC
  <2>2. RowTypes'
    BY <1>2, <2>1 DEF JournalInv, RowTypes, Goto, table
  <2>3. pc[s] = "lookup"
    BY DEF EarlyLookup
  <2>4. Fits(s)'
    BY <1>2, <2>3 DEF JournalInv, RowTypes, Served, Fits, Goto
  <2> HIDE DEF label
  <2> QED
    BY <1>2, <2>1, <2>2, <2>3, <2>4, MoveJournal DEF JournalInv, Answering, Unwritten
<1> QED
  BY <1>1, <1>2 DEF EarlyLookup

LEMMA LateLookupJournal ==
  ASSUME JournalInv, NEW s \in Session, LateLookup(s)
  PROVE  JournalInv'
  BY AnswerJournal DEF LateLookup, Posted

LEMMA ReadAccountsJournal ==
  ASSUME JournalInv, NEW s \in Session, ReadAccounts(s)
  PROVE  JournalInv'
<1>1. pc[s] = "accounts"
  BY DEF ReadAccounts
<1>2. CASE Rollback(s, "notFound") \/ Rollback(s, "archived")
  BY <1>1, <1>2, RollbackJournal DEF Error
<1>3. CASE /\ Goto(s, "insert")
           /\ UNCHANGED <<request, answer, entry, adjusted, created, locks, table>>
  <2>1. RowTypes'
    BY <1>3 DEF JournalInv, RowTypes, Goto, table, PC
  <2>2. Fits(s)'
    BY <1>1, <1>3 DEF JournalInv, RowTypes, Served, Fits, Goto
  <2> QED
    BY <1>1, <1>3, <2>1, <2>2, MoveJournal, "insert" \in PC
    DEF JournalInv, PC, Answering, Unwritten
<1> QED
  BY <1>2, <1>3 DEF ReadAccounts

LEMMA LockOriginalJournal ==
  ASSUME JournalInv, NEW s \in Session, LockOriginal(s)
  PROVE  JournalInv'
<1>1. pc[s] = "lockOriginal"
  BY DEF LockOriginal
<1>2. CASE Rollback(s, "notFound")
  BY <1>1, <1>2, RollbackJournal DEF Error
<1>3. CASE /\ request[s].target \in Posted
           /\ Goto(s, "checkReversed")
           /\ UNCHANGED <<request, answer, entry, adjusted, created, locks, table>>
  <2>1. RowTypes'
    BY <1>3 DEF JournalInv, RowTypes, Goto, table, PC
  <2>2. Posted' = Posted
    BY <1>1, <1>3 DEF JournalInv, RowTypes, Goto, Posted
  <2>3. Fits(s)'
    BY <1>1, <1>3, <2>2 DEF JournalInv, RowTypes, Served, Fits, Goto
  <2> QED
    BY <1>1, <1>3, <2>1, <2>3, MoveJournal, "checkReversed" \in PC
    DEF JournalInv, PC, Answering, Unwritten
<1> QED
  BY <1>2, <1>3 DEF LockOriginal

LEMMA CheckReversedJournal ==
  ASSUME JournalInv, NEW s \in Session, CheckReversed(s)
  PROVE  JournalInv'
<1>1. pc[s] = "checkReversed"
  BY DEF CheckReversed
<1>2. CASE Rollback(s, "alreadyReversed")
  BY <1>1, <1>2, RollbackJournal DEF Error
<1>3. CASE /\ Goto(s, "insert")
           /\ UNCHANGED <<request, answer, entry, adjusted, created, locks, table>>
  <2>1. RowTypes'
    BY <1>3 DEF JournalInv, RowTypes, Goto, table, PC
  <2>2. Posted' = Posted
    BY <1>1, <1>3 DEF JournalInv, RowTypes, Goto, Posted
  <2>3. Fits(s)'
    BY <1>1, <1>3, <2>2 DEF JournalInv, RowTypes, Served, Fits, Goto
  <2> QED
    BY <1>1, <1>3, <2>1, <2>3, MoveJournal, "insert" \in PC
    DEF JournalInv, PC, Answering, Unwritten
<1> QED
  BY <1>2, <1>3 DEF CheckReversed

\* What the INSERT of a session at "insert" writes.
LEMMA DraftRow ==
  ASSUME JournalInv, NEW s \in Session, pc[s] = "insert"
  PROVE  /\ Draft(s) \in Entry
         /\ Draft(s).key = request[s].key
         /\ Draft(s).fingerprint = FingerprintOf(request[s])
         /\ Draft(s).reversalOf = IF request[s].op = "reverse" THEN request[s].target ELSE None
<1>1. request[s] \in Request /\ request[s].op \in {"post", "reverse"}
  BY DEF JournalInv, RowTypes, Served, Fits
<1>2. CASE request[s].op = "post"
  <2>1. /\ request[s] \in [op : {"post"}, key : Key, payload : Payload]
    BY <1>1, <1>2 DEF Request
  <2>2. request[s].key \in Key /\ request[s].payload \in [month : Month, lines : Lines]
    BY <2>1
  <2>3. FingerprintOf(request[s]) \in Fingerprint
    BY <1>2, <2>1 DEF FingerprintOf, Fingerprint
  <2> QED
    BY <1>2, <2>2, <2>3 DEF Draft, Entry
<1>3. CASE request[s].op = "reverse"
  <2>1. request[s] \in [op : {"reverse"}, key : Key, target : Session, month : Month]
    BY <1>1, <1>3 DEF Request
  <2>2. request[s].key \in Key /\ request[s].target \in Session /\ request[s].month \in Month
    BY <2>1
  <2>3. entry[request[s].target] \in Entry
    BY <1>3, <2>2 DEF JournalInv, RowTypes, Served, Fits, Posted
  <2>4. Negated(entry[request[s].target].lines) \in Lines
    BY <2>3 DEF Entry, Lines, Negated
  <2>5. FingerprintOf(request[s]) \in Fingerprint
    BY <1>3, <2>2 DEF FingerprintOf, Fingerprint
  <2> QED
    BY <1>3, <2>2, <2>4, <2>5 DEF Draft, Entry
<1> QED
  BY <1>1, <1>2, <1>3

LEMMA InsertDraftJournal ==
  ASSUME JournalInv, NEW s \in Session, InsertDraft(s)
  PROVE  JournalInv'
<1>1. pc[s] = "insert"
  BY DEF InsertDraft
<1>2. CASE Rollback(s, "alreadyReversed")
  BY <1>1, <1>2, RollbackJournal DEF Error
<1>3. CASE /\ Goto(s, "late")
           /\ UNCHANGED <<request, answer, entry, adjusted, created, locks, table>>
  <2>1. RowTypes'
    BY <1>3 DEF JournalInv, RowTypes, Goto, table, PC
  <2>2. Fits(s)'
    BY <1>1, <1>3 DEF JournalInv, RowTypes, Served, Fits, Goto
  <2> QED
    BY <1>1, <1>3, <2>1, <2>2, MoveJournal, "late" \in PC
    DEF JournalInv, PC, Answering, Unwritten
<1>4. CASE /\ SameKey(s) = {} /\ SameReversal(s) = {}
           /\ entry' = [entry EXCEPT ![s] = Draft(s)]
           /\ Goto(s, "lines")
           /\ UNCHANGED <<request, answer, adjusted, created, locks, table>>
  <2> DEFINE row == Draft(s)
  <2>1. /\ row \in Entry /\ row # None
        /\ row.key = request[s].key
        /\ row.fingerprint = FingerprintOf(request[s])
        /\ row.reversalOf = IF request[s].op = "reverse" THEN request[s].target ELSE None
    BY <1>1, DraftRow
  <2> HIDE DEF row
  <2>2. entry' = [entry EXCEPT ![s] = row]
    BY <1>4 DEF row
  <2>3. RowTypes'
    BY <1>4, <2>1, <2>2 DEF JournalInv, RowTypes, Goto, table, PC
  <2>4. Posted' = Posted
    BY <1>1, <1>4, <2>2 DEF JournalInv, RowTypes, Goto, Posted
  <2>5. Served'
    BY <1>1, <1>4, <2>4 DEF JournalInv, RowTypes, Served, Fits, Goto
  <2>6. request[s] # None /\ request[s].op \in {"post", "reverse"}
    BY <1>1 DEF JournalInv, Served, Fits
  <2>7. Written'
    BY <1>4, <2>1, <2>2, <2>6 DEF JournalInv, RowTypes, Written, Goto, Unwritten, FingerprintOf
  <2>8. Answered'
    <3>1. Replies(s)'
      BY <1>1, <1>4 DEF JournalInv, RowTypes, Answered, Replies, Goto, Answering
    <3>2. ASSUME NEW t \in Session, t # s PROVE Replies(t)'
      <4>1. entry[s] = None
        BY <1>1 DEF JournalInv, Written, Unwritten
      <4> QED
        BY <1>4, <2>2, <2>4, <3>2, <4>1 DEF JournalInv, RowTypes, Answered, Replies, Goto, FingerprintOf
    <3> QED
      BY <3>1, <3>2 DEF Answered
  <2>9. SingleKey'
    BY <1>4, <2>1, <2>2 DEF JournalInv, RowTypes, SingleKey, SameKey
  <2>10. SingleReversal'
    BY <1>4, <2>1, <2>2, <2>6 DEF JournalInv, RowTypes, SingleReversal, SameReversal
  <2> QED
    BY <2>3, <2>5, <2>7, <2>8, <2>9, <2>10 DEF JournalInv
<1> QED
  BY <1>2, <1>3, <1>4 DEF InsertDraft

LEMMA InsertLinesJournal ==
  ASSUME JournalInv, NEW s \in Session, InsertLines(s)
  PROVE  JournalInv'
<1>1. PICK a \in Unshared(s) :
        /\ Lock(s, a, "KeyShare")
        /\ Goto(s, IF Unshared(s) = {a} THEN "transition" ELSE "lines")
  BY DEF InsertLines
<1> DEFINE label == IF Unshared(s) = {a} THEN "transition" ELSE "lines"
<1>2. pc[s] = "lines" /\ UNCHANGED <<request, answer, entry, adjusted, created, table>>
  BY DEF InsertLines
<1>3. label \in {"transition", "lines"} /\ label \in PC /\ Goto(s, label)
  BY <1>1 DEF PC
<1> HIDE DEF label
<1>4. a \in Account
  BY <1>1 DEF Unshared, Touched
<1>5. RowTypes'
  BY <1>1, <1>2, <1>3, <1>4 DEF JournalInv, RowTypes, Goto, Lock, LockMode, table
<1>6. Fits(s)'
  BY <1>2, <1>3 DEF JournalInv, RowTypes, Served, Fits, Goto
<1> QED
  BY <1>2, <1>3, <1>5, <1>6, MoveJournal DEF JournalInv, Answering, Unwritten

LEMMA TransitionJournal ==
  ASSUME JournalInv, NEW s \in Session, Transition(s)
  PROVE  JournalInv'
<1>1. pc[s] = "transition"
  BY DEF Transition
<1>2. CASE Rollback(s, "archived")
  BY <1>1, <1>2, RollbackJournal DEF Error
<1>3. ASSUME NEW a \in Lowest(Unlocked(s)), Lock(s, a, "ForUpdate"),
             Goto(s, IF Unlocked(s) = {a} THEN "closeCheck" ELSE "transition"),
             UNCHANGED <<request, answer, entry, adjusted, created, table>>
      PROVE  JournalInv'
  <2> DEFINE label == IF Unlocked(s) = {a} THEN "closeCheck" ELSE "transition"
  <2>1. label \in {"closeCheck", "transition"} /\ label \in PC /\ Goto(s, label)
    BY <1>3 DEF PC
  <2> HIDE DEF label
  <2>2. a \in Account
    BY DEF Unlocked, Touched, Lowest
  <2>3. RowTypes'
    BY <1>3, <2>1, <2>2 DEF JournalInv, RowTypes, Goto, Lock, LockMode, table
  <2>4. Fits(s)'
    BY <1>1, <1>3, <2>1 DEF JournalInv, RowTypes, Served, Fits, Goto
  <2> QED
    BY <1>1, <1>3, <2>1, <2>3, <2>4, MoveJournal DEF JournalInv, Answering, Unwritten
<1> QED
  BY <1>2, <1>3 DEF Transition

LEMMA CloseCheckJournal ==
  ASSUME JournalInv, NEW s \in Session, CloseCheck(s)
  PROVE  JournalInv'
<1> DEFINE owes == OwesAdjustment(s)
<1>1. owes \in BOOLEAN
  BY DEF OwesAdjustment
<1> HIDE DEF owes
<1>2. /\ pc[s] = "closeCheck" /\ entry[s] # None
      /\ adjusted' = [adjusted EXCEPT ![s] = owes]
      /\ answer' = [answer EXCEPT ![s] = s]
      /\ Goto(s, "commit")
      /\ UNCHANGED <<request, entry, created, locks, table>>
  BY DEF CloseCheck, owes, JournalInv, Written
<1>3. RowTypes'
  BY <1>1, <1>2 DEF JournalInv, RowTypes, Goto, table, PC
<1>4. Posted' = Posted
  BY <1>2 DEF JournalInv, RowTypes, Goto, Posted
<1>5. Served'
  BY <1>2, <1>4 DEF JournalInv, RowTypes, Served, Fits, Goto
<1>6. Written'
  BY <1>2 DEF JournalInv, RowTypes, Written, Goto, Unwritten, FingerprintOf
<1>7. Answered'
  BY <1>2, <1>4 DEF JournalInv, RowTypes, Written, Answered, Replies, Goto, Answering, FingerprintOf
<1>8. SingleKey' /\ SingleReversal'
  BY <1>2 DEF JournalInv, SingleKey, SingleReversal
<1> QED
  BY <1>3, <1>5, <1>6, <1>7, <1>8 DEF JournalInv

LEMMA CommitJournal ==
  ASSUME JournalInv, NEW s \in Session, Commit(s)
  PROVE  JournalInv'
<1>1. /\ pc[s] = "commit" /\ Goto(s, "committed")
      /\ UNCHANGED <<request, answer, entry>>
  BY DEF Commit
<1>2. RowTypes'
  BY DEF JournalInv, RowTypes, Commit, Goto, Released, PC
<1>3. Posted \subseteq Posted'
  BY <1>1 DEF JournalInv, RowTypes, Goto, Posted
<1>4. Served'
  BY <1>1, <1>3 DEF JournalInv, RowTypes, Served, Fits, Goto
<1>5. Written'
  BY <1>1 DEF JournalInv, RowTypes, Written, Goto, Unwritten, FingerprintOf
<1>6. Answered'
  BY <1>1, <1>3 DEF JournalInv, RowTypes, Answered, Replies, Goto, Answering, FingerprintOf
<1>7. SingleKey' /\ SingleReversal'
  BY <1>1 DEF JournalInv, SingleKey, SingleReversal
<1> QED
  BY <1>2, <1>4, <1>5, <1>6, <1>7 DEF JournalInv

LEMMA ArchiveJournal ==
  ASSUME JournalInv, NEW s \in Session, Archive(s)
  PROVE  JournalInv'
<1>1. pc[s] = "archive" /\ request[s].op = "archive"
  BY DEF Archive, JournalInv, Served, Fits
<1>2. CASE Rollback(s, "notFound") \/ Rollback(s, "inUse")
  BY <1>1, <1>2, RollbackJournal DEF Error
<1>3. CASE /\ request[s].account \in provisioned
           /\ archived' = archived \cup {request[s].account}
           /\ Goto(s, "committed")
           /\ UNCHANGED <<request, answer, entry, adjusted, created, locks,
                          provisioned, closed, counted>>
  <2>1. RowTypes'
    BY <1>3 DEF JournalInv, RowTypes, Goto, PC
  <2>2. entry[s] = None /\ answer[s] = None
    BY <1>1 DEF JournalInv, Written, Unwritten, Answered, Replies, Answering
  <2>3. Posted' = Posted
    BY <1>1, <1>3, <2>2 DEF JournalInv, RowTypes, Goto, Posted
  <2>4. Served'
    BY <1>1, <1>3, <2>3 DEF JournalInv, RowTypes, Served, Fits, Goto
  <2>5. Written'
    BY <1>3, <2>2 DEF JournalInv, RowTypes, Written, Goto, Unwritten, FingerprintOf
  <2>6. Answered'
    BY <1>3, <2>2, <2>3 DEF JournalInv, RowTypes, Answered, Replies, Goto, Answering, FingerprintOf
  <2>7. SingleKey' /\ SingleReversal'
    BY <1>3 DEF JournalInv, SingleKey, SingleReversal
  <2> QED
    BY <2>1, <2>4, <2>5, <2>6, <2>7 DEF JournalInv
<1> QED
  BY <1>2, <1>3 DEF Archive

LEMMA SameRowsJournal ==
  ASSUME JournalInv, RowTypes', UNCHANGED <<request, pc, answer, entry>>
  PROVE  JournalInv'
<1>1. Posted' = Posted
  BY DEF Posted
<1>2. Served'
  BY <1>1 DEF JournalInv, Served, Fits
<1>3. Written'
  BY DEF JournalInv, Written, FingerprintOf
<1>4. Answered'
  BY <1>1 DEF JournalInv, Answered, Replies, FingerprintOf
<1>5. SingleKey' /\ SingleReversal'
  BY DEF JournalInv, SingleKey, SingleReversal
<1> QED
  BY <1>2, <1>3, <1>4, <1>5 DEF JournalInv

LEMMA CloseMonthJournal ==
  ASSUME JournalInv, NEW m \in Month, CloseMonth(m)
  PROVE  JournalInv'
<1>1. RowTypes'
  BY DEF JournalInv, RowTypes, CloseMonth, Countable, Posted
<1> QED
  BY <1>1, SameRowsJournal DEF CloseMonth

LEMMA StepJournal ==
  ASSUME JournalInv, NEW s \in Session, Step(s)
  PROVE  JournalInv'
  BY ProvisionJournal, EarlyLookupJournal, ReadAccountsJournal, LockOriginalJournal,
     CheckReversedJournal, InsertDraftJournal, LateLookupJournal, InsertLinesJournal,
     TransitionJournal, CloseCheckJournal, CommitJournal, ArchiveJournal
  DEF Step

\* Only a session that waits for a lock or a row can be a deadlock victim.
LEMMA VictimIsActive ==
  ASSUME JournalInv, NEW s \in Session, DeadlockVictim(s)
  PROVE  pc[s] \notin {"idle", "committed", "aborted"} /\ Rollback(s, "rolledBack")
<1>1. Rollback(s, "rolledBack") /\ InCircle(s, Session, Waiting)
  BY DEF DeadlockVictim
<1>2. Waiting(s) # {}
  BY <1>1 DEF InCircle
<1> QED
  BY <1>1, <1>2 DEF Waiting

LEMMA NextJournal == JournalInv /\ [Next]_vars => JournalInv'
<1> SUFFICES ASSUME JournalInv, [Next]_vars PROVE JournalInv'
  OBVIOUS
<1>1. ASSUME NEW s \in Session, NEW r \in Request, Begin(s, r) PROVE JournalInv'
  BY <1>1, BeginJournal
<1>2. ASSUME NEW s \in Session, Step(s) PROVE JournalInv'
  BY <1>2, StepJournal
<1>3. ASSUME NEW s \in Session, Crash(s) PROVE JournalInv'
  BY <1>3, RollbackJournal DEF Crash, Active, Finished, Error, JournalInv, Served, Fits
<1>4. ASSUME NEW s \in Session, DeadlockVictim(s) PROVE JournalInv'
  BY <1>4, VictimIsActive, RollbackJournal DEF Error
<1>5. ASSUME NEW m \in Month, CloseMonth(m) PROVE JournalInv'
  BY <1>5, CloseMonthJournal
<1>6. CASE UNCHANGED vars
  <2>1. RowTypes'
    BY <1>6 DEF JournalInv, RowTypes, vars, table
  <2> QED
    BY <1>6, <2>1, SameRowsJournal DEF vars
<1> QED
  BY <1>1, <1>2, <1>3, <1>4, <1>5, <1>6 DEF Next, Posting

\* A session only takes locks of its own, on accounts.
LocksOf(s) == [session : {s}, account : Account, mode : LockMode]

LEMMA StepTakes ==
  ASSUME NEW s \in Session, Step(s)
  PROVE  locks' \subseteq locks \cup LocksOf(s)
<1>1. \A why : Rollback(s, why) => locks' \subseteq locks
  BY DEF Rollback, Released
<1>2. \A t : AnswerFrom(s, t) => locks' \subseteq locks
  BY <1>1 DEF AnswerFrom
<1>3. \A a, mode : Lock(s, a, mode) /\ a \in Account /\ mode \in LockMode => locks' \subseteq locks \cup LocksOf(s)
  BY DEF Lock, LocksOf
<1>4. CASE InsertLines(s)
  <2>1. PICK a \in Unshared(s) : Lock(s, a, "KeyShare")
    BY <1>4 DEF InsertLines
  <2> QED
    BY <1>3, <2>1 DEF Unshared, Touched, LockMode
<1>5. CASE Transition(s)
  <2>1. (\E a \in Lowest(Unlocked(s)) : Lock(s, a, "ForUpdate")) \/ Rollback(s, "archived")
    BY <1>5 DEF Transition
  <2> QED
    BY <1>1, <1>3, <2>1 DEF Lowest, Unlocked, Touched, LockMode
<1>6. CASE Provision(s) \/ EarlyLookup(s) \/ ReadAccounts(s) \/ LockOriginal(s) \/ CheckReversed(s)
           \/ InsertDraft(s) \/ LateLookup(s)
  BY <1>1, <1>2, <1>6 DEF Provision, EarlyLookup, ReadAccounts, LockOriginal, CheckReversed, InsertDraft, LateLookup
<1>7. CASE CloseCheck(s) \/ Commit(s) \/ Archive(s)
  BY <1>1, <1>7 DEF CloseCheck, Commit, Archive, Released
<1> QED
  BY <1>4, <1>5, <1>6, <1>7 DEF Step

LEMMA PostingTakes ==
  ASSUME Posting
  PROVE  \E s \in Session : locks' \subseteq locks \cup LocksOf(s)
<1>1. \A s, why : Rollback(s, why) => locks' \subseteq locks
  BY DEF Rollback, Released
<1> QED
  BY <1>1, StepTakes DEF Posting, Begin, Crash, DeadlockVictim

LEMMA NextLockTypes == LockTypes /\ [Next]_vars => LockTypes'
<1> SUFFICES ASSUME LockTypes, [Next]_vars PROVE LockTypes'
  OBVIOUS
<1>1. CASE Posting
  <2>1. PICK s \in Session : locks' \subseteq locks \cup LocksOf(s)
    BY <1>1, PostingTakes
  <2> QED
    BY <2>1 DEF LockTypes, LocksOf
<1>2. CASE UNCHANGED locks
  BY <1>2 DEF LockTypes
<1> QED
  BY <1>1, <1>2 DEF Next, CloseMonth, vars

\* Every reachable state of the journal fits its types: an answer is an entry
\* id or a known error, a draft is a row of journal_entries, and so on.
THEOREM Types == Spec => []TypeOK
<1>1. JournalInv /\ LockTypes => TypeOK
  BY DEF JournalInv, TypeOK
<1>2. Init => LockTypes
  BY DEF Init, LockTypes
<1> QED
  BY <1>1, <1>2, InitJournal, NextJournal, NextLockTypes, PTL DEF Spec

\* For every number of sessions and keys, one key leaves one journal entry.
THEOREM OncePerKey == Spec => []PostedOncePerKey
<1>1. JournalInv => PostedOncePerKey
  BY DEF JournalInv, SingleKey, PostedOncePerKey, Posted
<1> QED
  BY <1>1, InitJournal, NextJournal, PTL DEF Spec

\* For every number of sessions and keys, an entry is reversed at most once.
THEOREM ReversedOnce == Spec => []ReversedAtMostOnce
<1>1. JournalInv => ReversedAtMostOnce
  BY DEF JournalInv, SingleReversal, ReversedAtMostOnce, Posted
<1> QED
  BY <1>1, InitJournal, NextJournal, PTL DEF Spec

\* Success is only ever answered with a committed entry of the right content.
THEOREM CommittedAnswer == Spec => []AnswerIsCommitted
<1>1. JournalInv => AnswerIsCommitted
  BY DEF JournalInv, Answered, Replies, Answering, AnswerIsCommitted, Posted
<1> QED
  BY <1>1, InitJournal, NextJournal, PTL DEF Spec

-----------------------------------------------------------------------------
(* Locks, archived accounts.                                               *)

Locking == {"lines", "transition", "closeCheck", "commit"}
LockInv ==
    /\ \A l \in locks : l.session \in Session => pc[l.session] \in Locking
    /\ \A s \in Session : pc[s] \in {"closeCheck", "commit"} /\ entry[s] # None
          => Touched(entry[s].lines) \subseteq Held(s, "ForUpdate")
    /\ \A s \in Session : entry[s] # None /\ entry[s].reversalOf = None
          => Held(s, "ForUpdate") \cap archived = {}

LEMMA RollbackLocks ==
  ASSUME JournalInv, LockInv, NEW s \in Session, NEW why \in Error, Rollback(s, why)
  PROVE  LockInv'
  BY DEF JournalInv, RowTypes, LockInv, Rollback, Released, Goto, Held, Touched, table

LEMMA MoveLocks ==
  ASSUME JournalInv, LockInv, NEW s \in Session, NEW label \in PC, Goto(s, label),
         pc[s] \notin Locking, UNCHANGED <<entry, locks, archived>>,
         label \in {"closeCheck", "commit"} => entry[s] = None
  PROVE  LockInv'
  BY DEF JournalInv, RowTypes, LockInv, Goto, Held, Touched

LEMMA LockTaken ==
  ASSUME JournalInv, LockInv, NEW s \in Session, NEW a \in Account, NEW mode \in LockMode,
         NEW label \in Locking, pc[s] \in Locking, Goto(s, label), Lock(s, a, mode),
         UNCHANGED <<entry, archived>>,
         mode = "ForUpdate" => MayPostTo(s, a),
         label \in {"closeCheck", "commit"} /\ entry[s] # None
            => Touched(entry[s].lines) \subseteq Held(s, "ForUpdate")'
  PROVE  LockInv'
<1>1. \A l \in locks' : l.session \in Session => pc'[l.session] \in Locking
  BY DEF JournalInv, RowTypes, LockInv, Goto, Lock
<1>2. \A t \in Session : t # s => Held(t, "ForUpdate")' = Held(t, "ForUpdate")
  BY DEF Held, Lock
<1>3. Held(s, "ForUpdate")' \subseteq Held(s, "ForUpdate") \cup {b \in {a} : mode = "ForUpdate"}
  BY DEF Held, Lock
<1>4. entry[s] # None /\ entry[s].reversalOf = None => Held(s, "ForUpdate")' \cap archived' = {}
  BY <1>3 DEF LockInv, MayPostTo
<1> QED
  BY <1>1, <1>2, <1>4 DEF JournalInv, RowTypes, LockInv, Goto, Touched

\* The statements before the INSERT of a row take no lock on an account.
LEMMA EarlyLocks ==
  ASSUME JournalInv, LockInv, NEW s \in Session,
         \/ Provision(s) \/ EarlyLookup(s) \/ ReadAccounts(s) \/ LockOriginal(s)
         \/ CheckReversed(s) \/ LateLookup(s)
  PROVE  LockInv'
<1>1. pc[s] \in Unwritten /\ pc[s] \notin Locking /\ entry[s] = None
  BY DEF Provision, EarlyLookup, ReadAccounts, LockOriginal, CheckReversed, LateLookup,
         JournalInv, Written, Unwritten, Locking
<1>2. CASE \E why \in Error : Rollback(s, why)
  BY <1>2, RollbackLocks
<1>3. CASE /\ \E label \in PC : Goto(s, label)
           /\ UNCHANGED <<entry, locks, archived>>
  BY <1>1, <1>3, MoveLocks
<1>4. ASSUME NEW t \in Session, AnswerFrom(s, t) PROVE LockInv'
  BY <1>2, <1>3, <1>4 DEF AnswerFrom, Error, PC, table
<1>5. (IF request[s].op = "post" THEN "accounts" ELSE "lockOriginal") \in PC
  BY DEF PC
<1>6. CASE Provision(s) \/ LockOriginal(s) \/ CheckReversed(s) \/ ReadAccounts(s)
  BY <1>2, <1>3, <1>6 DEF Provision, LockOriginal, CheckReversed, ReadAccounts, Error, PC, table
<1>7. CASE EarlyLookup(s)
  BY <1>3, <1>4, <1>5, <1>7 DEF EarlyLookup, Posted, table
<1>8. CASE LateLookup(s)
  BY <1>4, <1>8 DEF LateLookup, Posted
<1> QED
  BY <1>6, <1>7, <1>8

LEMMA InsertDraftLocks ==
  ASSUME JournalInv, LockInv, NEW s \in Session, InsertDraft(s)
  PROVE  LockInv'
<1>1. pc[s] = "insert" /\ \A l \in locks : l.session # s
  BY DEF InsertDraft, LockInv, Locking
<1>2. CASE Rollback(s, "alreadyReversed")
  BY <1>2, RollbackLocks DEF Error
<1>3. CASE Goto(s, "late") /\ UNCHANGED <<entry, locks, archived>>
  BY <1>1, <1>3, MoveLocks DEF Locking, PC
<1>4. CASE /\ entry' = [entry EXCEPT ![s] = Draft(s)] /\ Goto(s, "lines")
           /\ UNCHANGED <<locks, archived>>
  <2>1. Held(s, "ForUpdate")' = {}
    BY <1>1, <1>4 DEF Held
  <2>2. \A t \in Session : t # s => /\ Held(t, "ForUpdate")' = Held(t, "ForUpdate")
                                    /\ entry'[t] = entry[t] /\ pc'[t] = pc[t]
    BY <1>4 DEF Held, Goto, JournalInv, RowTypes
  <2>3. \A l \in locks' : l.session \in Session => pc'[l.session] \in Locking
    BY <1>1, <1>4 DEF JournalInv, RowTypes, LockInv, Goto
  <2>4. pc'[s] = "lines"
    BY <1>4 DEF Goto, JournalInv, RowTypes
  <2> QED
    BY <1>4, <2>1, <2>2, <2>3, <2>4 DEF LockInv, Touched
<1> QED
  BY <1>2, <1>3, <1>4 DEF InsertDraft, table

LEMMA InsertLinesLocks ==
  ASSUME JournalInv, LockInv, NEW s \in Session, InsertLines(s)
  PROVE  LockInv'
<1>1. PICK a \in Unshared(s) :
        /\ Lock(s, a, "KeyShare")
        /\ Goto(s, IF Unshared(s) = {a} THEN "transition" ELSE "lines")
  BY DEF InsertLines
<1>2. a \in Account /\ "KeyShare" \in LockMode
  BY <1>1 DEF Unshared, Touched, LockMode
<1>3. (IF Unshared(s) = {a} THEN "transition" ELSE "lines") \in Locking \ {"closeCheck", "commit"}
  BY DEF Locking
<1>4. pc[s] \in Locking /\ UNCHANGED <<entry, archived>>
  BY DEF InsertLines, Locking, table
<1> QED
  BY <1>1, <1>2, <1>3, <1>4, LockTaken

LEMMA TransitionLocks ==
  ASSUME JournalInv, LockInv, NEW s \in Session, Transition(s)
  PROVE  LockInv'
<1>1. CASE Rollback(s, "archived")
  BY <1>1, RollbackLocks DEF Error
<1>2. ASSUME NEW a \in Lowest(Unlocked(s)), MayPostTo(s, a), Lock(s, a, "ForUpdate"),
             Goto(s, IF Unlocked(s) = {a} THEN "closeCheck" ELSE "transition"),
             UNCHANGED <<entry, archived>>
      PROVE  LockInv'
  <2> DEFINE label == IF Unlocked(s) = {a} THEN "closeCheck" ELSE "transition"
  <2>1. a \in Account /\ "ForUpdate" \in LockMode /\ label \in Locking /\ Goto(s, label)
    BY <1>2 DEF Lowest, Unlocked, Touched, LockMode, Locking
  <2>2. pc[s] \in Locking
    BY DEF Transition, Locking
  <2>3. label \in {"closeCheck", "commit"} /\ entry[s] # None
          => Touched(entry[s].lines) \subseteq Held(s, "ForUpdate")'
    <3>1. Held(s, "ForUpdate") \cup {a} \subseteq Held(s, "ForUpdate")'
      BY <1>2, <2>1 DEF Held, Lock
    <3> QED
      BY <3>1 DEF Unlocked
  <2> HIDE DEF label
  <2> QED
    BY <1>2, <2>1, <2>2, <2>3, LockTaken
<1> QED
  BY <1>1, <1>2 DEF Transition, table

LEMMA CloseCheckLocks ==
  ASSUME JournalInv, LockInv, NEW s \in Session, CloseCheck(s)
  PROVE  LockInv'
<1>1. pc[s] = "closeCheck" /\ Goto(s, "commit") /\ UNCHANGED <<entry, locks, archived>>
  BY DEF CloseCheck, table
<1> QED
  BY <1>1 DEF JournalInv, RowTypes, LockInv, Goto, Held, Touched, Locking

LEMMA CommitLocks ==
  ASSUME JournalInv, LockInv, NEW s \in Session, Commit(s)
  PROVE  LockInv'
  BY DEF JournalInv, RowTypes, LockInv, Commit, Released, Goto, Held, Touched, Locking

LEMMA ArchiveLocks ==
  ASSUME JournalInv, LockInv, NEW s \in Session, Archive(s)
  PROVE  LockInv'
<1>1. pc[s] = "archive" /\ entry[s] = None
  BY DEF Archive, JournalInv, Written, Unwritten
<1>2. CASE \E why \in Error : Rollback(s, why)
  BY <1>2, RollbackLocks
<1> DEFINE a == request[s].account
<1>3. CASE /\ a \in archived \/ Grantable(locks, s, a, "NoKeyUpdate")
           /\ archived' = archived \cup {a}
           /\ Goto(s, "committed") /\ UNCHANGED <<entry, locks>>
  <2>1. \A t \in Session \ {s} : a \in archived \/ a \notin Held(t, "ForUpdate")
    BY <1>3 DEF Grantable, Holders, Conflicts, Held
  <2>2. Held(s, "ForUpdate") = {}
    BY <1>1 DEF LockInv, Held, Locking
  <2>3. \A t \in Session : Held(t, "ForUpdate")' = Held(t, "ForUpdate")
    BY <1>3 DEF Held
  <2>4. \A l \in locks' : l.session \in Session => pc'[l.session] \in Locking
    BY <1>1, <1>3 DEF JournalInv, RowTypes, LockInv, Goto, Locking
  <2>5. \A t \in Session : entry[t] # None /\ entry[t].reversalOf = None
           => Held(t, "ForUpdate")' \cap archived' = {}
    BY <1>1, <1>3, <2>1, <2>3 DEF LockInv
  <2>6. \A t \in Session : pc'[t] \in {"closeCheck", "commit"} => pc'[t] = pc[t]
    BY <1>3 DEF JournalInv, RowTypes, Goto
  <2> QED
    BY <1>3, <2>3, <2>4, <2>5, <2>6 DEF LockInv, Touched
<1> QED
  BY <1>2, <1>3 DEF Archive, Error

LEMMA NextLocks == JournalInv /\ LockInv /\ [Next]_vars => LockInv'
<1> SUFFICES ASSUME JournalInv, LockInv, [Next]_vars PROVE LockInv'
  OBVIOUS
<1>1. ASSUME NEW s \in Session, NEW r \in Request, Begin(s, r) PROVE LockInv'
  <2>1. /\ pc[s] = "idle" /\ UNCHANGED <<entry, locks, archived>>
        /\ \E label \in {"provision", "lookup", "archive"} : Goto(s, label)
    BY <1>1 DEF Begin, Request, table
  <2> QED
    BY <2>1, MoveLocks DEF Locking, PC
<1>2. ASSUME NEW s \in Session, Step(s) PROVE LockInv'
  BY <1>2, EarlyLocks, InsertDraftLocks, InsertLinesLocks, TransitionLocks, CloseCheckLocks,
     CommitLocks, ArchiveLocks DEF Step
<1>3. ASSUME NEW s \in Session, Crash(s) \/ DeadlockVictim(s) PROVE LockInv'
  BY <1>3, RollbackLocks, "rolledBack" \in Error DEF Crash, DeadlockVictim, Error
<1>4. CASE UNCHANGED <<pc, entry, locks, archived>>
  BY <1>4 DEF LockInv, Held, Touched
<1> QED
  BY <1>1, <1>2, <1>3, <1>4 DEF Next, Posting, CloseMonth, vars, table

LEMMA InitLocks == Init => LockInv
  BY DEF Init, LockInv

\* Only a commit adds to the posted entries, and it writes nothing else.
Unposted(s) == pc[s] # "committed" \/ entry[s] = None

LEMMA MovePosts ==
  ASSUME JournalInv, NEW s \in Session, NEW t \in Session, Unposted(s),
         NEW label, label # "committed", Goto(t, label),
         \A u \in Session : u # t => entry'[u] = entry[u]
  PROVE  Unposted(s)'
  BY DEF JournalInv, RowTypes, Goto, Unposted

LEMMA RollbackPosts ==
  ASSUME JournalInv, NEW s \in Session, NEW t \in Session, Unposted(s),
         NEW why, Rollback(t, why)
  PROVE  Unposted(s)'
  BY MovePosts DEF Rollback, JournalInv, RowTypes

LEMMA StepPosts ==
  ASSUME JournalInv, NEW s \in Session, NEW t \in Session, Unposted(s), Step(t), ~Commit(t)
  PROVE  Unposted(s)'
<1> DEFINE Moves == \E label \in PC \ {"committed"} :
                       Goto(t, label) /\ \A u \in Session : u # t => entry'[u] = entry[u]
           Ends == \E why \in Error : Rollback(t, why)
<1>1. Moves \/ Ends => Unposted(s)'
  BY MovePosts, RollbackPosts
<1>2. \A u \in Session : AnswerFrom(t, u) => Moves \/ Ends
  BY DEF AnswerFrom, PC, Error
<1>3. Provision(t) \/ ReadAccounts(t) \/ LockOriginal(t) \/ CheckReversed(t) \/ CloseCheck(t)
        => Moves \/ Ends
  BY DEF Provision, ReadAccounts, LockOriginal, CheckReversed, CloseCheck, PC, Error
<1>4. EarlyLookup(t) \/ LateLookup(t) => Moves \/ Ends
  <2>1. (IF request[t].op = "post" THEN "accounts" ELSE "lockOriginal") \in PC \ {"committed"}
    BY DEF PC
  <2> HIDE DEF Ends
  <2> QED
    BY <1>2, <2>1 DEF EarlyLookup, LateLookup, Posted
<1>5. InsertDraft(t) => Moves \/ Ends
  BY DEF InsertDraft, PC, Error, JournalInv, RowTypes
<1>6. InsertLines(t) => Moves
  <2>1. \A a : (IF Unshared(t) = {a} THEN "transition" ELSE "lines") \in PC \ {"committed"}
    BY DEF PC
  <2> QED
    BY <2>1 DEF InsertLines
<1>7. Transition(t) => Moves \/ Ends
  <2>1. \A a : (IF Unlocked(t) = {a} THEN "closeCheck" ELSE "transition") \in PC \ {"committed"}
    BY DEF PC
  <2>2. "archived" \in Error
    BY DEF Error
  <2> QED
    BY <2>1, <2>2 DEF Transition
<1>8. Archive(t) => Unposted(s)'
  <2>1. Archive(t) => pc[t] = "archive" /\ entry[t] = None
    BY DEF Archive, JournalInv, Written, Unwritten
  <2>2. Archive(t) => Ends \/ (Goto(t, "committed") /\ entry' = entry)
    BY DEF Archive, Error
  <2> HIDE DEF Ends
  <2> QED
    BY <1>1, <2>1, <2>2 DEF Goto, Unposted, JournalInv, RowTypes
<1> HIDE DEF Moves, Ends
<1> QED
  BY <1>1, <1>3, <1>4, <1>5, <1>6, <1>7, <1>8 DEF Step

LEMMA PostedGrows ==
  ASSUME JournalInv, [Next]_vars, NEW s \in Session, s \in Posted', s \notin Posted
  PROVE  pc[s] = "commit" /\ Commit(s)
<1>1. Unposted(s) /\ ~Unposted(s)'
  BY DEF Posted, Unposted
<1>2. ASSUME NEW t \in Session, Commit(t) PROVE t = s
  BY <1>1, <1>2 DEF Commit, Goto, Unposted, JournalInv, RowTypes
<1>3. ASSUME NEW t \in Session, NEW r \in Request, Begin(t, r) PROVE FALSE
  <2>1. \E label \in {"provision", "lookup", "archive"} : Goto(t, label) /\ entry' = entry
    BY <1>3 DEF Begin, Request
  <2> QED
    BY <1>1, <2>1, MovePosts
<1>4. ASSUME NEW t \in Session, Step(t), ~Commit(t) PROVE FALSE
  BY <1>1, <1>4, StepPosts
<1>5. ASSUME NEW t \in Session, Crash(t) \/ DeadlockVictim(t) PROVE FALSE
  BY <1>1, <1>5, RollbackPosts DEF Crash, DeadlockVictim
<1>6. UNCHANGED <<pc, entry>> => FALSE
  BY <1>1 DEF Unposted
<1>7. \E t \in Session : Commit(t)
  BY <1>3, <1>4, <1>5, <1>6 DEF Next, Posting, CloseMonth, vars
<1> QED
  BY <1>2, <1>7 DEF Commit

\* The FOR UPDATE lock of the transition keeps an archive out until the commit:
\* the account an entry commits on is not archived, for any interleaving.
THEOREM NeverPostedToArchived == Spec => NoPostingToArchived
<1>1. JournalInv /\ LockInv /\ [Next]_vars
        => [\A s \in Session :
               s \in Posted' \ Posted /\ entry'[s].reversalOf = None
               => Touched(entry'[s].lines) \cap archived' = {}]_vars
  <2> SUFFICES ASSUME JournalInv, LockInv, [Next]_vars, NEW s \in Session,
                      s \in Posted' \ Posted, entry'[s].reversalOf = None
               PROVE  Touched(entry'[s].lines) \cap archived' = {}
    OBVIOUS
  <2>1. pc[s] = "commit" /\ Commit(s)
    BY PostedGrows
  <2>2. entry' = entry /\ archived' = archived /\ entry[s] # None
    BY <2>1 DEF Commit, Posted
  <2> QED
    BY <2>1, <2>2 DEF LockInv
<1> QED
  BY <1>1, InitJournal, NextJournal, InitLocks, NextLocks, PTL DEF Spec, NoPostingToArchived

-----------------------------------------------------------------------------
(* The month close.                                                        *)

\* An expense a close of its month would count.
Expensed(s) ==
    entry[s] # None /\ Touched(entry[s].lines) \cap Budgeted # {} /\ ExpenseDelta(entry[s].lines) # 0

CountInv ==
    /\ Budgeted \subseteq provisioned
    /\ \A m \in Month : counted[m] # {} => m \in closed
    /\ \A m \in Month, s \in Session :
          s \in counted[m] => s \in Posted /\ ~adjusted[s]
    /\ \A s \in Session :
          adjusted[s] => pc[s] \in Answering /\ entry[s] # None /\ entry[s].month \in closed
    /\ \A s \in Session :
          /\ pc[s] \in Answering /\ Expensed(s)
          /\ entry[s].month \in closed
          => adjusted[s] \/ s \in counted[entry[s].month]

LEMMA InitCount == ASSUME Budgeted \subseteq FirstAccounts, Init PROVE CountInv
  BY DEF Init, CountInv, Answering, Expensed

LEMMA MonthOf == ASSUME JournalInv, NEW s \in Session, entry[s] # None PROVE entry[s].month \in Month
  BY DEF JournalInv, RowTypes, Entry

LEMMA RollbackCount ==
  ASSUME JournalInv, CountInv, NEW s \in Session, s \notin Posted, NEW why \in Error, Rollback(s, why)
  PROVE  CountInv'
<1>1. \A t \in Session : t # s => /\ pc'[t] = pc[t] /\ entry'[t] = entry[t]
                                  /\ adjusted'[t] = adjusted[t]
  BY DEF JournalInv, RowTypes, Rollback, Goto
<1>2. pc'[s] = "aborted" /\ entry'[s] = None /\ adjusted'[s] = FALSE
  BY DEF JournalInv, RowTypes, Rollback, Goto
<1>3. UNCHANGED <<provisioned, closed, counted>>
  BY DEF Rollback, table
<1>4. \A m \in Month, t \in Session : t \in counted'[m] => t \in Posted' /\ ~adjusted'[t]
  BY <1>1, <1>3 DEF CountInv, Posted
<1> QED
  BY <1>1, <1>2, <1>3, <1>4 DEF CountInv, Answering, Expensed

\* A step that leaves posted entries and adjustments alone.
LEMMA MoveCount ==
  ASSUME JournalInv, CountInv, NEW s \in Session, NEW label \in PC, Goto(s, label),
         s \notin Posted,
         UNCHANGED <<provisioned, closed, counted, adjusted>>,
         \A t \in Session : t # s => entry'[t] = entry[t],
         pc[s] \notin Answering,
         label \in Answering => entry'[s] = None
  PROVE  CountInv'
<1>1. \A t \in Session : t # s => pc'[t] = pc[t]
  BY DEF JournalInv, RowTypes, Goto
<1>2. pc'[s] = label /\ ~adjusted[s]
  BY DEF JournalInv, RowTypes, Goto, CountInv
<1>3. \A m \in Month, t \in Session : t \in counted'[m] => t \in Posted' /\ ~adjusted'[t]
  BY <1>1 DEF CountInv, Posted
<1> QED
  BY <1>1, <1>2, <1>3 DEF CountInv, Expensed

LEMMA StepCount ==
  ASSUME JournalInv, LockInv, CountInv, NEW s \in Session, Step(s),
         ~CloseCheck(s), ~Commit(s)
  PROVE  CountInv'
<1> DEFINE Moves == \E label \in PC :
                      /\ Goto(s, label)
                      /\ UNCHANGED <<provisioned, closed, counted, adjusted>>
                      /\ \A t \in Session : t # s => entry'[t] = entry[t]
                      /\ label \in Answering => entry'[s] = None
           Ends == \E why \in Error : Rollback(s, why)
           Early == pc[s] \notin Answering /\ s \notin Posted
<1>1. Early /\ (Moves \/ Ends) => CountInv'
  BY MoveCount, RollbackCount
<1>2. pc[s] \in Unwritten => entry[s] = None
  BY DEF JournalInv, Written
<1>3. \A u \in Session : pc[s] \in Unwritten /\ AnswerFrom(s, u) => Moves \/ Ends
  BY <1>2 DEF AnswerFrom, PC, Error, table
<1>4. Provision(s) \/ ReadAccounts(s) \/ LockOriginal(s) \/ CheckReversed(s)
        => Early /\ (Moves \/ Ends)
  BY DEF Provision, ReadAccounts, LockOriginal, CheckReversed, PC, Error, Answering, Posted, table
<1>5. EarlyLookup(s) \/ LateLookup(s) => Early /\ (Moves \/ Ends)
  <2>1. EarlyLookup(s) \/ LateLookup(s) => Early /\ pc[s] \in Unwritten
    BY DEF EarlyLookup, LateLookup, Answering, Posted, Unwritten
  <2>2. (IF request[s].op = "post" THEN "accounts" ELSE "lockOriginal") \in PC \ Answering
    BY DEF PC, Answering
  <2> HIDE DEF Ends, Early
  <2> QED
    BY <1>3, <2>1, <2>2 DEF EarlyLookup, LateLookup, Posted, table
<1>6. InsertDraft(s) => Early /\ (Moves \/ Ends)
  BY DEF InsertDraft, PC, Error, JournalInv, RowTypes, Answering, Posted, table
<1>7. InsertLines(s) => Early /\ Moves
  <2>1. \A a : (IF Unshared(s) = {a} THEN "transition" ELSE "lines") \in PC \ Answering
    BY DEF PC, Answering
  <2> QED
    BY <2>1 DEF InsertLines, Answering, Posted, table
<1>8. Transition(s) => Early /\ (Moves \/ Ends)
  <2>1. \A a : (IF Unlocked(s) = {a} THEN "closeCheck" ELSE "transition") \in PC \ Answering
    BY DEF PC, Answering
  <2>2. "archived" \in Error
    BY DEF Error
  <2> QED
    BY <2>1, <2>2 DEF Transition, Answering, Posted, table
<1>9. Archive(s) => Early /\ (Moves \/ Ends)
  <2>1. Archive(s) => Early /\ entry[s] = None
    BY DEF Archive, Answering, Posted, JournalInv, Written, Unwritten
  <2> QED
    BY <2>1 DEF Archive, Error, PC
<1> HIDE DEF Moves, Ends, Early
<1> QED
  BY <1>1, <1>4, <1>5, <1>6, <1>7, <1>8, <1>9 DEF Step

LEMMA CloseCheckCount ==
  ASSUME JournalInv, CountInv, NEW s \in Session, CloseCheck(s)
  PROVE  CountInv'
<1>1. \A t \in Session : t # s => pc'[t] = pc[t] /\ adjusted'[t] = adjusted[t]
  BY DEF JournalInv, RowTypes, CloseCheck, Goto
<1>2. /\ pc[s] = "closeCheck" /\ pc'[s] = "commit" /\ entry[s] # None
      /\ adjusted'[s] = OwesAdjustment(s)
      /\ UNCHANGED <<entry, provisioned, closed, counted>>
  BY DEF JournalInv, RowTypes, Written, CloseCheck, Goto, table
<1>3. \A m \in Month, t \in Session : t \in counted'[m] => t \in Posted' /\ ~adjusted'[t]
  BY <1>1, <1>2 DEF CountInv, Posted
<1>4. /\ adjusted'[s] => entry[s].month \in closed
      /\ Expensed(s) /\ entry[s].month \in closed => adjusted'[s]
  BY <1>2 DEF OwesAdjustment, Expensed
<1> QED
  BY <1>1, <1>2, <1>3, <1>4 DEF CountInv, Answering, Expensed, Touched

LEMMA CommitCount ==
  ASSUME JournalInv, CountInv, NEW s \in Session, Commit(s)
  PROVE  CountInv'
<1>1. /\ pc[s] = "commit" /\ pc'[s] = "committed"
      /\ \A t \in Session : t # s => pc'[t] = pc[t]
      /\ provisioned \subseteq provisioned'
      /\ UNCHANGED <<entry, adjusted, closed, counted>>
  BY DEF JournalInv, RowTypes, Commit, Goto
<1>2. \A m \in Month, t \in Session : t \in counted'[m] => t \in Posted' /\ ~adjusted'[t]
  BY <1>1 DEF CountInv, Posted
<1> QED
  BY <1>1, <1>2 DEF CountInv, Answering, Expensed, Touched

\* A session that has yet to commit an expense holds its account locked, so
\* the month of that expense cannot be closed before it commits.
LEMMA CloseMonthCount ==
  ASSUME JournalInv, LockInv, CountInv, NEW m \in Month, CloseMonth(m)
  PROVE  CountInv'
<1>1. /\ m \notin closed /\ closed' = closed \cup {m}
      /\ counted' = [counted EXCEPT ![m] = Countable(m)]
      /\ \A l \in locks : l.account \notin Budgeted \cap provisioned
      /\ UNCHANGED <<pc, entry, adjusted, provisioned>>
  BY DEF CloseMonth
<1>2. \A n \in Month : counted'[n] = IF n = m THEN Countable(m) ELSE counted[n]
  BY <1>1 DEF JournalInv, RowTypes
<1>3. \A s \in Countable(m) : s \in Posted /\ entry[s].month = m /\ ~adjusted[s]
  BY <1>1 DEF Countable, CountInv, Posted
<1>4. \A n \in Month, s \in Session : s \in counted'[n] => s \in Posted' /\ ~adjusted'[s]
  BY <1>1, <1>2, <1>3 DEF CountInv, Posted
<1>5. ASSUME NEW s \in Session, pc[s] \in Answering, Expensed(s), entry[s].month \in closed'
      PROVE  adjusted[s] \/ s \in counted'[entry[s].month]
  <2>1. entry[s] # None /\ Touched(entry[s].lines) \cap Budgeted # {} /\ entry[s].month \in Month
    BY <1>5, MonthOf DEF Expensed
  <2>2. CASE entry[s].month # m
    BY <1>1, <1>2, <1>5, <2>1, <2>2 DEF CountInv
  <2>3. CASE entry[s].month = m /\ pc[s] = "committed"
    BY <1>2, <2>1, <2>3 DEF Countable, Posted
  <2>4. CASE pc[s] = "commit"
    <3>1. PICK a \in Touched(entry[s].lines) \cap Budgeted : TRUE
      BY <2>1
    <3>2. a \in Held(s, "ForUpdate") /\ a \in Budgeted \cap provisioned
      BY <2>1, <2>4, <3>1 DEF LockInv, CountInv
    <3> QED
      BY <1>1, <3>2 DEF Held
  <2> QED
    BY <1>5, <2>2, <2>3, <2>4 DEF Answering
<1> QED
  BY <1>1, <1>2, <1>3, <1>4, <1>5 DEF CountInv, Answering, Expensed, Touched

LEMMA NextCount == JournalInv /\ LockInv /\ CountInv /\ [Next]_vars => CountInv'
<1> SUFFICES ASSUME JournalInv, LockInv, CountInv, [Next]_vars PROVE CountInv'
  OBVIOUS
<1>1. ASSUME NEW s \in Session, NEW r \in Request, Begin(s, r) PROVE CountInv'
  <2>1. /\ pc[s] = "idle" /\ UNCHANGED <<entry, provisioned, closed, counted, adjusted>>
        /\ \E label \in {"provision", "lookup", "archive"} : Goto(s, label)
    BY <1>1 DEF Begin, Request, table
  <2> QED
    BY <2>1, MoveCount DEF Answering, PC, Posted
<1>2. ASSUME NEW s \in Session, Step(s) PROVE CountInv'
  BY <1>2, StepCount, CloseCheckCount, CommitCount
<1>3. ASSUME NEW s \in Session, Crash(s) \/ DeadlockVictim(s) PROVE CountInv'
  <2>1. s \notin Posted /\ Rollback(s, "rolledBack")
    BY <1>3, VictimIsActive DEF Crash, Active, Finished, Posted
  <2> QED
    BY <2>1, RollbackCount DEF Error
<1>4. ASSUME NEW m \in Month, CloseMonth(m) PROVE CountInv'
  BY <1>4, CloseMonthCount
<1>5. CASE UNCHANGED vars
  BY <1>5 DEF vars, table, CountInv, Posted, Expensed, Touched
<1> QED
  BY <1>1, <1>2, <1>3, <1>4, <1>5 DEF Next, Posting

\* With the budgeted roles provisioned, a closed month and its adjustments
\* together hold every expense dated in it exactly once.
THEOREM CountedOnce ==
  ASSUME Budgeted \subseteq FirstAccounts
  PROVE  Spec => []ExpenseCountedOnce
<1>1. CountInv /\ JournalInv => ExpenseCountedOnce
  <2> SUFFICES ASSUME CountInv, JournalInv, NEW s \in Posted, entry[s].month \in closed,
                      Touched(entry[s].lines) \cap Budgeted # {},
                      ExpenseDelta(entry[s].lines) # 0
               PROVE  (s \in counted[entry[s].month]) # adjusted[s]
    BY DEF ExpenseCountedOnce
  <2>1. s \in Session /\ pc[s] \in Answering /\ Expensed(s) /\ entry[s].month \in Month
    BY MonthOf DEF Posted, Answering, Expensed
  <2>2. adjusted[s] \in BOOLEAN
    BY <2>1 DEF JournalInv, RowTypes
  <2>3. adjusted[s] \/ s \in counted[entry[s].month]
    BY <2>1 DEF CountInv
  <2>4. ~(adjusted[s] /\ s \in counted[entry[s].month])
    BY <2>1 DEF CountInv
  <2> QED
    BY <2>2, <2>3, <2>4
<1> QED
  BY <1>1, InitJournal, NextJournal, InitLocks, NextLocks, InitCount, NextCount, PTL DEF Spec
=============================================================================
