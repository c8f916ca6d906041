---------------------------- MODULE RecordProofs ----------------------------
(***************************************************************************)
(* Proofs about what is recorded once, whoever asks: the revisions of a    *)
(* transaction, the rows of an imported statement, a passkey.              *)
(***************************************************************************)
EXTENDS CanonicalTransactions, StatementImports, PasskeyEnrollment, FiniteSetTheorems, TLAPS

-----------------------------------------------------------------------------
(***************************************************************************)
(* Proofs about CanonicalTransactions, for every number of sessions, keys  *)
(* and contents.  The inductive invariant ChainInv rests on two facts: one *)
(* session at a time holds the lock of a transaction's row (Exclusive),    *)
(* hence the revision it found latest stays latest until it commits        *)
(* (Linked); and every revision but the latest has a successor (Covered),  *)
(* whose commit reversed it.                                               *)
(***************************************************************************)

Inserted == {"source", "reverse", "apply", "bind", "commit"}
Holding == {"latest", "revision"} \cup Inserted
Stranding == {"alreadyReversed", "incompleteState"}
Edits(s) == request[s] # None /\ request[s].op # "create"

\* A session's variables fit each other and the statement it executes.
RowFits(s) ==
    /\ row[s].op = request[s].op
    /\ row[s].op = "create" => row[s].tx = s /\ row[s].no = 1 /\ row[s].prev = None /\ row[s].content = Merged(s)
    /\ row[s].op # "create" => row[s].tx = request[s].tx
    /\ row[s].op = "update" => row[s].content = Merged(s)
    /\ reversal[s] = IF row[s].op = "create" \/ pc[s] \in {"source", "reverse"} THEN None
                     ELSE row[s].prev
    /\ pc[s] \in {"commit", "committed"} => bound[s]
    /\ pc[s] = "apply" => row[s].op # "void"
    /\ applied[s] <=> row[s].op # "void" /\ pc[s] \notin {"source", "reverse", "apply"}
Own(s) ==
    /\ pc[s] = "idle" <=> request[s] = None
    /\ row[s] # None <=> pc[s] \in Inserted \/ (pc[s] = "committed" /\ answer[s] = s)
    /\ row[s] = None => reversal[s] = None /\ ~applied[s]
    /\ row[s] # None => RowFits(s)
    /\ pc[s] \in {"identity", "lateIdentity"} => request[s].op = "create"
    /\ pc[s] \in {"read", "parent", "latest", "reverse"} => Edits(s)
    /\ pc[s] = "read" => request[s].op = "update"
    /\ pc[s] \notin {"read", "aborted"} /\ request[s] # None /\ request[s].op # "void" => base[s] \in Content
    /\ pc[s] = "aborted" => answer[s] \notin Stranding

\* What an edit knows of the chain it extends.
Linked(s) ==
    LET t == request[s].tx IN
    Edits(s) =>
        /\ t \in Chain(t)
        /\ \E r \in Chain(t) :
              /\ request[s].expected <= row[r].no
              /\ request[s].op = "update" /\ pc[s] \notin {"read", "aborted"} => base[s] = row[r].content
        /\ pc[s] = "revision" => \E r \in LatestOf(t) : Expected(s, r)
        /\ pc[s] \in Inserted => row[s].prev \in LatestOf(t)
        /\ row[s] # None =>
              LET p == row[s].prev IN
              /\ p \in Chain(t) /\ row[p].op # "void"
              /\ row[p].no = request[s].expected /\ row[s].no = row[p].no + 1
              /\ row[s].op = "update" =>
                    \A f \in Field : request[s].given[f] = None =>
                                        row[s].content[f] = row[p].content[f]
              /\ row[s].op = "void" => row[s].content = row[p].content

Answers(s) ==
    pc[s] = "committed" =>
        LET a == answer[s] IN
        /\ a \in Committed /\ row[a].op = request[s].op
        /\ row[a].op # "create" => row[a].tx = request[s].tx
        /\ row[a].op # "void" => row[a].content = Merged(s)

Exclusive ==
    \A s, t \in Session :
        /\ Edits(s) /\ Edits(t) /\ pc[s] \in Holding /\ pc[t] \in Holding
        /\ request[s].tx = request[t].tx
        => s = t

\* Every revision but the latest has a successor.
Covered ==
    \A s, t \in Committed :
        row[s].tx = row[t].tx /\ row[s].no < row[t].no =>
            \E r \in Committed : row[r].op # "create" /\ row[r].prev = s

Sessions == \A s \in Session : Own(s) /\ Linked(s) /\ Answers(s)
ChainInv == TypeOK /\ Sessions /\ Exclusive /\ ChainLinear /\ Covered

-----------------------------------------------------------------------------
USE GivenAssumption, RevisionNoAssumption, NoValueAssumption

LEMMA InitChain == Init => ChainInv
  BY DEF Init, ChainInv, TypeOK, Sessions, Own, Linked, Answers, Exclusive, ChainLinear, Covered,
         Committed, Edits, Inserted, Holding, PC

\* What is a step of session s that commits no revision.
Others(s) ==
    \A t \in Session \ {s} :
        /\ request'[t] = request[t] /\ pc'[t] = pc[t] /\ answer'[t] = answer[t]
        /\ base'[t] = base[t] /\ row'[t] = row[t] /\ reversal'[t] = reversal[t]
        /\ applied'[t] = applied[t] /\ bound'[t] = bound[t]
Quiet(s) == Others(s) /\ s \notin Committed /\ Committed' = Committed

LEMMA QuietChains ==
  ASSUME NEW s \in Session, Quiet(s)
  PROVE  /\ \A t \in Committed : row'[t] = row[t] /\ t # s /\ t \in Session
         /\ \A t : Chain(t)' = Chain(t) /\ LatestOf(t)' = LatestOf(t)
<1>1. \A t \in Committed : row'[t] = row[t] /\ t # s /\ t \in Session
  BY DEF Quiet, Others, Committed
<1>2. \A t : Chain(t)' = Chain(t)
  BY <1>1 DEF Quiet, Chain
<1>3. \A t : LatestOf(t)' = LatestOf(t)
  BY <1>1, <1>2 DEF LatestOf, Chain
<1> QED
  BY <1>1, <1>2, <1>3

LEMMA QuietStep ==
  ASSUME ChainInv, NEW s \in Session, Quiet(s), TypeOK',
         Own(s)', Linked(s)', Answers(s)',
         Edits(s)' /\ pc'[s] \in Holding =>
            \/ request'[s] = request[s] /\ pc[s] \in Holding
            \/ LockedBy(request'[s].tx) = {}
  PROVE  ChainInv'
<1>1. /\ \A t \in Committed : row'[t] = row[t] /\ t # s /\ t \in Session
      /\ \A t : Chain(t)' = Chain(t) /\ LatestOf(t)' = LatestOf(t)
      /\ Committed' = Committed
  BY QuietChains DEF Quiet
<1>2. ASSUME NEW t \in Session, t # s PROVE Own(t)' /\ Linked(t)' /\ Answers(t)'
  <2>1. /\ request'[t] = request[t] /\ pc'[t] = pc[t] /\ answer'[t] = answer[t]
        /\ base'[t] = base[t] /\ row'[t] = row[t] /\ reversal'[t] = reversal[t]
        /\ applied'[t] = applied[t] /\ bound'[t] = bound[t]
    BY <1>2 DEF Quiet, Others
  <2>2. Own(t) /\ Linked(t) /\ Answers(t)
    BY DEF ChainInv, Sessions
  <2>3. Merged(t)' = Merged(t)
    BY <2>1 DEF Merged
  <2>4. Own(t)'
    BY <2>1, <2>2, <2>3 DEF Own, RowFits, Edits
  <2>5. Linked(t)'
    <3>1. \A r \in Chain(request[t].tx) : row'[r] = row[r]
      BY <1>1 DEF Chain
    <3>2. \A r \in LatestOf(request[t].tx) : row'[r] = row[r]
      BY <3>1 DEF LatestOf
    <3> QED
      BY <1>1, <2>1, <2>2, <3>1, <3>2 DEF Linked, Edits, Expected
  <2>6. Answers(t)'
    BY <1>1, <2>1, <2>2, <2>3 DEF Answers
  <2> QED
    BY <2>4, <2>5, <2>6
<1>3. Sessions'
  BY <1>2 DEF Sessions
<1>4. Exclusive'
  <2> SUFFICES ASSUME NEW t \in Session, NEW u \in Session, t # u,
                      Edits(t)', Edits(u)', pc'[t] \in Holding, pc'[u] \in Holding,
                      request'[t].tx = request'[u].tx
               PROVE  FALSE
    BY DEF Exclusive
  <2>1. \A r \in Session : r # s => request'[r] = request[r] /\ pc'[r] = pc[r]
    BY DEF Quiet, Others
  <2>2. CASE t # s /\ u # s
    BY <2>1, <2>2 DEF ChainInv, Exclusive, Edits
  <2>3. ASSUME NEW r \in Session, r # s, Edits(r)', pc'[r] \in Holding,
               Edits(s)', pc'[s] \in Holding, request'[s].tx = request'[r].tx
        PROVE  FALSE
    <3>1. r \in LockedBy(request'[s].tx)
      BY <2>1, <2>3 DEF LockedBy, Edits, Holding, Inserted
    <3>2. request'[s] = request[s] /\ pc[s] \in Holding
      BY <2>3, <3>1
    <3> QED
      BY <2>1, <2>3, <3>2 DEF ChainInv, Exclusive, Edits
  <2> QED
    BY <2>2, <2>3
<1>5. ChainLinear'
  BY <1>1 DEF ChainInv, ChainLinear
<1>6. Covered'
  BY <1>1 DEF ChainInv, Covered
<1> QED
  BY <1>3, <1>4, <1>5, <1>6 DEF ChainInv

-----------------------------------------------------------------------------
\* The forms in which the actions change the variables of session s.
LEMMA RollbackChain ==
  ASSUME ChainInv, NEW s \in Session, pc[s] \notin {"idle", "committed", "aborted"},
         NEW why \in Error, why \notin Stranding, Rollback(s, why)
  PROVE  ChainInv'
<1>1. TypeOK'
  BY DEF ChainInv, TypeOK, Rollback, Goto, PC
<1>2. /\ pc'[s] = "aborted" /\ row'[s] = None /\ reversal'[s] = None /\ applied'[s] = FALSE
      /\ answer'[s] = why /\ request' = request /\ base' = base
  BY DEF ChainInv, TypeOK, Rollback, Goto
<1>3. Quiet(s)
  BY <1>2 DEF ChainInv, TypeOK, Rollback, Goto, Quiet, Others, Committed, written
<1>4. Own(s)'
  BY <1>2 DEF ChainInv, Sessions, Own, Inserted, Edits
<1>5. Linked(s)'
  <2>1. Linked(s)
    BY DEF ChainInv, Sessions
  <2>2. \A r \in Chain(request[s].tx) : row'[r] = row[r]
    BY <1>3, QuietChains DEF Chain
  <2> QED
    BY <1>2, <1>3, <2>1, <2>2, QuietChains DEF Linked, Edits, Inserted
<1>6. Answers(s)'
  BY <1>2 DEF Answers
<1> QED
  BY <1>1, <1>2, <1>3, <1>4, <1>5, <1>6, QuietStep DEF Holding, Inserted

\* A statement that only moves its session on.
LEMMA MoveChain ==
  ASSUME ChainInv, NEW s \in Session, NEW label \in PC, Goto(s, label),
         UNCHANGED <<request, answer, base, row, sourced, reversal, applied, bound>>,
         identity' \in [Session -> BOOLEAN],
         pc[s] \notin {"committed", "aborted", "idle", "read"} \cup Inserted,
         label \notin {"committed", "aborted", "idle", "read", "reverse"} \cup Inserted,
         label \in {"identity", "lateIdentity"} => request[s].op = "create",
         label \in {"parent", "latest"} => Edits(s),
         label = "revision" => Linked(s)' /\ (Edits(s) => pc[s] \in Holding),
         label = "latest" => LockedBy(request[s].tx) = {}
  PROVE  ChainInv'
<1>1. TypeOK'
  BY DEF ChainInv, TypeOK, Goto
<1>2. /\ pc'[s] = label /\ row' = row /\ reversal' = reversal /\ applied' = applied
      /\ answer' = answer /\ request' = request /\ base' = base
      /\ row[s] = None
  BY DEF ChainInv, TypeOK, Goto, Sessions, Own
<1>3. Quiet(s)
  BY <1>2 DEF ChainInv, TypeOK, Goto, Quiet, Others, Committed, written
<1>4. Own(s)'
  BY <1>2 DEF ChainInv, Sessions, Own, Inserted, Edits
<1>5. Linked(s)'
  <2>1. Linked(s)
    BY DEF ChainInv, Sessions
  <2>2. CASE label # "revision"
    BY <1>2, <1>3, <2>1, <2>2, QuietChains DEF Linked, Edits, Inserted
  <2> QED
    BY <2>2
<1>6. Answers(s)'
  BY <1>2 DEF Answers
<1>7. Edits(s) /\ label \in Holding => pc[s] \in Holding \/ LockedBy(request[s].tx) = {}
  BY DEF Holding, Inserted
<1> QED
  BY <1>1, <1>2, <1>3, <1>4, <1>5, <1>6, <1>7, QuietStep DEF Edits

-----------------------------------------------------------------------------
(* The actions.                                                            *)

LEMMA BeginCreateChain ==
  ASSUME ChainInv, NEW s \in Session, NEW r \in Request, BeginCreate(s, r)
  PROVE  ChainInv'
<1>1. r \in [op : {"create"}, key : Key, given : Given]
  BY DEF BeginCreate, Request
<1>2. r.given \in Partial
  BY <1>1
<1>3. PICK now \in Value :
         base' = [base EXCEPT ![s] = [f \in Field |-> IF r.given[f] = None THEN now ELSE r.given[f]]]
  BY DEF BeginCreate
<1> DEFINE full == [f \in Field |-> IF r.given[f] = None THEN now ELSE r.given[f]]
<1>4. full \in Content
  BY <1>2, <1>3 DEF Content, Partial
<1>5. /\ pc[s] = "idle" /\ request[s] = None /\ row[s] = None
      /\ pc'[s] = "lookup" /\ request'[s] = r /\ base'[s] = full
      /\ row' = row /\ answer' = answer /\ reversal' = reversal /\ applied' = applied
  <2>1. Own(s)
    BY DEF ChainInv, Sessions
  <2> QED
    BY <1>3, <2>1 DEF BeginCreate, Goto, ChainInv, TypeOK, Own, Inserted, written
<1> HIDE DEF full
<1>6. TypeOK'
  BY <1>3, <1>4, <1>5 DEF ChainInv, TypeOK, BeginCreate, Goto, PC, written, full
<1>7. Quiet(s)
  BY <1>3, <1>5 DEF ChainInv, TypeOK, BeginCreate, Goto, Quiet, Others, Committed, written
<1>8. Own(s)'
  BY <1>1, <1>4, <1>5 DEF ChainInv, Sessions, Own, Edits, Inserted
<1>9. Linked(s)'
  BY <1>1, <1>5 DEF Linked, Edits
<1>10. Answers(s)'
  BY <1>5 DEF Answers
<1> QED
  BY <1>1, <1>5, <1>6, <1>7, <1>8, <1>9, <1>10, QuietStep DEF Edits

LEMMA BeginEditChain ==
  ASSUME ChainInv, NEW s \in Session, NEW r \in Request, BeginEdit(s, r)
  PROVE  ChainInv'
<1> DEFINE label == IF r.op = "update" THEN "read" ELSE "lookup"
<1>1. r \in [op : {"update"}, key : Key, tx : Session, expected : RevisionNo, given : Patch]
        \cup [op : {"void"}, key : Key, tx : Session, expected : RevisionNo]
  BY DEF BeginEdit, Request
<1>2. r.tx \in Session /\ r.op \in {"update", "void"} /\ r.expected \in Nat /\ r # None
  BY <1>1
<1>3. /\ pc[s] = "idle" /\ request[s] = None /\ row[s] = None
      /\ pc'[s] = label /\ request'[s] = r /\ base' = base
      /\ row' = row /\ answer' = answer /\ reversal' = reversal /\ applied' = applied
  <2>1. Own(s)
    BY DEF ChainInv, Sessions
  <2> QED
    BY <2>1 DEF BeginEdit, Goto, ChainInv, TypeOK, Own, Inserted, written
<1>4. label \in {"read", "lookup"} /\ (label = "read" <=> r.op = "update")
  OBVIOUS
<1> HIDE DEF label
<1>5. TypeOK'
  BY <1>3, <1>4 DEF ChainInv, TypeOK, BeginEdit, Goto, PC, written, label
<1>6. Quiet(s)
  BY <1>3, <1>4 DEF ChainInv, TypeOK, BeginEdit, Goto, Quiet, Others, Committed, written, label
<1>7. Own(s)'
  BY <1>2, <1>3, <1>4 DEF ChainInv, Sessions, Own, Edits, Inserted
<1>8. Linked(s)'
  <2>1. PICK t \in Chain(r.tx) : row[t].no = r.expected
    BY DEF BeginEdit, Shown
  <2>2. t \in Session /\ row[t] # None /\ row[t].tx = r.tx /\ row[t] \in Revision
    BY <2>1 DEF Chain, Committed, ChainInv, TypeOK
  <2>3. Own(t) /\ Linked(t)
    BY <2>2 DEF ChainInv, Sessions
  <2>4. request[t] # None
    BY <2>1, <2>3 DEF Own, Chain, Committed
  <2>5. r.tx \in Chain(r.tx)
    <3>1. CASE row[t].op = "create"
      BY <2>1, <2>2, <2>3, <3>1 DEF Own, RowFits
    <3>2. CASE row[t].op # "create"
      BY <2>2, <2>3, <2>4, <3>2 DEF Own, RowFits, Linked, Edits
    <3> QED
      BY <3>1, <3>2
  <2>6. r.expected <= row[t].no
    BY <1>2, <2>1
  <2> QED
    BY <1>2, <1>3, <1>4, <1>6, <2>1, <2>5, <2>6, QuietChains DEF Linked, Inserted
<1>9. Answers(s)'
  BY <1>3, <1>4 DEF Answers
<1> QED
  BY <1>3, <1>4, <1>5, <1>6, <1>7, <1>8, <1>9, QuietStep DEF Holding, Inserted

LEMMA ReadLatestChain ==
  ASSUME ChainInv, NEW s \in Session, ReadLatest(s)
  PROVE  ChainInv'
<1>1. Own(s) /\ Linked(s) /\ pc[s] = "read" /\ Edits(s)
  BY DEF ChainInv, Sessions, Own, ReadLatest
<1>2. PICK t \in LatestOf(request[s].tx) : base' = [base EXCEPT ![s] = row[t].content]
  BY DEF ReadLatest
<1>3. t \in Chain(request[s].tx) /\ row[t] \in Revision /\ row[t].content \in Content
  BY <1>2 DEF LatestOf, Chain, Committed, ChainInv, TypeOK, Revision
<1>4. /\ pc'[s] = "lookup" /\ request' = request /\ base'[s] = row[t].content
      /\ row' = row /\ answer' = answer /\ reversal' = reversal /\ applied' = applied
  BY <1>2 DEF ReadLatest, Goto, ChainInv, TypeOK, written
<1>5. TypeOK'
  BY <1>2, <1>3 DEF ChainInv, TypeOK, ReadLatest, Goto, PC, written
<1>6. Quiet(s)
  BY <1>1, <1>2, <1>4 DEF ChainInv, TypeOK, ReadLatest, Goto, Quiet, Others, Committed, written
<1>7. Own(s)'
  BY <1>1, <1>3, <1>4 DEF Own, Edits, Inserted
<1>8. Linked(s)'
  <2>1. PICK r \in Chain(request[s].tx) : request[s].expected <= row[r].no
    BY <1>1 DEF Linked
  <2>2. row[r].no <= row[t].no
    BY <1>2, <2>1 DEF LatestOf
  <2>3. /\ request[s] \in [op : {"update"}, key : Key, tx : Session, expected : RevisionNo, given : Patch]
                            \cup [op : {"void"}, key : Key, tx : Session, expected : RevisionNo]
        /\ row[r] \in Revision
    BY <1>1, <2>1 DEF ChainInv, TypeOK, Request, Edits, Chain, Committed
  <2>4. request[s].expected \in Nat /\ row[r].no \in Nat /\ row[t].no \in Nat
    BY <1>3, <2>3 DEF Revision
  <2>5. request[s].expected <= row[t].no
    BY <2>1, <2>2, <2>4
  <2> QED
    BY <1>1, <1>3, <1>4, <1>6, <2>5, QuietChains DEF Linked, Edits, Inserted
<1>9. Answers(s)'
  BY <1>4 DEF Answers
<1> QED
  BY <1>4, <1>5, <1>6, <1>7, <1>8, <1>9, QuietStep DEF Holding, Inserted

\* A committed revision has its entries.
LEMMA CommittedIntact ==
  ASSUME ChainInv, NEW t \in Committed
  PROVE  Intact(t) /\ (row[t].op # "void" => Effective(t))
<1>1. /\ t \in Session /\ Own(t) /\ Linked(t) /\ RowFits(t) /\ row[t] # None /\ pc[t] = "committed"
  BY DEF Committed, ChainInv, Sessions, Own
<1>2. bound[t] /\ (applied[t] <=> row[t].op # "void")
  BY <1>1 DEF RowFits
<1>3. ASSUME row[t].op # "create" PROVE reversal[t] # None /\ Effective(row[t].prev)
  <2>1. Edits(t)
    BY <1>1, <1>3 DEF Own, RowFits, Edits
  <2>2. row[t].prev \in Committed /\ row[row[t].prev].op # "void"
    BY <1>1, <2>1 DEF Linked, Chain
  <2>3. row[t].prev \in Session /\ pc[row[t].prev] = "committed" /\ RowFits(row[t].prev)
    BY <2>2 DEF Committed, ChainInv, Sessions, Own
  <2>4. reversal[t] = row[t].prev
    BY <1>1, <1>3 DEF RowFits
  <2> QED
    BY <2>2, <2>3, <2>4, NoValueAssumption DEF RowFits, Effective
<1> QED
  BY <1>2, <1>3 DEF Intact, Effective

\* A replay or a conflict.
LEMMA AnswerChain ==
  ASSUME ChainInv, NEW s \in Session, NEW t \in Committed,
         pc[s] \in {"lookup", "lateIdentity"}, AnswerFrom(s, t)
  PROVE  ChainInv'
<1>1. CASE Rollback(s, "conflict")
  BY <1>1, RollbackChain DEF Error, Stranding
<1>2. CASE /\ SameRequest(s, t) /\ Intact(t)
           /\ answer' = [answer EXCEPT ![s] = t]
           /\ Goto(s, "committed")
           /\ UNCHANGED <<request, base, written>>
  <2>1. Own(s) /\ Linked(s) /\ t \in Session /\ row[s] = None /\ t # s /\ request[s] # None
    BY DEF ChainInv, Sessions, Own, Committed, Inserted
  <2>2. /\ pc'[s] = "committed" /\ request' = request /\ base' = base /\ answer'[s] = t
        /\ row' = row /\ reversal' = reversal /\ applied' = applied
    BY <1>2 DEF Goto, ChainInv, TypeOK, written
  <2>3. TypeOK'
    BY <1>2, <2>1 DEF ChainInv, TypeOK, Goto, PC, written
  <2>4. Quiet(s)
    BY <1>2, <2>1, <2>2 DEF ChainInv, TypeOK, Goto, Quiet, Others, Committed, written
  <2>5. Own(s)'
    BY <2>1, <2>2 DEF Own, Edits, Inserted
  <2>6. Linked(s)'
    BY <2>1, <2>2, <2>4, QuietChains DEF Linked, Edits, Inserted
  <2>7. Answers(s)'
    <3>1. Merged(s)' = Merged(s)
      BY <2>2 DEF Merged
    <3> QED
      BY <1>2, <2>1, <2>2, <2>4, <3>1 DEF Answers, Quiet, SameRequest
  <2> QED
    BY <2>2, <2>3, <2>4, <2>5, <2>6, <2>7, QuietStep DEF Holding, Inserted
<1> QED
  BY <1>1, <1>2, CommittedIntact DEF AnswerFrom

LEMMA EarlyLookupChain ==
  ASSUME ChainInv, NEW s \in Session, EarlyLookup(s)
  PROVE  ChainInv'
<1>1. Own(s) /\ pc[s] = "lookup"
  BY DEF ChainInv, Sessions, EarlyLookup
<1>2. CASE \E t \in Committed : AnswerFrom(s, t)
  BY <1>1, <1>2, AnswerChain
<1> DEFINE label == IF request[s].op = "create" THEN "identity" ELSE "parent"
<1>3. CASE Goto(s, label) /\ UNCHANGED <<request, answer, base, written>>
  <2>1. /\ label \in PC /\ label \in {"identity", "parent"}
        /\ label = "identity" => request[s].op = "create"
        /\ label = "parent" => Edits(s)
    BY <1>1 DEF PC, Own, Edits
  <2>2. identity' \in [Session -> BOOLEAN]
    BY <1>3 DEF written, ChainInv, TypeOK
  <2> HIDE DEF label
  <2> QED
    BY <1>1, <1>3, <2>1, <2>2, MoveChain DEF Inserted, written
<1> QED
  BY <1>2, <1>3 DEF EarlyLookup

LEMMA InsertIdentityChain ==
  ASSUME ChainInv, NEW s \in Session, InsertIdentity(s)
  PROVE  ChainInv'
<1>1. Own(s) /\ pc[s] = "identity" /\ request[s].op = "create"
  BY DEF ChainInv, Sessions, Own, InsertIdentity
<1>2. /\ UNCHANGED <<request, answer, base, row, sourced, reversal, applied, bound>>
      /\ identity' \in [Session -> BOOLEAN]
      /\ Goto(s, "lateIdentity") \/ Goto(s, "revision")
  BY DEF InsertIdentity, ChainInv, TypeOK
<1>3. CASE Goto(s, "lateIdentity")
  BY <1>1, <1>2, <1>3, MoveChain, "lateIdentity" \in PC DEF Inserted, PC
<1>4. CASE Goto(s, "revision")
  BY <1>1, <1>2, <1>4, MoveChain, "revision" \in PC DEF Inserted, PC, Linked, Edits
<1> QED
  BY <1>2, <1>3, <1>4

LEMMA LateIdentityChain ==
  ASSUME ChainInv, NEW s \in Session, LateIdentity(s)
  PROVE  ChainInv'
  BY AnswerChain DEF LateIdentity

LEMMA LockParentChain ==
  ASSUME ChainInv, NEW s \in Session, LockParent(s)
  PROVE  ChainInv'
<1>1. Own(s) /\ pc[s] = "parent" /\ Edits(s)
  BY DEF ChainInv, Sessions, Own, LockParent
<1>2. identity' \in [Session -> BOOLEAN]
  BY DEF LockParent, written, ChainInv, TypeOK
<1> QED
  BY <1>1, <1>2, MoveChain, "latest" \in PC DEF LockParent, written, Inserted, PC

LEMMA CheckLatestChain ==
  ASSUME ChainInv, NEW s \in Session, CheckLatest(s)
  PROVE  ChainInv'
<1>1. Own(s) /\ Linked(s) /\ pc[s] = "latest" /\ Edits(s)
  BY DEF ChainInv, Sessions, Own, CheckLatest
<1>2. CASE Rollback(s, "alreadyVoided") \/ Rollback(s, "revisionConflict")
  BY <1>1, <1>2, RollbackChain DEF Error, Stranding
<1>3. ASSUME NEW t \in LatestOf(request[s].tx), Expected(s, t), Goto(s, "revision"),
             UNCHANGED <<request, answer, base, written>>
      PROVE  ChainInv'
  <2>1. /\ pc'[s] = "revision" /\ request' = request /\ base' = base /\ row' = row
        /\ answer' = answer /\ reversal' = reversal /\ applied' = applied
        /\ identity' \in [Session -> BOOLEAN] /\ row[s] = None
    BY <1>1, <1>3 DEF Goto, ChainInv, TypeOK, written, Own, Inserted
  <2>2. Quiet(s)
    BY <1>1, <1>3, <2>1 DEF ChainInv, TypeOK, Goto, Quiet, Others, Committed, written
  <2>3. Expected(s, t)'
    BY <1>3, <2>1 DEF Expected
  <2>4. Linked(s)'
    BY <1>1, <1>3, <2>1, <2>2, <2>3, QuietChains DEF Linked, Edits, Inserted
  <2> QED
    BY <1>1, <1>3, <2>1, <2>4, MoveChain, "revision" \in PC DEF Inserted, PC, Holding, written
<1> QED
  BY <1>2, <1>3 DEF CheckLatest

\* The latest revision of a chain is one.
LEMMA OneLatest ==
  ASSUME ChainInv, NEW t \in Session, NEW r \in LatestOf(t), NEW u \in Chain(t),
         row[r].no <= row[u].no
  PROVE  u = r
<1>1. /\ r \in Committed /\ u \in Committed /\ row[r].tx = row[u].tx
      /\ row[u].no <= row[r].no
      /\ row[r] \in Revision /\ row[u] \in Revision
  BY DEF LatestOf, Chain, Committed, ChainInv, TypeOK
<1>2. row[r].no = row[u].no
  BY <1>1 DEF Revision
<1> QED
  BY <1>1, <1>2 DEF ChainInv, ChainLinear

LEMMA EditShape ==
  ASSUME ChainInv, NEW s \in Session, Edits(s)
  PROVE  /\ request[s].tx \in Session /\ request[s].expected \in Nat
         /\ request[s].op \in {"update", "void"}
         /\ request[s].op = "update" => request[s].given \in Partial
<1>1. request[s] \in [op : {"update"}, key : Key, tx : Session, expected : RevisionNo, given : Patch]
                       \cup [op : {"void"}, key : Key, tx : Session, expected : RevisionNo]
  BY DEF ChainInv, TypeOK, Request, Edits
<1> QED
  BY <1>1

LEMMA MergedContent ==
  ASSUME ChainInv, NEW s \in Session, pc[s] = "revision", request[s].op # "void"
  PROVE  Merged(s) \in Content
<1>1. request[s] # None /\ base[s] \in Content
  BY DEF ChainInv, Sessions, Own
<1>2. request[s].given \in Partial
  BY <1>1 DEF ChainInv, TypeOK, Request
<1> QED
  BY <1>1, <1>2 DEF Merged, Content, Partial

LEMMA InsertRevisionChain ==
  ASSUME ChainInv, NEW s \in Session, InsertRevision(s)
  PROVE  ChainInv'
<1>1. Own(s) /\ Linked(s) /\ pc[s] = "revision" /\ row[s] = None /\ request[s] # None
      /\ reversal[s] = None /\ ~applied[s]
  BY DEF ChainInv, Sessions, Own, InsertRevision, Inserted
<1>2. CASE Rollback(s, "rolledBack")
  BY <1>1, <1>2, RollbackChain DEF Error, Stranding
<1>3. ASSUME NEW r \in Appended(s), row' = [row EXCEPT ![s] = r], Goto(s, "source"),
             UNCHANGED <<request, answer, base, identity, sourced, reversal, applied, bound>>
      PROVE  ChainInv'
  <2>1. /\ pc'[s] = "source" /\ request' = request /\ base' = base /\ row'[s] = r
        /\ answer' = answer /\ reversal' = reversal /\ applied' = applied
    BY <1>3 DEF Goto, ChainInv, TypeOK
  <2>2. Merged(s)' = Merged(s)
    BY <2>1 DEF Merged
  <2>3. CASE request[s].op = "create"
    <3>1. r = [tx |-> s, no |-> 1, op |-> "create", prev |-> None, content |-> Merged(s)]
      BY <1>3, <2>3 DEF Appended
    <3>2. r \in Revision
      BY <1>1, <2>3, <3>1, MergedContent DEF Revision
    <3>3. Quiet(s)
      BY <1>1, <1>3, <2>1 DEF ChainInv, TypeOK, Goto, Quiet, Others, Committed, written
    <3>4. TypeOK'
      BY <1>3, <3>2 DEF ChainInv, TypeOK, Goto, PC
    <3>5. RowFits(s)'
      BY <1>1, <2>1, <2>2, <2>3, <3>1 DEF RowFits
    <3>6. Own(s)'
      BY <1>1, <2>1, <2>3, <3>2, <3>5 DEF Own, Inserted
    <3>7. Linked(s)' /\ Answers(s)' /\ ~Edits(s)'
      BY <2>1, <2>3 DEF Linked, Answers, Edits
    <3> QED
      BY <3>3, <3>4, <3>6, <3>7, QuietStep
  <2>4. CASE request[s].op # "create"
    <3>1. Edits(s)
      BY <1>1, <2>4 DEF Edits
    <3>2. PICK x \in Session : x = request[s].tx
      BY <3>1, EditShape
    <3>18. /\ request[s].expected \in Nat
           /\ request[s].op \in {"update", "void"}
           /\ request[s].op = "update" => request[s].given \in Partial
      BY <3>1, EditShape
    <3>3. PICK t \in LatestOf(x) :
             r = [tx |-> x, no |-> row[t].no + 1, op |-> request[s].op, prev |-> t,
                  content |-> IF request[s].op = "void" THEN row[t].content ELSE Merged(s)]
      BY <1>3, <2>4, <3>2 DEF Appended
    <3>4. t \in Session /\ row[t] \in Revision /\ t \in Chain(x)
      BY <3>3 DEF LatestOf, Chain, Committed, ChainInv, TypeOK
    <3>5. PICK q \in LatestOf(x) : Expected(s, q)
      BY <1>1, <3>1, <3>2 DEF Linked
    <3>6. q = t
      <4>1. q \in Chain(x) /\ row[t].no <= row[q].no
        BY <3>4, <3>5 DEF LatestOf
      <4> QED
        BY <3>3, <4>1, OneLatest
    <3>7. row[t].op # "void" /\ row[t].no = request[s].expected
      BY <3>5, <3>6 DEF Expected
    <3>19. /\ r.tx = x /\ r.no = row[t].no + 1 /\ r.op = request[s].op /\ r.prev = t
           /\ r.op = "update" => r.content = Merged(s)
      BY <3>18, <3>3
    <3>8. r \in Revision
      <4>1. CASE request[s].op = "void"
        BY <3>3, <3>4, <4>1 DEF Revision
      <4>2. CASE request[s].op = "update"
        <5>1. Merged(s) \in Content
          BY <1>1, <4>2, MergedContent
        <5> QED
          BY <3>3, <3>4, <4>2, <5>1 DEF Revision
      <4> QED
        BY <3>18, <4>1, <4>2
    <3>9. Quiet(s)
      BY <1>1, <1>3, <2>1 DEF ChainInv, TypeOK, Goto, Quiet, Others, Committed, written
    <3>10. TypeOK'
      BY <1>3, <3>8 DEF ChainInv, TypeOK, Goto, PC
    <3>11. RowFits(s)'
      BY <1>1, <2>1, <2>2, <3>2, <3>18, <3>19 DEF RowFits
    <3>12. Own(s)'
      BY <1>1, <2>1, <3>1, <3>8, <3>11 DEF Own, Inserted, Edits
    <3>13. PICK u \in Chain(x) :
              /\ request[s].expected <= row[u].no
              /\ request[s].op = "update" => base[s] = row[u].content
      BY <1>1, <3>1, <3>2 DEF Linked
    <3>14. u = t
      BY <3>3, <3>7, <3>13, OneLatest
    <3>15. request[s].op = "update" =>
             \A f \in Field : request[s].given[f] = None => r.content[f] = row[t].content[f]
      BY <3>18, <3>3, <3>13, <3>14 DEF Merged
    <3>16. Linked(s)'
      <4>1. row'[t] = row[t] /\ row'[u] = row[u]
        BY <1>3, <1>1, <3>4, <3>13 DEF Chain, Committed, ChainInv, TypeOK
      <4>2. Chain(x)' = Chain(x) /\ LatestOf(x)' = LatestOf(x)
        BY <3>9, QuietChains
      <4>3. x \in Chain(x)
        BY <1>1, <3>1, <3>2 DEF Linked
      <4>4. request'[s].tx = x /\ Edits(s)'
        BY <2>1, <3>1, <3>2 DEF Edits
      <4>5. /\ r.prev = t /\ r.no = row[t].no + 1 /\ r.op = request[s].op
        BY <3>3
      <4>6. /\ request'[s].expected <= row'[u].no
            /\ request'[s].op = "update" => base'[s] = row'[u].content
        BY <2>1, <3>13, <4>1
      <4> QED
        BY <2>1, <3>3, <3>4, <3>7, <3>13, <3>15, <4>1, <4>2, <4>3, <4>4, <4>5, <4>6 DEF Linked
    <3>17. Answers(s)'
      BY <2>1 DEF Answers
    <3> QED
      BY <1>1, <2>1, <3>9, <3>10, <3>12, <3>16, <3>17, QuietStep DEF Holding
  <2> QED
    BY <2>3, <2>4
<1> QED
  BY <1>2, <1>3 DEF InsertRevision

\* A statement after the revision is inserted, other than the commit.
LEMMA EffectChain ==
  ASSUME ChainInv, NEW s \in Session, pc[s] \in Inserted,
         NEW label \in {"reverse", "apply", "bind", "commit"}, Goto(s, label),
         label = "reverse" => row[s].op # "create",
         UNCHANGED <<request, answer, base, row>>,
         TypeOK', RowFits(s)',
         \A t \in Session \ {s} :
            reversal'[t] = reversal[t] /\ applied'[t] = applied[t] /\ bound'[t] = bound[t]
  PROVE  ChainInv'
<1>1. /\ Own(s) /\ Linked(s) /\ row[s] # None /\ RowFits(s)
      /\ request[s] # None /\ pc[s] \notin {"idle", "read", "aborted", "committed", "revision"}
  BY DEF ChainInv, Sessions, Own, Inserted
<1>2. /\ pc'[s] = label /\ label \in Inserted /\ request' = request /\ base' = base
      /\ row' = row /\ answer' = answer
  BY DEF Goto, ChainInv, TypeOK, Inserted
<1>3. Quiet(s)
  BY <1>1, <1>2 DEF ChainInv, TypeOK, Goto, Quiet, Others, Committed, written, Inserted
<1>4. Own(s)'
  BY <1>1, <1>2 DEF Own, Edits, Inserted, RowFits
<1>5. Linked(s)'
  <2>1. \A t : Chain(t)' = Chain(t) /\ LatestOf(t)' = LatestOf(t)
    BY <1>3, QuietChains
  <2> QED
    BY <1>1, <1>2, <2>1 DEF Linked, Edits, Inserted
<1>6. Answers(s)'
  BY <1>2 DEF Answers, Inserted
<1>7. pc[s] \in Holding
  BY DEF Holding
<1> QED
  BY <1>2, <1>3, <1>4, <1>5, <1>6, <1>7, QuietStep

LEMMA InsertSourceChain ==
  ASSUME ChainInv, NEW s \in Session, InsertSource(s)
  PROVE  ChainInv'
<1>1. Own(s) /\ pc[s] = "source" /\ row[s] # None /\ RowFits(s)
  BY DEF ChainInv, Sessions, Own, InsertSource, Inserted
<1>2. CASE Rollback(s, "sourceConflict")
  BY <1>1, <1>2, RollbackChain DEF Error, Stranding
<1>3. CASE /\ sourced' = [sourced EXCEPT ![s] = TRUE]
           /\ Goto(s, AfterSource(s))
           /\ UNCHANGED <<request, answer, base, identity, row, reversal, applied, bound>>
  <2>1. AfterSource(s) \in {"reverse", "apply"} /\ (AfterSource(s) = "apply" <=> row[s].op = "create")
    BY DEF AfterSource
  <2> DEFINE label == AfterSource(s)
  <2>2. /\ label \in {"reverse", "apply", "bind", "commit"} /\ label \in PC
        /\ label = "reverse" => row[s].op # "create"
    BY <2>1 DEF PC
  <2>3. TypeOK'
    BY <1>3, <2>2 DEF ChainInv, TypeOK, Goto
  <2>4. pc'[s] = label /\ reversal' = reversal /\ applied' = applied /\ row' = row /\ request' = request
    BY <1>3, <2>2 DEF ChainInv, TypeOK, Goto
  <2>5. Merged(s)' = Merged(s)
    BY <1>3 DEF Merged
  <2>6. RowFits(s)'
    BY <1>1, <2>1, <2>4, <2>5 DEF RowFits
  <2> QED
    BY <1>1, <1>3, <2>2, <2>3, <2>6, EffectChain DEF Inserted
<1> QED
  BY <1>2, <1>3 DEF InsertSource

\* The row's lock makes the previous revision the latest, and what reversed it
\* would be its successor: the reversal is never refused.
LEMMA ReversePreviousChain ==
  ASSUME ChainInv, NEW s \in Session, ReversePrevious(s)
  PROVE  ChainInv'
<1>1. Own(s) /\ Linked(s) /\ pc[s] = "reverse" /\ Edits(s) /\ row[s] # None /\ RowFits(s)
  BY DEF ChainInv, Sessions, Own, ReversePrevious, Inserted
<1>2. row[s].prev \in LatestOf(request[s].tx) /\ row[s].prev \in Session
  BY <1>1 DEF Linked, Inserted, LatestOf, Chain, Committed
<1>3. ASSUME NEW r \in Committed, reversal[r] = row[s].prev PROVE FALSE
  <2>1. r \in Session /\ Own(r) /\ Linked(r) /\ RowFits(r) /\ row[r] \in Revision /\ pc[r] = "committed"
    BY DEF Committed, ChainInv, Sessions, TypeOK, Own
  <2>2. row[r].op # "create" /\ row[r].prev = row[s].prev
    BY <1>2, <1>3, <2>1, NoValueAssumption DEF RowFits
  <2>3. Edits(r) /\ row[r].tx = request[r].tx
    BY <2>1, <2>2 DEF Edits, Own, RowFits
  <2>4. row[s].prev \in Chain(request[r].tx) /\ row[r].no = row[row[s].prev].no + 1
    BY <2>1, <2>2, <2>3 DEF Linked, Committed
  <2>5. r \in Chain(request[s].tx)
    BY <1>2, <2>3, <2>4 DEF Chain, LatestOf
  <2>6. row[r].no <= row[row[s].prev].no
    BY <1>2, <2>5 DEF LatestOf
  <2>7. row[row[s].prev] \in Revision
    BY <2>4 DEF Chain, Committed, ChainInv, TypeOK
  <2> QED
    BY <2>4, <2>6, <2>7 DEF Revision
<1> DEFINE label == IF row[s].op = "void" THEN "bind" ELSE "apply"
<1>4. /\ reversal' = [reversal EXCEPT ![s] = row[s].prev]
      /\ Goto(s, label)
      /\ UNCHANGED <<request, answer, base, identity, row, sourced, applied, bound>>
  <2>1. row[s].prev \in Committed /\ row[row[s].prev].op # "void"
    BY <1>1 DEF Linked, Chain
  <2>2. Effective(row[s].prev)
    BY <2>1, CommittedIntact
  <2> QED
    BY <1>3, <2>2 DEF ReversePrevious, Previous
<1>5. /\ label \in {"reverse", "apply", "bind", "commit"} /\ label \in PC /\ label # "reverse"
      /\ label = "bind" <=> row[s].op = "void"
      /\ label \in {"apply", "bind"}
  BY DEF PC
<1> HIDE DEF label
<1>6. TypeOK'
  BY <1>2, <1>4, <1>5 DEF ChainInv, TypeOK, Goto
<1>7. /\ pc'[s] = label /\ reversal'[s] = row[s].prev /\ applied' = applied /\ row' = row
      /\ request' = request
      /\ \A t \in Session \ {s} : reversal'[t] = reversal[t]
  BY <1>4, <1>5 DEF ChainInv, TypeOK, Goto
<1>8. Merged(s)' = Merged(s)
  BY <1>4 DEF Merged
<1>9. row[s].op # "create"
  BY <1>1 DEF RowFits, Edits
<1>10. RowFits(s)'
  BY <1>1, <1>5, <1>7, <1>8, <1>9 DEF RowFits
<1> QED
  BY <1>1, <1>4, <1>5, <1>6, <1>7, <1>10, EffectChain DEF Inserted

LEMMA ApplyNewChain ==
  ASSUME ChainInv, NEW s \in Session, ApplyNew(s)
  PROVE  ChainInv'
<1>1. Own(s) /\ Linked(s) /\ pc[s] = "apply" /\ row[s] # None /\ RowFits(s)
  BY DEF ChainInv, Sessions, Own, ApplyNew, Inserted
<1>2. CASE Rollback(s, "effectInvalid")
  BY <1>1, <1>2, RollbackChain DEF Error, Stranding
<1>3. CASE /\ applied' = [applied EXCEPT ![s] = TRUE]
           /\ Goto(s, "bind")
           /\ UNCHANGED <<request, answer, base, identity, row, sourced, reversal, bound>>
  <2>1. TypeOK'
    BY <1>3 DEF ChainInv, TypeOK, Goto, PC
  <2>2. /\ pc'[s] = "bind" /\ applied'[s] /\ reversal' = reversal /\ row' = row /\ request' = request
        /\ \A t \in Session \ {s} : applied'[t] = applied[t]
    BY <1>3 DEF ChainInv, TypeOK, Goto
  <2>3. Merged(s)' = Merged(s)
    BY <1>3 DEF Merged
  <2>4. RowFits(s)'
    BY <1>1, <2>2, <2>3 DEF RowFits
  <2> QED
    BY <1>1, <1>3, <2>1, <2>2, <2>4, EffectChain DEF Inserted
<1> QED
  BY <1>2, <1>3 DEF ApplyNew

LEMMA BindChain ==
  ASSUME ChainInv, NEW s \in Session, Bind(s)
  PROVE  ChainInv'
<1>1. Own(s) /\ pc[s] = "bind" /\ row[s] # None /\ RowFits(s)
  BY DEF ChainInv, Sessions, Own, Bind, Inserted
<1>2. TypeOK'
  BY DEF ChainInv, TypeOK, Bind, Goto, PC
<1>3. /\ pc'[s] = "commit" /\ applied' = applied /\ reversal' = reversal /\ row' = row
      /\ request' = request /\ bound'[s]
      /\ \A t \in Session \ {s} : bound'[t] = bound[t]
  BY DEF ChainInv, TypeOK, Bind, Goto
<1>4. Merged(s)' = Merged(s)
  BY DEF Merged, Bind
<1>5. RowFits(s)'
  BY <1>1, <1>3, <1>4 DEF RowFits
<1> QED
  BY <1>1, <1>2, <1>3, <1>5, EffectChain DEF Inserted, Bind

\* A commit makes its revision the latest of its transaction.
LEMMA CommitChains ==
  ASSUME ChainInv, NEW s \in Session, Commit(s), NEW x \in Session, x = row[s].tx
  PROVE  /\ Committed' = Committed \cup {s} /\ s \notin Committed
         /\ Chain(x)' = Chain(x) \cup {s}
         /\ \A y : y # x => Chain(y)' = Chain(y) /\ LatestOf(y)' = LatestOf(y)
         /\ row[s].op = "create" => Chain(x) = {}
         /\ \A t \in Chain(x) : /\ row[t].no < row[s].no /\ row[t].op # "void"
                                /\ t \in LatestOf(x) => t = row[s].prev
         /\ row[s].op # "create" => row[s].prev \in LatestOf(x)
<1>1. /\ Own(s) /\ Linked(s) /\ pc[s] = "commit" /\ row[s] # None /\ RowFits(s)
      /\ request[s] # None /\ row[s] \in Revision
  BY DEF ChainInv, Sessions, Own, Commit, Inserted, TypeOK
<1>2. row' = row /\ pc' = [pc EXCEPT ![s] = "committed"] /\ pc \in [Session -> PC]
  BY DEF Commit, Goto, written, ChainInv, TypeOK
<1>3. Committed' = Committed \cup {s} /\ s \notin Committed
  BY <1>1, <1>2 DEF Committed
<1>4. Chain(x)' = Chain(x) \cup {s}
  BY <1>2, <1>3 DEF Chain
<1>5. \A y : y # x => Chain(y)' = Chain(y)
  BY <1>2, <1>3 DEF Chain
<1>6. \A y : y # x => LatestOf(y)' = LatestOf(y)
  BY <1>2, <1>5 DEF LatestOf
<1>7. CASE row[s].op = "create"
  <2>1. x = s
    BY <1>1, <1>7 DEF RowFits
  <2>2. ASSUME NEW t \in Chain(x) PROVE FALSE
    <3>1. t \in Committed /\ row[t].tx = s /\ Own(t) /\ Linked(t) /\ RowFits(t) /\ t # s
      BY <1>3, <2>1, <2>2 DEF Chain, Committed, ChainInv, Sessions, Own
    <3>2. row[t].op # "create" /\ request[t] # None
      BY <3>1 DEF RowFits, Own, Committed
    <3>3. Edits(t) /\ request[t].tx = s
      BY <3>1, <3>2 DEF RowFits, Edits
    <3> QED
      BY <1>3, <3>1, <3>3 DEF Linked, Chain
  <2> QED
    BY <1>3, <1>4, <1>5, <1>6, <1>7, <2>2
<1>8. CASE row[s].op # "create"
  <2>1. Edits(s) /\ request[s].tx = x
    BY <1>1, <1>8 DEF Edits, RowFits
  <2>2. PICK p \in LatestOf(x) : /\ p = row[s].prev /\ row[p].op # "void"
                                 /\ row[s].no = row[p].no + 1
    BY <1>1, <2>1 DEF Linked, Inserted
  <2>3. ASSUME NEW t \in Chain(x)
        PROVE  row[t].no < row[s].no /\ row[t].op # "void" /\ (t \in LatestOf(x) => t = p)
    <3>1. /\ t \in Committed /\ p \in Committed /\ row[t].tx = row[p].tx
          /\ row[t] \in Revision /\ row[p] \in Revision /\ p \in Chain(x)
          /\ row[t].no <= row[p].no
      BY <2>2 DEF Chain, LatestOf, Committed, ChainInv, TypeOK
    <3>2. row[t].no < row[s].no
      BY <2>2, <3>1 DEF Revision
    <3>3. row[p].no <= row[t].no => t = p
      BY <2>2, <2>3, OneLatest
    <3>4. row[t].op = "void" => row[p].no <= row[t].no
      BY <3>1 DEF ChainInv, ChainLinear
    <3>5. t \in LatestOf(x) => row[p].no <= row[t].no
      BY <3>1 DEF LatestOf
    <3> QED
      BY <2>2, <3>2, <3>3, <3>4, <3>5
  <2> QED
    BY <1>3, <1>4, <1>5, <1>6, <1>8, <2>2, <2>3
<1> QED
  BY <1>7, <1>8

LEMMA CommitChain ==
  ASSUME ChainInv, NEW s \in Session, Commit(s)
  PROVE  ChainInv'
<1>1. /\ Own(s) /\ Linked(s) /\ pc[s] = "commit" /\ row[s] # None /\ RowFits(s)
      /\ request[s] # None /\ row[s] \in Revision
  BY DEF ChainInv, Sessions, Own, Commit, Inserted, TypeOK
<1>2. PICK x \in Session : x = row[s].tx
  BY <1>1 DEF Revision
<1>3. /\ Committed' = Committed \cup {s} /\ s \notin Committed
      /\ Chain(x)' = Chain(x) \cup {s}
      /\ \A y : y # x => Chain(y)' = Chain(y) /\ LatestOf(y)' = LatestOf(y)
      /\ row[s].op = "create" => Chain(x) = {}
      /\ \A t \in Chain(x) : /\ row[t].no < row[s].no /\ row[t].op # "void"
                             /\ t \in LatestOf(x) => t = row[s].prev
      /\ row[s].op # "create" => row[s].prev \in LatestOf(x)
  BY <1>2, CommitChains
<1>4. /\ request' = request /\ row' = row /\ base' = base /\ reversal' = reversal
      /\ applied' = applied /\ bound' = bound /\ pc' = [pc EXCEPT ![s] = "committed"]
      /\ answer' = [answer EXCEPT ![s] = s]
      /\ pc'[s] = "committed" /\ answer'[s] = s
  BY DEF Commit, Goto, written, ChainInv, TypeOK
<1>5. TypeOK'
  BY <1>4 DEF ChainInv, TypeOK, Commit, written, PC
<1>6. \A t \in Session : Merged(t)' = Merged(t)
  BY <1>4 DEF Merged
<1>7. \A t \in Session \ {s} : pc'[t] = pc[t] /\ answer'[t] = answer[t]
  BY <1>4 DEF ChainInv, TypeOK
<1>8. ASSUME NEW t \in Session PROVE Own(t)' /\ Answers(t)'
  <2>1. Own(t) /\ Answers(t)
    BY DEF ChainInv, Sessions
  <2>2. CASE t = s
    <3>1. RowFits(s)'
      BY <1>1, <1>4, <1>6 DEF RowFits
    <3>2. Own(s)'
      BY <1>1, <1>4, <3>1 DEF Own, Edits, Inserted
    <3>3. row[s].op \in {"create", "update", "void"}
      BY <1>1 DEF Revision
    <3>4. Answers(s)'
      BY <1>1, <1>3, <1>4, <1>6, <3>3 DEF Answers, RowFits
    <3> QED
      BY <2>2, <3>2, <3>4
  <2>3. CASE t # s
    <3>1. pc'[t] = pc[t] /\ answer'[t] = answer[t] /\ Merged(t)' = Merged(t)
      BY <1>6, <1>7, <2>3
    <3>2. Own(t)'
      BY <1>4, <2>1, <3>1 DEF Own, RowFits, Edits
    <3>3. Answers(t)'
      BY <1>3, <1>4, <2>1, <3>1 DEF Answers
    <3> QED
      BY <3>2, <3>3
  <2> QED
    BY <2>2, <2>3
<1>9. ASSUME NEW t \in Session PROVE Linked(t)'
  <2> SUFFICES ASSUME Edits(t) PROVE Linked(t)'
    BY <1>4 DEF Linked, Edits
  <2>1. Linked(t)
    BY DEF ChainInv, Sessions
  <2>2. PICK y \in Session : y = request[t].tx
    BY EditShape
  <2>3. \A c \in Chain(y) : c \in Chain(y)'
    BY <1>3
  <2>4. CASE t = s
    <3>1. pc'[s] \notin Inserted \cup {"revision", "read", "aborted"}
          /\ pc[s] \notin {"read", "aborted"}
      BY <1>1, <1>4 DEF Inserted
    <3> QED
      BY <1>4, <2>1, <2>2, <2>3, <2>4, <3>1 DEF Linked, Edits
  <2>5. CASE t # s /\ y # x
    <3>1. Chain(y)' = Chain(y) /\ LatestOf(y)' = LatestOf(y) /\ pc'[t] = pc[t]
      BY <1>3, <1>7, <2>5
    <3> QED
      BY <1>4, <2>1, <2>2, <3>1 DEF Linked, Edits, Expected
  <2>6. CASE t # s /\ y = x
    <3>1. Chain(x) # {} /\ row[s].op # "create"
      BY <1>3, <2>1, <2>2, <2>6 DEF Linked
    <3>2. Edits(s) /\ request[s].tx = x /\ pc[s] \in Holding
      BY <1>1, <1>2, <3>1 DEF Edits, RowFits, Holding, Inserted
    <3>3. pc[t] \notin Holding
      BY <2>2, <2>6, <3>2 DEF ChainInv, Exclusive
    <3>4. pc'[t] = pc[t] /\ pc'[t] \notin Inserted \cup {"revision"}
      BY <1>7, <2>6, <3>3 DEF Holding
    <3> QED
      BY <1>4, <2>1, <2>2, <2>3, <3>4 DEF Linked, Edits
  <2> QED
    BY <2>4, <2>5, <2>6
<1>10. Exclusive'
  BY <1>4, <1>7 DEF ChainInv, Exclusive, Edits, Holding, Inserted
<1>11. \A t \in Committed : t \in Session /\ t # s /\ row[t] \in Revision
                              /\ (row[t].tx = x <=> t \in Chain(x))
  BY <1>3 DEF Committed, Chain, ChainInv, TypeOK
<1>12. ChainLinear'
  <2> SUFFICES ASSUME NEW a \in Committed', NEW b \in Committed', row[a].tx = row[b].tx
               PROVE  /\ row[a].no = row[b].no => a = b
                      /\ row[a].op = "void" => row[b].no <= row[a].no
    BY <1>4 DEF ChainLinear
  <2>1. CASE a \in Committed /\ b \in Committed
    BY <2>1 DEF ChainInv, ChainLinear
  <2>2. CASE a = s /\ b \in Committed
    <3>1. row[b].no < row[s].no /\ row[b].no \in Nat /\ row[s].no \in Nat
      BY <1>1, <1>2, <1>3, <1>11, <2>2 DEF Revision
    <3> QED
      BY <2>2, <3>1
  <2>3. CASE b = s /\ a \in Committed
    <3>1. row[a].no < row[s].no /\ row[a].no \in Nat /\ row[s].no \in Nat /\ row[a].op # "void"
      BY <1>1, <1>2, <1>3, <1>11, <2>3 DEF Revision
    <3> QED
      BY <2>3, <3>1
  <2>4. CASE a = s /\ b = s
    BY <1>1, <2>4 DEF Revision
  <2> QED
    BY <1>3, <2>1, <2>2, <2>3, <2>4
<1>13. Covered'
  <2> SUFFICES ASSUME NEW a \in Committed', NEW b \in Committed', row[a].tx = row[b].tx,
                      row[a].no < row[b].no
               PROVE  \E r \in Committed' : row[r].op # "create" /\ row[r].prev = a
    BY <1>4 DEF Covered
  <2>1. CASE a \in Committed /\ b \in Committed
    BY <1>3, <2>1 DEF ChainInv, Covered
  <2>2. a # s
    <3> SUFFICES ASSUME a = s PROVE FALSE
      OBVIOUS
    <3>1. row[s].no \in Nat
      BY <1>1 DEF Revision
    <3>2. b # s
      BY <3>1
    <3>3. b \in Chain(x)
      BY <1>2, <1>3, <1>11, <3>2
    <3>4. row[b].no < row[s].no /\ row[b].no \in Nat
      BY <1>3, <1>11, <3>3 DEF Revision, Chain
    <3> QED
      BY <3>1, <3>4
  <2>3. CASE b = s /\ a \in Committed
    <3>1. a \in Chain(x)
      BY <1>2, <1>11, <2>3
    <3>2. row[s].op # "create"
      BY <1>3, <3>1
    <3>3. CASE a = row[s].prev
      BY <1>3, <3>2, <3>3
    <3>4. CASE a # row[s].prev
      <4>1. row[s].prev \in LatestOf(x) /\ row[s].prev \in Chain(x) /\ row[s].prev \in Committed
        BY <1>3, <3>2 DEF LatestOf, Chain
      <4>2. ~(row[row[s].prev].no <= row[a].no)
        BY <3>1, <3>4, <4>1, OneLatest
      <4>3. row[a].no \in Nat /\ row[row[s].prev].no \in Nat /\ row[row[s].prev].tx = row[a].tx
        BY <1>11, <2>3, <3>1, <4>1 DEF Revision, Chain
      <4>4. row[a].no < row[row[s].prev].no
        BY <4>2, <4>3
      <4> QED
        BY <1>3, <2>3, <4>1, <4>3, <4>4 DEF ChainInv, Covered
    <3> QED
      BY <3>3, <3>4
  <2> QED
    BY <1>3, <2>1, <2>2, <2>3
<1> QED
  BY <1>5, <1>8, <1>9, <1>10, <1>12, <1>13 DEF ChainInv, Sessions

LEMMA CrashChain ==
  ASSUME ChainInv, NEW s \in Session, Crash(s)
  PROVE  ChainInv'
<1>1. pc[s] \notin {"idle", "committed", "aborted"}
  BY DEF Crash, Active, Finished, ChainInv, Sessions, Own
<1> QED
  BY <1>1, RollbackChain DEF Crash, Error, Stranding

LEMMA NextChain == ChainInv /\ [Next]_vars => ChainInv'
<1> SUFFICES ASSUME ChainInv, [Next]_vars PROVE ChainInv'
  OBVIOUS
<1>1. ASSUME NEW s \in Session, NEW r \in Request, BeginCreate(s, r) PROVE ChainInv'
  BY <1>1, BeginCreateChain
<1>2. ASSUME NEW s \in Session, NEW r \in Request, BeginEdit(s, r) PROVE ChainInv'
  BY <1>2, BeginEditChain
<1>3. ASSUME NEW s \in Session, Step(s) PROVE ChainInv'
  BY <1>3, ReadLatestChain, EarlyLookupChain, InsertIdentityChain, LateIdentityChain,
     LockParentChain, CheckLatestChain, InsertRevisionChain, InsertSourceChain,
     ReversePreviousChain, ApplyNewChain, BindChain, CommitChain DEF Step
<1>4. ASSUME NEW s \in Session, Crash(s) PROVE ChainInv'
  BY <1>4, CrashChain
<1>5. CASE UNCHANGED vars
  <2>1. /\ request' = request /\ pc' = pc /\ answer' = answer /\ base' = base /\ row' = row
        /\ reversal' = reversal /\ applied' = applied /\ bound' = bound
        /\ identity' = identity /\ sourced' = sourced
    BY <1>5 DEF vars, written
  <2>2. Committed' = Committed /\ \A t : Chain(t)' = Chain(t) /\ LatestOf(t)' = LatestOf(t)
    BY <2>1 DEF Committed, Chain, LatestOf
  <2>3. TypeOK' /\ Exclusive' /\ ChainLinear' /\ Covered'
    BY <2>1, <2>2 DEF ChainInv, TypeOK, Exclusive, Edits, ChainLinear, Covered
  <2>4. ASSUME NEW s \in Session PROVE Own(s)' /\ Linked(s)' /\ Answers(s)'
    <3>1. Own(s) /\ Linked(s) /\ Answers(s) /\ Merged(s)' = Merged(s)
      BY <2>1 DEF ChainInv, Sessions, Merged
    <3>2. Own(s)'
      BY <2>1, <3>1 DEF Own, RowFits, Edits
    <3>3. Linked(s)'
      BY <2>1, <2>2, <3>1 DEF Linked, Edits, Expected
    <3>4. Answers(s)'
      BY <2>1, <2>2, <3>1 DEF Answers
    <3> QED
      BY <3>2, <3>3, <3>4
  <2> QED
    BY <2>3, <2>4 DEF ChainInv, Sessions
<1> QED
  BY <1>1, <1>2, <1>3, <1>4, <1>5 DEF Next

LEMMA ChainInvariant == Spec => []ChainInv
  BY InitChain, NextChain, PTL DEF Spec

-----------------------------------------------------------------------------
(* The theorems.                                                           *)

\* Every variable of the canonical transactions keeps its type.
THEOREM CanonicalTypes == Spec => []TypeOK
<1>1. ChainInv => TypeOK
  BY DEF ChainInv
<1> QED
  BY <1>1, ChainInvariant, PTL

\* The revisions of a transaction form one chain, which a void ends, in every
\* interleaving of the statements of any number of creates, updates and voids.
THEOREM ChainsAreLinear == Spec => []ChainLinear
<1>1. ChainInv => ChainLinear
  BY DEF ChainInv
<1> QED
  BY <1>1, ChainInvariant, PTL

\* No edit is lost (ledger-lifecycle.ts, manual-expenses/service.ts): an edit
\* follows the revision its client was shown and keeps what it does not state.
THEOREM NoEditLost == Spec => []EditsFollowShown
<1>1. ChainInv => EditsFollowShown
  <2> SUFFICES ASSUME ChainInv, NEW s \in Committed, row[s].op # "create"
               PROVE  LET p == row[s].prev IN
                      /\ p \in Chain(row[s].tx)
                      /\ row[p].no = request[s].expected /\ row[s].no = row[p].no + 1
                      /\ row[s].op = "update" =>
                            \A f \in Field : request[s].given[f] = None =>
                                                row[s].content[f] = row[p].content[f]
    BY DEF EditsFollowShown
  <2>1. Own(s) /\ Linked(s) /\ row[s] # None /\ pc[s] = "committed"
    BY DEF ChainInv, Sessions, Committed
  <2>2. Edits(s) /\ row[s].tx = request[s].tx
    BY <2>1 DEF Own, RowFits, Edits
  <2> QED
    BY <2>1, <2>2 DEF Linked
<1> QED
  BY <1>1, ChainInvariant, PTL

\* The ledger carries one entry that is not reversed for a transaction, that of
\* its latest revision, and none for a void one.
THEOREM LedgerFollowsLatest == Spec => []EffectOfLatest
<1>1. ChainInv => EffectOfLatest
  <2> SUFFICES ASSUME ChainInv, NEW t \in Session, NEW s \in Chain(t)
               PROVE  (applied[s] /\ \A r \in Committed : reversal[r] # s)
                        <=> (s \in LatestOf(t) /\ row[s].op # "void")
    BY DEF EffectOfLatest, Live, LatestOf
  <2>1. /\ s \in Committed /\ s \in Session /\ row[s] \in Revision /\ row[s].tx = t
        /\ applied[s] <=> row[s].op # "void"
    BY DEF Chain, Committed, ChainInv, TypeOK, Sessions, Own, RowFits
  <2>2. ASSUME NEW u \in Chain(t), ~(row[u].no <= row[s].no)
        PROVE  \E r \in Committed : reversal[r] = s
    <3>1. u \in Committed /\ row[u].tx = row[s].tx /\ row[u] \in Revision
      BY <2>1 DEF Chain, Committed, ChainInv, TypeOK
    <3>2. row[s].no < row[u].no
      BY <2>1, <2>2, <3>1 DEF Revision
    <3>3. PICK r \in Committed : row[r].op # "create" /\ row[r].prev = s
      BY <2>1, <3>1, <3>2 DEF ChainInv, Covered
    <3> QED
      BY <3>3 DEF Committed, ChainInv, Sessions, Own, RowFits
  <2>3. ASSUME NEW r \in Committed, reversal[r] = s PROVE s \notin LatestOf(t)
    <3>1. Own(r) /\ Linked(r) /\ RowFits(r) /\ row[r] # None /\ pc[r] = "committed" /\ row[r] \in Revision
      BY DEF ChainInv, Sessions, Own, Committed, TypeOK
    <3>2. row[r].op # "create" /\ row[r].prev = s
      BY <2>1, <2>3, <3>1, NoValueAssumption DEF RowFits
    <3>3. Edits(r) /\ row[r].tx = request[r].tx
      BY <3>1, <3>2 DEF Own, RowFits, Edits
    <3>4. s \in Chain(row[r].tx) /\ row[r].no = row[s].no + 1
      BY <3>1, <3>2, <3>3 DEF Linked
    <3>5. r \in Chain(t)
      BY <2>1, <3>4 DEF Chain
    <3>6. ~(row[r].no <= row[s].no)
      BY <2>1, <3>4 DEF Revision
    <3> QED
      BY <3>5, <3>6 DEF LatestOf
  <2> QED
    BY <2>1, <2>2, <2>3 DEF LatestOf
<1> QED
  BY <1>1, ChainInvariant, PTL

\* A request that succeeds, replayed or not, names a committed revision that is
\* what it asked for.
THEOREM AnswersAreRequested == Spec => []AnswerIsRequested
<1>1. ChainInv => AnswerIsRequested
  BY DEF ChainInv, Sessions, Answers, AnswerIsRequested
<1> QED
  BY <1>1, ChainInvariant, PTL

\* No edit is refused because the entry it must reverse is reversed already.
THEOREM NoEditStranded == Spec => []NeverStranded
<1>1. ChainInv => NeverStranded
  BY DEF ChainInv, Sessions, Own, NeverStranded, Stranding
<1> QED
  BY <1>1, ChainInvariant, PTL

-----------------------------------------------------------------------------
(* The register: each request is one step of TransactionRegister, its      *)
(* commit. What the entries of a transaction add up to follows from the    *)
(* revision that each commit reverses, the one it found latest (Balanced). *)

\* The statements before the commit show nothing.
LEMMA OnlyCommitsShow ==
  ASSUME ChainInv, NEW s \in Session,
         \/ \E r \in Request : BeginCreate(s, r) \/ BeginEdit(s, r)
         \/ Step(s) /\ ~Commit(s)
         \/ Crash(s)
  PROVE  Quiet(s)
<1>1. /\ pc \in [Session -> PC] /\ row \in [Session -> Revision \cup {None}]
      /\ request \in [Session -> Request \cup {None}] /\ answer \in [Session -> Session \cup Error \cup {None}]
      /\ base \in [Session -> Content \cup {None}] /\ reversal \in [Session -> Session \cup {None}]
      /\ applied \in [Session -> BOOLEAN] /\ bound \in [Session -> BOOLEAN]
  BY DEF ChainInv, TypeOK
<1>2. Own(s)
  BY DEF ChainInv, Sessions
<1>3. ASSUME NEW why, pc[s] \notin {"idle", "committed", "aborted"}, Rollback(s, why) PROVE Quiet(s)
  BY <1>1, <1>3 DEF Rollback, Goto, Quiet, Others, Committed
<1>4. ASSUME NEW t, AnswerFrom(s, t), pc[s] \in {"lookup", "lateIdentity"} PROVE Quiet(s)
  <2>1. row[s] = None
    BY <1>2, <1>4 DEF Own, Inserted
  <2>2. CASE \E why : Rollback(s, why)
    BY <1>3, <1>4, <2>2
  <2>3. CASE /\ answer' = [answer EXCEPT ![s] = t]
             /\ Goto(s, "committed")
             /\ UNCHANGED <<request, base, written>>
    BY <1>1, <2>1, <2>3 DEF Goto, Quiet, Others, Committed, written
  <2> QED
    BY <1>4, <2>2, <2>3 DEF AnswerFrom
<1>5. ASSUME NEW r \in Request, BeginCreate(s, r) PROVE Quiet(s)
  BY <1>1, <1>5 DEF BeginCreate, Goto, Quiet, Others, Committed, written
<1>6. ASSUME NEW r \in Request, BeginEdit(s, r) PROVE Quiet(s)
  BY <1>1, <1>6 DEF BeginEdit, Goto, Quiet, Others, Committed, written
<1>7. CASE ReadLatest(s)
  BY <1>1, <1>7 DEF ReadLatest, Goto, Quiet, Others, Committed, written
<1>8. CASE EarlyLookup(s)
  <2>1. CASE \E t : AnswerFrom(s, t)
    BY <1>4, <1>8, <2>1 DEF EarlyLookup
  <2>2. CASE ~\E t : AnswerFrom(s, t)
    BY <1>1, <1>8, <2>2 DEF EarlyLookup, Goto, Quiet, Others, Committed, written
  <2> QED
    BY <2>1, <2>2
<1>9. CASE InsertIdentity(s)
  BY <1>1, <1>9 DEF InsertIdentity, Goto, Quiet, Others, Committed
<1>10. CASE LateIdentity(s)
  BY <1>4, <1>10 DEF LateIdentity
<1>11. CASE LockParent(s)
  BY <1>1, <1>11 DEF LockParent, Goto, Quiet, Others, Committed, written
<1>12. CASE CheckLatest(s)
  BY <1>1, <1>3, <1>12 DEF CheckLatest, Goto, Quiet, Others, Committed, written
<1>13. CASE InsertRevision(s)
  BY <1>1, <1>3, <1>13 DEF InsertRevision, Goto, Quiet, Others, Committed
<1>14. CASE InsertSource(s)
  BY <1>1, <1>3, <1>14 DEF InsertSource, AfterSource, Goto, Quiet, Others, Committed
<1>15. CASE ReversePrevious(s)
  BY <1>1, <1>3, <1>15 DEF ReversePrevious, Goto, Quiet, Others, Committed
<1>16. CASE ApplyNew(s)
  BY <1>1, <1>3, <1>16 DEF ApplyNew, Goto, Quiet, Others, Committed
<1>17. CASE Bind(s)
  BY <1>1, <1>17 DEF Bind, Goto, Quiet, Others, Committed
<1>18. CASE Crash(s)
  BY <1>2, <1>3, <1>18 DEF Crash, Active, Finished, Own
<1> QED
  BY <1>5, <1>6, <1>7, <1>8, <1>9, <1>10, <1>11, <1>12, <1>13, <1>14, <1>15, <1>16, <1>17, <1>18 DEF Step

\* A transaction's entries, each with those that reverse it, add up to one entry
\* of the content of its latest revision, and to none once that is a void.
Standing(t, c) == IF \E s \in LatestOf(t) : row[s].op # "void" /\ row[s].content = c THEN 1 ELSE 0
Balanced ==
    /\ IsFiniteSet(Committed)
    /\ \A t \in Session : Chain(t) # {} => LatestOf(t) # {}
    /\ \A t \in Session, c \in Content : LedgerEffects[t][c] = Standing(t, c)
RegisterInv == ChainInv /\ Balanced

LEMMA CommittedReverses ==
  ASSUME ChainInv, NEW t \in Committed, reversal[t] # None
  PROVE  row[t].op # "create" /\ reversal[t] = row[t].prev /\ reversal[t] \in Chain(row[t].tx)
<1>1. Own(t) /\ Linked(t) /\ RowFits(t) /\ row[t] # None /\ pc[t] = "committed"
  BY DEF ChainInv, Sessions, Own, Committed
<1>2. row[t].op # "create" /\ reversal[t] = row[t].prev
  BY <1>1 DEF RowFits
<1>3. Edits(t) /\ row[t].tx = request[t].tx
  BY <1>1, <1>2 DEF Own, RowFits, Edits
<1> QED
  BY <1>1, <1>2, <1>3 DEF Linked

LEMMA InitRegister == Init => RegisterInv
<1> SUFFICES ASSUME Init PROVE Balanced
  BY InitChain DEF RegisterInv
<1>1. Committed = {} /\ \A t : Chain(t) = {} /\ LatestOf(t) = {}
  BY DEF Init, Committed, Chain, LatestOf
<1>2. \A t, c : Effects(t, c) = {} /\ Reversals(t, c) = {} /\ Standing(t, c) = 0
  BY <1>1 DEF Effects, Reversals, Standing
<1>3. \A t \in Session, c \in Content : LedgerEffects[t][c] = 0 - 0
  <2>1. Cardinality({}) = 0
    BY FS_EmptySet
  <2> QED
    BY <1>2, <2>1 DEF LedgerEffects, Count
<1> QED
  BY <1>1, <1>2, <1>3, FS_EmptySet DEF Balanced

LEMMA QuietShows ==
  ASSUME RegisterInv, NEW s \in Session, Quiet(s)
  PROVE  /\ UNCHANGED <<Committed, LatestRevisions, LedgerEffects>>
         /\ \A t \in Session, c \in Content : Standing(t, c)' = Standing(t, c)
<1>1. /\ \A t \in Committed : row'[t] = row[t] /\ t # s /\ t \in Session
      /\ \A t : Chain(t)' = Chain(t) /\ LatestOf(t)' = LatestOf(t)
      /\ \A t : Chain(t) \subseteq Committed /\ LatestOf(t) \subseteq Committed
  BY QuietChains DEF Chain, LatestOf
<1>2. \A t \in Committed : applied'[t] = applied[t] /\ reversal'[t] = reversal[t]
  BY <1>1 DEF Quiet, Others
<1>3. \A t \in Committed : reversal[t] # None => reversal[t] \in Committed
  BY CommittedReverses DEF Chain, RegisterInv
<1>4. \A t, c : Effects(t, c)' = Effects(t, c) /\ Reversals(t, c)' = Reversals(t, c)
  BY <1>1, <1>2, <1>3 DEF Effects, Reversals
<1>5. LedgerEffects' = LedgerEffects
  BY <1>4 DEF LedgerEffects
<1>6. \A t \in Session : Current(t)' = Current(t) /\ (Chain(t) # {} => Current(t) \in Committed)
  BY <1>1 DEF Current, RegisterInv, Balanced
<1>7. LatestRevisions' = LatestRevisions
  BY <1>1, <1>6 DEF LatestRevisions
<1> QED
  BY <1>1, <1>5, <1>7 DEF Quiet, Standing

LEMMA QuietRegister ==
  ASSUME RegisterInv, NEW s \in Session, Quiet(s)
  PROVE  Balanced'
  BY QuietShows, QuietChains DEF RegisterInv, Balanced

\* A commit puts its revision in the place of the latest, in the ledger too.
LEMMA CommitShows ==
  ASSUME RegisterInv, NEW s \in Session, Commit(s), NEW x \in Session, x = row[s].tx
  PROVE  /\ LatestOf(x)' = {s} /\ Current(x)' = s /\ Chain(x)' # {}
         /\ \A c \in Content : LedgerEffects'[x][c] =
                                IF row[s].op # "void" /\ row[s].content = c THEN 1 ELSE 0
         /\ \A t \in Session \ {x} : /\ LatestRevisions'[t] = LatestRevisions[t]
                                    /\ LedgerEffects'[t] = LedgerEffects[t]
<1>1. /\ Committed' = Committed \cup {s} /\ s \notin Committed
      /\ Chain(x)' = Chain(x) \cup {s}
      /\ \A y : y # x => Chain(y)' = Chain(y) /\ LatestOf(y)' = LatestOf(y)
      /\ row[s].op = "create" => Chain(x) = {}
      /\ \A t \in Chain(x) : /\ row[t].no < row[s].no /\ row[t].op # "void"
                             /\ t \in LatestOf(x) => t = row[s].prev
      /\ row[s].op # "create" => row[s].prev \in LatestOf(x)
  BY CommitChains DEF RegisterInv
<1>2. /\ pc[s] = "commit" /\ row[s] # None /\ RowFits(s) /\ row[s] \in Revision
      /\ row' = row /\ reversal' = reversal /\ applied' = applied
  BY DEF RegisterInv, ChainInv, Sessions, Own, Commit, Inserted, TypeOK, written
<1>3. /\ applied[s] <=> row[s].op # "void"
      /\ reversal[s] = IF row[s].op = "create" THEN None ELSE row[s].prev
  BY <1>2 DEF RowFits
<1>4. \A t \in Chain(x) : row[t].no \in Nat
  BY DEF Chain, Committed, RegisterInv, ChainInv, TypeOK, Revision
<1>5. row[s].no \in Nat
  BY <1>2 DEF Revision
<1>6. LatestOf(x)' = {s}
  BY <1>1, <1>2, <1>4, <1>5 DEF LatestOf
<1>7. Current(x)' = s
  BY <1>6 DEF Current
<1>8. \A t \in Session \ {x} : /\ LatestRevisions'[t] = LatestRevisions[t]
                             /\ LedgerEffects'[t] = LedgerEffects[t]
  <2>1. \A y, c : y # x => /\ Effects(y, c)' = Effects(y, c)
                           /\ Reversals(y, c)' = Reversals(y, c)
                           /\ Current(y)' = Current(y)
    BY <1>1, <1>2 DEF Effects, Reversals, Current
  <2> QED
    BY <1>1, <1>2, <2>1 DEF LatestRevisions, LedgerEffects
<1>9. ASSUME NEW c \in Content
      PROVE  LedgerEffects'[x][c] = IF row[s].op # "void" /\ row[s].content = c THEN 1 ELSE 0
  <2> DEFINE posts == row[s].op # "void" /\ row[s].content = c
             undoes == row[s].op # "create" /\ row[row[s].prev].content = c
  <2>1. Effects(x, c)' = IF posts THEN Effects(x, c) \cup {s} ELSE Effects(x, c)
    BY <1>1, <1>2, <1>3 DEF Effects
  <2>2. Reversals(x, c)' = IF undoes THEN Reversals(x, c) \cup {s} ELSE Reversals(x, c)
    <3>1. row[s].op # "create" => row[s].prev # None
      BY <1>1, NoValueAssumption DEF LatestOf, Chain, Committed
    <3> QED
      BY <1>1, <1>2, <1>3, <3>1 DEF Reversals
  <2>3. /\ IsFiniteSet(Effects(x, c)) /\ IsFiniteSet(Reversals(x, c))
        /\ s \notin Effects(x, c) /\ s \notin Reversals(x, c)
    <3>1. Effects(x, c) \subseteq Committed /\ Reversals(x, c) \subseteq Committed
      BY DEF Effects, Reversals, Chain
    <3> QED
      BY <1>1, <3>1, FS_Subset DEF RegisterInv, Balanced
  <2> DEFINE e == Cardinality(Effects(x, c))
             r == Cardinality(Reversals(x, c))
  <2>4. e \in Nat /\ r \in Nat
    BY <2>3, FS_CardinalityType
  <2>5. Cardinality(Effects(x, c)') = IF posts THEN e + 1 ELSE e
    BY <2>1, <2>3, FS_AddElement
  <2>6. Cardinality(Reversals(x, c)') = IF undoes THEN r + 1 ELSE r
    BY <2>2, <2>3, FS_AddElement
  <2>7. LedgerEffects[x][c] = e - r
    BY DEF LedgerEffects, Count
  <2>8. LedgerEffects'[x][c] = Cardinality(Effects(x, c)') - Cardinality(Reversals(x, c)')
    BY DEF LedgerEffects, Count
  <2>9. e - r = IF undoes THEN 1 ELSE 0
    <3>1. e - r = Standing(x, c)
      BY <2>7 DEF RegisterInv, Balanced
    <3>2. undoes <=> \E t \in LatestOf(x) : row[t].op # "void" /\ row[t].content = c
      BY <1>1 DEF LatestOf
    <3> QED
      BY <3>1, <3>2 DEF Standing
  <2> QED
    BY <2>4, <2>5, <2>6, <2>8, <2>9
<1> QED
  BY <1>1, <1>6, <1>7, <1>8, <1>9

LEMMA CommitRegister ==
  ASSUME RegisterInv, NEW s \in Session, Commit(s)
  PROVE  Balanced' /\ Register!RegisterNext
<1>1. row[s] \in Revision /\ row[s] # None /\ RowFits(s) /\ pc[s] = "commit" /\ row' = row
  BY DEF RegisterInv, ChainInv, Sessions, Own, Commit, Inserted, TypeOK, written
<1>2. PICK x \in Session : x = row[s].tx
  BY <1>1 DEF Revision
<1>3. /\ Committed' = Committed \cup {s}
      /\ \A y : y # x => Chain(y)' = Chain(y) /\ LatestOf(y)' = LatestOf(y)
      /\ row[s].op = "create" => Chain(x) = {}
      /\ \A t \in Chain(x) : row[t].op # "void" /\ (t \in LatestOf(x) => t = row[s].prev)
      /\ row[s].op # "create" => row[s].prev \in LatestOf(x)
  BY <1>2, CommitChains DEF RegisterInv
<1>4. /\ LatestOf(x)' = {s} /\ Current(x)' = s /\ Chain(x)' # {}
      /\ \A c \in Content : LedgerEffects'[x][c] =
                             IF row[s].op # "void" /\ row[s].content = c THEN 1 ELSE 0
      /\ \A t \in Session \ {x} : /\ LatestRevisions'[t] = LatestRevisions[t]
                                 /\ LedgerEffects'[t] = LedgerEffects[t]
  BY <1>2, CommitShows
<1>5. Balanced'
  <2>1. IsFiniteSet(Committed')
    BY <1>3, FS_AddElement DEF RegisterInv, Balanced
  <2>2. \A t \in Session : Chain(t)' # {} => LatestOf(t)' # {}
    BY <1>3, <1>4 DEF RegisterInv, Balanced
  <2>3. \A t \in Session, c \in Content : LedgerEffects'[t][c] = Standing(t, c)'
    BY <1>1, <1>3, <1>4 DEF RegisterInv, Balanced, Standing
  <2> QED
    BY <2>1, <2>2, <2>3 DEF Balanced
<1> DEFINE now == [no |-> row[s].no, content |-> row[s].content, void |-> row[s].op = "void"]
<1>6. LatestRevisions' = [LatestRevisions EXCEPT ![x] = now]
  <2>1. LatestRevisions'[x] = now
    BY <1>1, <1>4 DEF LatestRevisions
  <2> HIDE DEF now
  <2>2. /\ LatestRevisions = [t \in Session |-> LatestRevisions[t]]
        /\ LatestRevisions' = [t \in Session |-> LatestRevisions'[t]]
    BY DEF LatestRevisions
  <2> QED
    BY <1>4, <2>1, <2>2
<1>7. row[s].content \in Content /\ row[s].op \in {"create", "update", "void"}
  BY <1>1 DEF Revision
<1>8. LedgerEffects' = [LedgerEffects EXCEPT
        ![x] = IF row[s].op = "void" THEN Register!Nothing ELSE Register!Once(row[s].content)]
  <2> DEFINE new == IF row[s].op = "void" THEN Register!Nothing ELSE Register!Once(row[s].content)
  <2>1. \A t \in Session : LedgerEffects'[t] = [c \in Content |-> LedgerEffects'[t][c]]
    BY DEF LedgerEffects
  <2>2. new = [c \in Content |-> IF row[s].op # "void" /\ row[s].content = c THEN 1 ELSE 0]
    BY DEF Register!Nothing, Register!Once
  <2>3. LedgerEffects'[x] = new
    BY <1>4, <2>1, <2>2
  <2> HIDE DEF new
  <2>4. /\ LedgerEffects = [t \in Session |-> LedgerEffects[t]]
        /\ LedgerEffects' = [t \in Session |-> LedgerEffects'[t]]
    BY DEF LedgerEffects
  <2>5. LedgerEffects' = [LedgerEffects EXCEPT ![x] = new]
    BY <1>4, <2>3, <2>4
  <2> QED
    BY <2>5 DEF new
<1>9. CASE row[s].op = "create"
  <2>1. LatestRevisions[x] = None /\ row[s].no = 1
    BY <1>1, <1>3, <1>9 DEF LatestRevisions, RowFits
  <2>2. Register!Create(x, row[s].content)
    BY <1>6, <1>8, <1>9, <2>1 DEF Register!Create
  <2> QED
    BY <1>5, <1>7, <2>2 DEF Register!RegisterNext
<1>10. CASE row[s].op # "create"
  <2> DEFINE p == row[s].prev
  <2>1. /\ p \in LatestOf(x) /\ p \in Chain(x) /\ Current(x) = p
    BY <1>3, <1>10 DEF LatestOf, Current
  <2>2. LatestRevisions[x] = [no |-> row[p].no, content |-> row[p].content, void |-> FALSE]
    BY <1>3, <2>1 DEF LatestRevisions
  <2>3. LatestRevisions[x] # None
    <3>1. row[p] \in Revision
      BY <2>1 DEF Chain, Committed, RegisterInv, ChainInv, TypeOK
    <3>2. LatestRevisions[x] \in [no : Nat, content : Content, void : BOOLEAN]
      BY <2>2, <3>1 DEF Revision
    <3> QED
      BY <3>2, NoValueAssumption
  <2>4. row[s].no = row[p].no + 1 /\ (row[s].op = "void" => row[s].content = row[p].content)
    BY <1>1, <1>10 DEF RegisterInv, ChainInv, Sessions, Linked, Own, RowFits, Edits
  <2>5. CASE row[s].op = "update"
    <3>1. now = [no |-> LatestRevisions[x].no + 1, content |-> row[s].content, void |-> FALSE]
      <4>1. (row[s].op = "void") = FALSE
        BY <2>5
      <4>2. row[s].no = LatestRevisions[x].no + 1
        BY <2>2, <2>4
      <4> QED
        BY <4>1, <4>2
    <3>2. LedgerEffects' = [LedgerEffects EXCEPT ![x] = Register!Once(row[s].content)]
      BY <1>8, <2>5
    <3>3. Register!Revise(x, row[s].content)
      <4>1. LatestRevisions[x] # None /\ ~LatestRevisions[x].void
        BY <2>2, <2>3
      <4> HIDE DEF now
      <4> QED
        BY <1>6, <3>1, <3>2, <4>1 DEF Register!Revise
    <3> QED
      BY <1>5, <1>7, <3>3 DEF Register!RegisterNext
  <2>6. CASE row[s].op = "void"
    <3>1. now = [no |-> LatestRevisions[x].no + 1, content |-> LatestRevisions[x].content, void |-> TRUE]
      <4>1. (row[s].op = "void") = TRUE
        BY <2>6
      <4>2. row[s].no = LatestRevisions[x].no + 1 /\ row[s].content = LatestRevisions[x].content
        BY <2>2, <2>4, <2>6
      <4> QED
        BY <4>1, <4>2
    <3>2. LedgerEffects' = [LedgerEffects EXCEPT ![x] = Register!Nothing]
      BY <1>8, <2>6
    <3>3. Register!Void(x)
      <4>1. LatestRevisions[x] # None /\ ~LatestRevisions[x].void
        BY <2>2, <2>3
      <4> HIDE DEF now
      <4> QED
        BY <1>6, <3>1, <3>2, <4>1 DEF Register!Void
    <3> QED
      BY <1>5, <3>3 DEF Register!RegisterNext
  <2> QED
    BY <1>7, <1>10, <2>5, <2>6
<1> QED
  BY <1>9, <1>10

\* Every step of the program is a step of the register or none.
LEMMA RegisterStep ==
  ASSUME RegisterInv, [Next]_vars
  PROVE  RegisterInv' /\ [Register!RegisterNext]_(Register!registerVars)
<1>1. ChainInv'
  BY NextChain DEF RegisterInv
<1>2. ASSUME NEW s \in Session, Quiet(s)
      PROVE  Balanced' /\ UNCHANGED Register!registerVars
  BY <1>2, QuietShows, QuietRegister DEF Register!registerVars
<1>3. CASE \E s \in Session : Commit(s)
  BY <1>1, <1>3, CommitRegister DEF RegisterInv
<1>4. CASE Next /\ ~\E s \in Session : Commit(s)
  <2>1. PICK s \in Session : Quiet(s)
    BY <1>4, OnlyCommitsShow DEF Next, RegisterInv
  <2> QED
    BY <1>1, <1>2, <2>1 DEF RegisterInv
<1>5. CASE UNCHANGED vars
  <2>1. \A t : Chain(t)' = Chain(t) /\ LatestOf(t)' = LatestOf(t)
    BY <1>5 DEF vars, written, Chain, Committed, LatestOf
  <2>2. \A t, c : Effects(t, c)' = Effects(t, c) /\ Reversals(t, c)' = Reversals(t, c)
    BY <1>5, <2>1 DEF vars, written, Effects, Reversals
  <2>3. Committed' = Committed /\ row' = row /\ \A t : Current(t)' = Current(t)
    BY <1>5, <2>1 DEF vars, written, Committed, Current
  <2>4. LedgerEffects' = LedgerEffects /\ LatestRevisions' = LatestRevisions
    BY <2>1, <2>2, <2>3 DEF LedgerEffects, LatestRevisions
  <2>5. \A t \in Session, c \in Content : Standing(t, c)' = Standing(t, c)
    BY <2>1, <2>3 DEF Standing
  <2>6. Balanced'
    BY <2>1, <2>3, <2>4, <2>5 DEF RegisterInv, Balanced
  <2> QED
    BY <1>1, <2>4, <2>6 DEF RegisterInv, Register!registerVars
<1> QED
  BY <1>3, <1>4, <1>5

\* Seen from outside, the statements of any number of creates, updates and
\* voids, with their retries, rollbacks and crashes, are the atomic operations
\* of the register: each request that takes effect is one step of it, its
\* commit, and the ledger carries the effect of what the register holds.
THEOREM RequestsAreAtomic == Spec => ImplementsRegister
<1>1. Init => Register!RegisterInit
  <2> SUFFICES ASSUME Init PROVE Register!RegisterInit
    OBVIOUS
  <2>1. \A t : Chain(t) = {}
    BY DEF Init, Chain, Committed
  <2>2. \A t, c : Effects(t, c) = {} /\ Reversals(t, c) = {}
    BY <2>1 DEF Effects, Reversals
  <2>3. LatestRevisions = [t \in Session |-> None]
    BY <2>1 DEF LatestRevisions
  <2>4. \A t, c : Count(Effects(t, c)) - Count(Reversals(t, c)) = 0
    <3>1. Cardinality({}) = 0
      BY FS_EmptySet
    <3>2. \A t, c : Count(Effects(t, c)) = 0 /\ Count(Reversals(t, c)) = 0
      BY <2>2, <3>1 DEF Count
    <3> QED
      BY <3>2
  <2>5. LedgerEffects = [t \in Session |-> Register!Nothing]
    BY <2>4 DEF LedgerEffects, Register!Nothing
  <2> QED
    BY <2>3, <2>5 DEF Register!RegisterInit
<1>2. RegisterInv /\ [Next]_vars => RegisterInv' /\ [Register!RegisterNext]_(Register!registerVars)
  BY RegisterStep
<1> QED
  BY <1>1, <1>2, InitRegister, PTL DEF Spec, ImplementsRegister, Register!RegisterSpec

-----------------------------------------------------------------------------
(***************************************************************************)
(* Proofs about StatementImports, for any statements, reviews and edits.   *)
(* The money of a row follows its status, and a row may take its id's      *)
(* claim under its card or account only while nobody has it; ImportInv     *)
(* adds who has one and that its mapping stays as it was claimed, and that *)
(* a row of a batch that is not staged yet is nowhere.                     *)
(***************************************************************************)

-----------------------------------------------------------------------------
(* The invariant.                                                          *)

Owning == {"APPLIED", "LINKED_EXISTING"}

\* The rows that own their id are those that recorded or linked its money,
\* under the card or account they are mapped to.
ClaimsHeld ==
    /\ \A c \in claims : /\ Identity[c.row] # Nobody /\ status[c.row] \in Owning
                        /\ c.scope = mapping[c.row].scope
    /\ \A r \in RowSet : Identity[r] # Nobody /\ status[r] \in Owning => \E c \in claims : c.row = r
ClaimsUnique == \A c, d \in claims : Identity[c.row] = Identity[d.row] /\ c.scope = d.scope => c.row = d.row
ClaimsResolved == \A c \in claims : result[c.row] # Nobody
\* A row that may be applied or linked is mapped, and one whose record exists
\* will not be mapped again.
ReadyMapped == \A r \in RowSet : status[r] \in {"READY", "POSSIBLE_DUPLICATE"} => mapping[r].scope # Nobody
RecordsApplied ==
    /\ \A r \in RowSet : r \in intact => status[r] = "APPLIED"
    /\ \A r \in RowSet : result[r] \in RowSet => status[result[r]] = "APPLIED"
StagedTogether == \A r \in RowSet : staging[BatchOf[r]] # "staged" => status[r] = "none"

ImportInv ==
    /\ ImportTypeOK
    /\ ClaimsHeld
    /\ ClaimsUnique
    /\ ClaimsResolved
    /\ ReadyMapped
    /\ RecordsApplied
    /\ StagedTogether
    /\ MoneyMatchesStatus
    /\ DuplicatesFollowOwner
    /\ ResultsInScope

-----------------------------------------------------------------------------
(* The rows.                                                               *)

RowTypes ==
    /\ status \in [RowSet -> Statuses] /\ revision \in [RowSet -> Nat]
    /\ mapping \in [Item -> Mapping]
    /\ result \in [RowSet -> Item \cup {Nobody}]
    /\ claims \subseteq [row : RowSet, scope : Scope]
    /\ money \in [RowSet -> Nat] /\ intact \subseteq Item
RequestTypes ==
    /\ \A c \in Reviewer : /\ requested[c].ask \in Reviews[c] \cup {[op |-> "none"]}
                           /\ requested[c].answer \in {"none", "stored", "replayed", "refused"}
    /\ staging \in [Batch -> {"none", "staged", "failed"}]
    /\ DOMAIN listed \subseteq DOMAIN Row /\ \A i \in DOMAIN listed : listed[i] \in Nat
    /\ progress \in [phase : {"idle", "applying", "done", "stopped"}, applied : Nat, failed : Nat]

\* What the rows keep among themselves.
RowsInv ==
    /\ RowTypes /\ ClaimsHeld /\ ClaimsUnique /\ ClaimsResolved /\ ReadyMapped /\ RecordsApplied
    /\ MoneyMatchesStatus /\ DuplicatesFollowOwner /\ ResultsInScope

LEMMA InvParts == ImportInv <=> RowsInv /\ RequestTypes /\ StagedTogether
BY DEF ImportInv, ImportTypeOK, RowsInv, RowTypes, RequestTypes

LEMMA RowsRest == RowsInv /\ Rejected => RowsInv'
BY DEF RowsInv, Rejected, RowTypes, ClaimsHeld, ClaimsUnique, ClaimsResolved, ReadyMapped, RecordsApplied,
       MoneyMatchesStatus, DuplicatesFollowOwner, ResultsInScope, Owners

LEMMA OwnersAre ==
    ASSUME NEW r, NEW x
    PROVE  \A s : s \in Owners(r, x) <=>
               /\ Identity[s] = Identity[r] /\ Identity[r] # Nobody
               /\ \E c \in claims : c.row = s /\ c.scope = x
BY DEF Owners

\* What an owner stands for exists, apart from the rows still under review.
LEMMA OwnerIs ==
    ASSUME RowsInv, NEW r, NEW x, Owners(r, x) # {}
    PROVE  \E s \in RowSet : /\ s \in Owners(r, x) /\ status[s] \in Owning
                            /\ OwnerResult(r, x) = result[s] /\ result[s] # Nobody
<1>1. PICK s \in Owners(r, x) : OwnerResult(r, x) = result[s]
  BY DEF OwnerResult
<1>2. PICK c \in claims : c.row = s
  BY <1>1, OwnersAre
<1>3. s \in RowSet
  BY <1>2 DEF RowsInv, RowTypes
<1> QED
  BY <1>1, <1>2, <1>3 DEF RowsInv, ClaimsHeld, ClaimsResolved

\* A transaction on one row: the id goes to a row that nobody else has claimed
\* it from there, or the row takes over what its owner stands for.
LEMMA TransactKeeps ==
    ASSUME RowsInv, NEW q, q.row \in RowSet, q.op \in {"map", "confirm", "link", "apply", "skip"},
           q.op = "map" => q.to \in Mapping, Succeeds(q), Transact(q)
    PROVE  RowsInv' /\ \A s \in RowSet : s # q.row => status'[s] = status[s]
<1> DEFINE r == q.row
           m == After(q)
           new == Becomes(q)
           own == [row |-> r, scope |-> mapping[r].scope]
<1>1. /\ r \in RowSet /\ r \in Item /\ status[r] \notin Terminal /\ Permitted(q)
      /\ Claimed(q) => Binds(r, m)
  BY DEF Succeeds, UpToDate, Item
<1>2. /\ status \in [RowSet -> Statuses] /\ revision \in [RowSet -> Nat]
      /\ mapping \in [Item -> Mapping]
      /\ result \in [RowSet -> Item \cup {Nobody}] /\ claims \subseteq [row : RowSet, scope : Scope]
      /\ money \in [RowSet -> Nat] /\ intact \subseteq Item
  BY DEF RowsInv, RowTypes
<1>3. m \in Mapping /\ (q.op # "map" => m = mapping[r])
  BY <1>1, <1>2 DEF After
<1>4. /\ status' = [status EXCEPT ![r] = new]
      /\ revision' = [revision EXCEPT ![r] = revision[r] + 1]
      /\ mapping' = [mapping EXCEPT ![r] = m]
      /\ result' = [result EXCEPT ![r] = StandsFor(q)]
      /\ claims' = IF new \in Owning /\ Identity[r] # Nobody THEN claims \cup {own} ELSE claims
      /\ new = "APPLIED" => money' = [money EXCEPT ![r] = money[r] + 1] /\ intact' = intact \cup {r}
      /\ new # "APPLIED" => money' = money /\ intact' = intact
  <2> HIDE DEF new, m
  <2>1. /\ status' = [status EXCEPT ![r] = new]
        /\ revision' = [revision EXCEPT ![r] = revision[r] + 1]
        /\ mapping' = [mapping EXCEPT ![r] = m]
        /\ result' = [result EXCEPT ![r] = StandsFor(q)]
    BY DEF Transact, new, m
  <2>2. claims' = IF new \in Owning /\ Identity[r] # Nobody THEN claims \cup {own} ELSE claims
    BY DEF Transact, Owning, new
  <2>3. CASE new = "APPLIED"
    <3>1. Records(r)
      BY <2>3 DEF Transact, new
    <3> QED
      BY <2>1, <2>2, <2>3, <3>1 DEF Records
  <2>4. CASE new # "APPLIED"
    <3>1. UNCHANGED <<money, intact>>
      BY <2>4 DEF Transact, new
    <3> QED
      BY <2>1, <2>2, <2>4, <3>1
  <2> QED
    BY <2>3, <2>4
<1>5. /\ \A c \in claims : c.row \in RowSet /\ c.row # r /\ c.scope \in Scope
      /\ money[r] = 0 /\ r \notin intact
      /\ \A s \in RowSet : result[s] # r
  <2>1. \A c \in claims : c.row \in RowSet /\ c.row # r /\ c.scope \in Scope
    BY <1>1, <1>2 DEF RowsInv, ClaimsHeld, Owning, Terminal
  <2> QED
    BY <1>1, <2>1 DEF RowsInv, MoneyMatchesStatus, RecordsApplied, Terminal
<1>6. new \in {"EXACT_DUPLICATE", "APPLIED", "LINKED_EXISTING", "SKIPPED", "READY", "NEEDS_REVIEW"}
  BY DEF Becomes
<1>7. new \in {"READY", "POSSIBLE_DUPLICATE"} => m.scope # Nobody
  BY DEF Becomes, FullyMapped
<1>8. new = "EXACT_DUPLICATE" => Claimed(q)
  BY DEF Becomes
<1>9. new \in Owning => ~Claimed(q) /\ q.op \in {"apply", "link"}
  BY DEF Becomes, Owning
<1>10. Claimed(q) => \E s \in RowSet : /\ s \in Owners(r, m.scope) /\ status[s] \in Owning
                                       /\ StandsFor(q) = result[s] /\ result[s] # Nobody
                                       /\ mapping[StandsFor(q)].scope = m.scope
  <2> SUFFICES ASSUME Claimed(q) PROVE
        \E s \in RowSet : /\ s \in Owners(r, m.scope) /\ status[s] \in Owning
                         /\ StandsFor(q) = result[s] /\ result[s] # Nobody
                         /\ mapping[StandsFor(q)].scope = m.scope
    OBVIOUS
  <2>1. Owners(r, m.scope) # {} /\ StandsFor(q) = OwnerResult(r, m.scope)
    BY DEF Claimed, Owned, StandsFor
  <2>2. mapping[OwnerResult(r, m.scope)].scope = m.scope
    BY <1>1 DEF Binds, Fits
  <2> HIDE DEF r, m, new, own
  <2> QED
    BY <2>1, <2>2, OwnerIs
<1>11. new \in Owning => /\ Owners(r, m.scope) = {} /\ m = mapping[r] /\ m.scope \in Scope
                         /\ StandsFor(q) \in Item
                         /\ new = "APPLIED" => StandsFor(q) = r
                         /\ new # "APPLIED" => StandsFor(q) \in intact /\ mapping[StandsFor(q)].scope = m.scope
  <2> SUFFICES ASSUME new \in Owning PROVE
                         /\ Owners(r, m.scope) = {} /\ m = mapping[r] /\ m.scope \in Scope
                         /\ StandsFor(q) \in Item
                         /\ new = "APPLIED" => StandsFor(q) = r
                         /\ new # "APPLIED" => StandsFor(q) \in intact /\ mapping[StandsFor(q)].scope = m.scope
    OBVIOUS
  <2>1. ~Claimed(q) /\ q.op \in {"apply", "link"}
    BY <1>9
  <2>2. Owners(r, m.scope) = {}
    BY <2>1 DEF Claimed, Owned
  <2>3. m = mapping[r] /\ m.scope \in Scope
    <3>1. status[r] \in {"READY", "POSSIBLE_DUPLICATE"}
      BY <1>1, <2>1 DEF Permitted
    <3>2. mapping[r].scope # Nobody
      BY <1>1, <3>1 DEF RowsInv, ReadyMapped
    <3> QED
      BY <1>3, <2>1, <3>2 DEF Mapping
  <2>4. CASE q.op = "apply"
    <3>1. StandsFor(q) = r
      BY <2>1, <2>4 DEF StandsFor, Named
    <3>2. new = "APPLIED"
      BY <2>1, <2>4 DEF Becomes
    <3> QED
      BY <1>1, <2>2, <2>3, <3>1, <3>2
  <2>5. CASE q.op = "link"
    <3>1. q.target \in intact /\ mapping[q.target].scope = m.scope
      BY <1>1, <2>5 DEF Permitted, Fits
    <3>2. StandsFor(q) = q.target
      BY <2>1, <2>5 DEF StandsFor, Named
    <3>3. new # "APPLIED"
      BY <2>1, <2>5 DEF Becomes
    <3> QED
      BY <1>2, <2>2, <2>3, <3>1, <3>2, <3>3
  <2> QED
    BY <2>1, <2>4, <2>5
<1>12. ~Claimed(q) /\ new \notin Owning => StandsFor(q) = Nobody
  BY DEF Becomes, StandsFor, Named, Owning
<1> HIDE DEF r, m, new
<1>13. /\ \A s \in RowSet : s # r => /\ status'[s] = status[s] /\ result'[s] = result[s]
                                     /\ money'[s] = money[s]
       /\ \A i \in Item : i # r => mapping'[i] = mapping[i]
       /\ status'[r] = new /\ result'[r] = StandsFor(q) /\ mapping'[r] = m
       /\ money'[r] = IF new = "APPLIED" THEN 1 ELSE 0
  BY <1>1, <1>2, <1>4, <1>5
<1>14. StandsFor(q) \in Item \cup {Nobody}
  BY <1>2, <1>10, <1>11, <1>12
<1>15. new \in Owning => own \in [row : RowSet, scope : Scope] /\ own.scope = m.scope
  BY <1>1, <1>11
<1>16. RowTypes'
  <2>1. new \in Statuses
    BY <1>6 DEF Statuses, Terminal
  <2> QED
    BY <1>1, <1>2, <1>3, <1>4, <1>14, <1>15, <2>1 DEF RowTypes
<1>17. \A c \in claims : status'[c.row] = status[c.row] /\ mapping'[c.row] = mapping[c.row] /\ result'[c.row] = result[c.row]
  BY <1>5, <1>13 DEF Item
<1>18. ClaimsHeld'
  <2>1. \A c \in claims' : /\ Identity[c.row] # Nobody /\ status'[c.row] \in Owning
                           /\ c.scope = mapping'[c.row].scope
    BY <1>4, <1>11, <1>13, <1>17 DEF RowsInv, ClaimsHeld
  <2>2. ASSUME NEW s \in RowSet, Identity[s] # Nobody, status'[s] \in Owning
        PROVE  \E c \in claims' : c.row = s
    <3>1. CASE s = r
      <4>1. own \in claims' /\ own.row = s
        BY <1>4, <1>13, <2>2, <3>1
      <4> QED
        BY <4>1
    <3>2. CASE s # r
      <4>1. PICK c \in claims : c.row = s
        BY <1>13, <2>2, <3>2 DEF RowsInv, ClaimsHeld
      <4> QED
        BY <1>4, <4>1
    <3> QED
      BY <3>1, <3>2
  <2> QED
    BY <2>1, <2>2 DEF ClaimsHeld
<1>19. ClaimsUnique'
  <2>1. new \in Owning /\ Identity[r] # Nobody =>
            \A c \in claims : ~(Identity[c.row] = Identity[r] /\ c.scope = own.scope)
    BY <1>11, <1>15, OwnersAre
  <2> QED
    BY <1>4, <2>1 DEF RowsInv, ClaimsUnique
<1>20. ClaimsResolved'
  <2>1. new \in Owning => StandsFor(q) # Nobody
    BY <1>11, ImportAssumption
  <2> QED
    BY <1>4, <1>13, <1>17, <2>1 DEF RowsInv, ClaimsResolved
<1>21. ReadyMapped'
  BY <1>7, <1>13 DEF RowsInv, ReadyMapped, Item
<1>22. \A p \in RowSet : status[p] = "APPLIED" => status'[p] = "APPLIED" /\ p # r
  BY <1>1, <1>13 DEF Terminal
<1>23. RecordsApplied'
  <2>1. \A s \in RowSet : s \in intact' => status'[s] = "APPLIED"
    BY <1>4, <1>13, <1>22 DEF RowsInv, RecordsApplied
  <2>2. StandsFor(q) \in RowSet => status'[StandsFor(q)] = "APPLIED"
    <3>1. CASE new \in Owning
      BY <1>11, <1>13, <1>22, <3>1 DEF RowsInv, RecordsApplied
    <3>2. CASE Claimed(q)
      BY <1>10, <1>22, <3>2 DEF RowsInv, RecordsApplied
    <3>3. CASE ~Claimed(q) /\ new \notin Owning
      <4>1. Nobody \notin RowSet
        BY ImportAssumption DEF Item
      <4> QED
        BY <1>12, <3>3, <4>1
    <3> QED
      BY <3>1, <3>2, <3>3
  <2>3. \A s \in RowSet : result'[s] \in RowSet => status'[result'[s]] = "APPLIED"
    BY <1>13, <1>22, <2>2 DEF RowsInv, RecordsApplied
  <2> QED
    BY <2>1, <2>3 DEF RecordsApplied
<1>24. MoneyMatchesStatus'
  BY <1>13 DEF RowsInv, MoneyMatchesStatus
<1>25. ResultsInScope'
  <2>1. SUFFICES ASSUME NEW s \in RowSet, result'[s] # Nobody
                 PROVE  mapping'[result'[s]].scope = mapping'[s].scope
    BY DEF ResultsInScope
  <2>2. CASE s = r
    <3>1. CASE new = "APPLIED"
      BY <1>11, <1>13, <2>2, <3>1 DEF Owning
    <3>2. CASE new # "APPLIED"
      <4>1. StandsFor(q) \in Item /\ StandsFor(q) # r /\ mapping[StandsFor(q)].scope = m.scope
        <5>1. CASE Claimed(q)
          BY <1>2, <1>5, <1>10, <5>1
        <5>2. CASE new \in Owning
          BY <1>5, <1>11, <3>2, <5>2
        <5> QED
          BY <1>12, <1>13, <2>1, <2>2, <5>1, <5>2
      <4> QED
        BY <1>13, <2>2, <4>1
    <3> QED
      BY <3>1, <3>2
  <2>3. CASE s # r
    BY <1>2, <1>5, <1>13, <2>1, <2>3 DEF RowsInv, ResultsInScope, Item
  <2> QED
    BY <2>2, <2>3
<1>26. DuplicatesFollowOwner'
  <2>1. SUFFICES ASSUME NEW d \in RowSet, status'[d] = "EXACT_DUPLICATE"
                 PROVE  \E c \in claims' :
                            /\ Identity[c.row] = Identity[d] /\ Identity[d] # Nobody
                            /\ c.scope = mapping'[d].scope
                            /\ status'[c.row] \in Owning /\ result'[d] = result'[c.row] /\ result'[c.row] # Nobody
    BY DEF DuplicatesFollowOwner, Owners, Owning
  <2>2. PICK c \in claims : /\ Identity[c.row] = Identity[d] /\ Identity[d] # Nobody
                            /\ c.scope = mapping'[d].scope
                            /\ result'[d] = result[c.row] /\ result[c.row] # Nobody
    <3>1. CASE d = r
      <4>1. Claimed(q)
        BY <1>8, <1>13, <2>1, <3>1
      <4>2. PICK s \in Owners(r, m.scope) : StandsFor(q) = result[s] /\ result[s] # Nobody
        BY <1>10, <4>1
      <4> QED
        BY <1>13, <3>1, <4>2, OwnersAre
    <3>2. CASE d # r
      <4>1. PICK s \in Owners(d, mapping[d].scope) : result[d] = result[s] /\ result[s] # Nobody
        BY <1>13, <2>1, <3>2 DEF RowsInv, DuplicatesFollowOwner
      <4>2. mapping'[d] = mapping[d] /\ result'[d] = result[d]
        BY <1>13, <3>2 DEF Item
      <4> QED
        BY <4>1, <4>2, OwnersAre
    <3> QED
      BY <3>1, <3>2
  <2>3. c \in claims' /\ status'[c.row] \in Owning /\ result'[c.row] = result[c.row]
    BY <1>4, <1>17 DEF RowsInv, ClaimsHeld
  <2> QED
    BY <2>2, <2>3
<1> QED
  BY <1>13, <1>16, <1>18, <1>19, <1>20, <1>21, <1>23, <1>24, <1>25, <1>26 DEF RowsInv, r

-----------------------------------------------------------------------------
(* The actions.                                                            *)

LEMMA InitImport == ImportInit => ImportInv
<1>1. Nobody \notin RowSet /\ Origin \in [Item -> Mapping] /\ Manual \cap RowSet = {}
  BY ImportAssumption DEF Item
<1> QED
  BY <1>1 DEF ImportInit, ImportInv, ImportTypeOK, ClaimsHeld, ClaimsUnique, ClaimsResolved, ReadyMapped,
              RecordsApplied, StagedTogether, MoneyMatchesStatus, DuplicatesFollowOwner, ResultsInScope,
              Owning, Statuses, Item

\* A row that is staged has no money yet, and a duplicate among the rows
\* follows an owner of before.
LEMMA StageBatchKeeps ==
    ASSUME ImportInv, NEW b \in Batch, StageBatch(b)
    PROVE  ImportInv'
<1> DEFINE rows == {r \in RowSet : BatchOf[r] = b}
           duplicates == {r \in rows : StagedStatus(r) = "EXACT_DUPLICATE"}
<1>1. RowsInv /\ RequestTypes /\ StagedTogether
  BY InvParts
<1>2. UNCHANGED <<mapping, claims, money, intact, requested, listed, progress>> /\ staging[b] # "staged"
  BY DEF StageBatch
<1>3. CASE staging' = [staging EXCEPT ![b] = "failed"] /\ UNCHANGED <<status, revision, result>>
  <2>1. RowsInv'
    BY <1>1, <1>2, <1>3, RowsRest DEF Rejected
  <2>2. RequestTypes' /\ StagedTogether'
    BY <1>1, <1>2, <1>3 DEF RequestTypes, StagedTogether, Batch, RowSet
  <2> QED
    BY <2>1, <2>2, InvParts DEF ImportInv, ImportTypeOK, RowsInv, RowTypes, RequestTypes
<1>4. CASE /\ \A r \in duplicates : Binds(r, mapping[r])
           /\ staging' = [staging EXCEPT ![b] = "staged"]
           /\ status' = [r \in RowSet |-> IF r \in rows THEN StagedStatus(r) ELSE status[r]]
           /\ revision' = [r \in RowSet |-> IF r \in rows THEN 1 ELSE revision[r]]
           /\ result' = [r \in RowSet |-> IF r \in duplicates THEN OwnerResult(r, mapping[r].scope) ELSE result[r]]
  <2>1. \A r \in RowSet : /\ StagedStatus(r) \in {"NEEDS_REVIEW", "EXACT_DUPLICATE", "POSSIBLE_DUPLICATE", "READY"}
                          /\ StagedStatus(r) = "EXACT_DUPLICATE" => Owners(r, mapping[r].scope) # {}
                          /\ StagedStatus(r) \in {"READY", "POSSIBLE_DUPLICATE"} => mapping[r].scope # Nobody
    BY DEF StagedStatus, FullyMapped
  <2>2. \A r \in duplicates : \E s \in RowSet : /\ s \in Owners(r, mapping[r].scope) /\ status[s] \in Owning
                                                /\ result'[r] = result[s] /\ result[s] # Nobody
    BY <1>1, <1>4, <2>1, OwnerIs
  <2>3. \A r \in duplicates : mapping[result'[r]].scope = mapping[r].scope
    BY <1>4 DEF Binds, Fits
  <2>4. \A r \in rows : status[r] = "none"
    BY <1>1, <1>2 DEF StagedTogether
  <2>5. \A c \in claims : c.row \in RowSet /\ c.row \notin rows
    BY <1>1, <2>4 DEF RowsInv, RowTypes, ClaimsHeld, Owning
  <2>6. \A r \in RowSet : /\ r \notin rows => status'[r] = status[r]
                          /\ r \notin duplicates => result'[r] = result[r]
                          /\ r \in rows => status'[r] = StagedStatus(r)
    BY <1>4
  <2>7. \A r \in RowSet : status[r] = "APPLIED" => status'[r] = "APPLIED"
    BY <2>4, <2>6
  <2>8. RowTypes'
    <3>1. \A r \in RowSet : status'[r] \in Statuses /\ revision'[r] \in Nat
      BY <1>1, <1>4, <2>1 DEF RowsInv, RowTypes, Statuses, Terminal
    <3>2. \A r \in RowSet : result'[r] \in Item \cup {Nobody}
      BY <1>1, <2>2, <2>6 DEF RowsInv, RowTypes
    <3> QED
      BY <1>1, <1>2, <1>4, <3>1, <3>2 DEF RowsInv, RowTypes
  <2>9. duplicates \subseteq rows /\ rows \subseteq RowSet
    OBVIOUS
  <2> HIDE DEF rows, duplicates
  <2>10. ClaimsHeld'
    BY <1>1, <1>2, <2>1, <2>5, <2>6, <2>9 DEF RowsInv, ClaimsHeld, Owning
  <2>11. ClaimsUnique' /\ ClaimsResolved'
    BY <1>1, <1>2, <2>5, <2>6, <2>9 DEF RowsInv, ClaimsUnique, ClaimsResolved
  <2>12. ReadyMapped'
    BY <1>1, <1>2, <2>1, <2>6 DEF RowsInv, ReadyMapped
  <2>13. RecordsApplied'
    <3>1. \A r \in RowSet : result'[r] \in RowSet => status[result'[r]] = "APPLIED"
      BY <1>1, <2>2, <2>6 DEF RowsInv, RecordsApplied
    <3> QED
      BY <1>1, <1>2, <2>7, <3>1 DEF RowsInv, RecordsApplied
  <2>14. MoneyMatchesStatus'
    BY <1>1, <1>2, <2>1, <2>4, <2>6 DEF RowsInv, MoneyMatchesStatus
  <2>15. ResultsInScope'
    BY <1>1, <1>2, <2>3, <2>6 DEF RowsInv, ResultsInScope
  <2>16. DuplicatesFollowOwner'
    <3>1. SUFFICES ASSUME NEW d \in RowSet, status'[d] = "EXACT_DUPLICATE"
                   PROVE  \E s \in Owners(d, mapping[d].scope) :
                              /\ status'[s] \in Owning
                              /\ result'[d] = result'[s] /\ result'[s] # Nobody
      BY <1>2 DEF DuplicatesFollowOwner, Owners, Owning
    <3>2. PICK s \in Owners(d, mapping[d].scope) : result'[d] = result[s] /\ result[s] # Nobody
      <4>1. CASE d \in duplicates
        BY <2>2, <4>1
      <4>2. CASE d \notin duplicates
        <5>1. d \notin rows
          BY <2>6, <3>1, <4>2 DEF duplicates
        <5> QED
          BY <1>1, <2>6, <3>1, <4>2, <5>1 DEF RowsInv, DuplicatesFollowOwner
      <4> QED
        BY <4>1, <4>2
    <3>3. PICK c \in claims : c.row = s
      BY <3>2, OwnersAre
    <3>4. s \in RowSet /\ s \notin rows /\ status[s] \in Owning
      BY <1>1, <2>5, <3>3 DEF RowsInv, ClaimsHeld
    <3> QED
      BY <2>6, <2>9, <3>2, <3>4
  <2>17. RequestTypes'
    BY <1>1, <1>2, <1>4 DEF RequestTypes
  <2>18. StagedTogether'
    BY <1>1, <1>4 DEF StagedTogether, RequestTypes, Batch, rows
  <2> QED
    BY <2>8, <2>10, <2>11, <2>12, <2>13, <2>14, <2>15, <2>16, <2>17, <2>18, InvParts
       DEF ImportInv, ImportTypeOK, RowsInv, RowTypes, RequestTypes
<1> QED
  BY <1>3, <1>4 DEF StageBatch

\* A row that may change is of a staged batch.
LEMMA ChangeKeeps ==
    ASSUME ImportInv, NEW q, q.row \in RowSet, status[q.row] # "none",
           q.op \in {"map", "confirm", "link", "apply", "skip"}, q.op = "map" => q.to \in Mapping,
           (Succeeds(q) /\ Transact(q)) \/ Rejected, UNCHANGED staging, RequestTypes'
    PROVE  ImportInv'
<1>1. RowsInv /\ StagedTogether
  BY InvParts
<1>2. CASE Succeeds(q) /\ Transact(q)
  <2>1. RowsInv' /\ \A s \in RowSet : s # q.row => status'[s] = status[s]
    BY <1>1, <1>2, TransactKeeps
  <2>2. StagedTogether'
    BY <1>1, <2>1 DEF StagedTogether
  <2> QED
    BY <2>1, <2>2 DEF ImportInv, ImportTypeOK, RowsInv, RowTypes, RequestTypes
<1>3. CASE Rejected
  <2>1. RowsInv' /\ StagedTogether'
    BY <1>1, <1>3, RowsRest DEF StagedTogether, Rejected
  <2> QED
    BY <2>1 DEF ImportInv, ImportTypeOK, RowsInv, RowTypes, RequestTypes
<1> QED
  BY <1>2, <1>3

LEMMA ResolveKeeps ==
    ASSUME ImportInv, NEW c \in Reviewer, NEW q \in Reviews[c], Resolve(c, q)
    PROVE  ImportInv'
<1>1. q.row \in RowSet /\ q.op \in {"map", "confirm", "link", "apply", "skip"} /\ (q.op = "map" => q.to \in Mapping)
  BY ImportAssumption
<1>2. /\ status[q.row] # "none" /\ UNCHANGED <<staging, listed, progress>>
      /\ (Succeeds(q) /\ Transact(q)) \/ Rejected
      /\ \E a \in {"stored", "replayed", "refused"} :
            requested' = [requested EXCEPT ![c] = [ask |-> q, answer |-> a]]
  BY DEF Resolve
<1>3. RequestTypes'
  <2>1. RequestTypes
    BY InvParts
  <2>2. \A d \in Reviewer : /\ requested'[d].ask \in Reviews[d] \cup {[op |-> "none"]}
                            /\ requested'[d].answer \in {"none", "stored", "replayed", "refused"}
    BY <1>2, <2>1 DEF RequestTypes
  <2> QED
    BY <1>2, <2>1, <2>2 DEF RequestTypes
<1> QED
  BY <1>1, <1>2, <1>3, ChangeKeeps

LEMMA EditKeeps ==
    ASSUME ImportInv, NEW p \in Item, Edit(p)
    PROVE  ImportInv'
BY DEF Edit, ImportInv, ImportTypeOK, ClaimsHeld, ClaimsUnique, ClaimsResolved, ReadyMapped, RecordsApplied,
       StagedTogether, MoneyMatchesStatus, DuplicatesFollowOwner, ResultsInScope, Owners

\* The loop applies a listed row only while it is ready, thus staged.
LEMMA ApplyNextKeeps ==
    ASSUME ImportInv, ApplyNext
    PROVE  ImportInv'
<1>1. PICK i \in DOMAIN listed :
          LET q == [op |-> "apply", row |-> Row[i], expected |-> listed[i]]
          IN  /\ IF Succeeds(q) THEN Transact(q) /\ progress' = [progress EXCEPT !.applied = @ + 1]
                 ELSE Rejected /\ progress' = [progress EXCEPT !.failed = @ + 1]
              /\ listed' = [j \in DOMAIN listed \ {i} |-> listed[j]]
              /\ UNCHANGED <<requested, staging>>
  BY DEF ApplyNext
<1> DEFINE q == [op |-> "apply", row |-> Row[i], expected |-> listed[i]]
<1>2. RequestTypes /\ RowsInv
  BY InvParts
<1>3. q.row \in RowSet
  BY <1>2 DEF RequestTypes, RowSet, ToSet
<1>4. RequestTypes'
  <2>1. progress' \in [phase : {"idle", "applying", "done", "stopped"}, applied : Nat, failed : Nat]
    BY <1>1, <1>2 DEF RequestTypes
  <2>2. DOMAIN listed' \subseteq DOMAIN Row /\ \A j \in DOMAIN listed' : listed'[j] \in Nat
    BY <1>1, <1>2 DEF RequestTypes
  <2> QED
    BY <1>1, <1>2, <2>1, <2>2 DEF RequestTypes
<1>5. CASE Succeeds(q)
  <2>1. status[q.row] # "none"
    BY <1>5 DEF Succeeds, Permitted
  <2>2. Transact(q) /\ UNCHANGED staging /\ q.op = "apply"
    BY <1>1, <1>5
  <2> HIDE DEF q
  <2> QED
    BY <1>3, <1>4, <1>5, <2>1, <2>2, ChangeKeeps
<1>6. CASE ~Succeeds(q)
  <2>1. Rejected /\ UNCHANGED staging
    BY <1>1, <1>6
  <2>2. RowsInv'
    BY <1>2, <2>1, RowsRest
  <2>3. StagedTogether'
    BY <2>1 DEF ImportInv, StagedTogether, Rejected
  <2> QED
    BY <1>4, <2>2, <2>3 DEF ImportInv, ImportTypeOK, RowsInv, RowTypes, RequestTypes
<1> QED
  BY <1>5, <1>6

\* The other steps of the loop change no row.
LEMMA LoopKeeps ==
    ASSUME ImportInv, ListReady \/ ReadAnswer \/ PressApply
    PROVE  ImportInv'
<1>1. RequestTypes /\ RowsInv /\ StagedTogether
  BY InvParts
<1>2. Rejected /\ UNCHANGED <<requested, staging>>
  BY DEF ListReady, ReadAnswer, PressApply, Rejected
<1>3. RowsInv' /\ StagedTogether'
  BY <1>1, <1>2, RowsRest DEF StagedTogether, Rejected
<1>4. RequestTypes'
  <2>1. CASE ListReady
    <3>1. FirstReady \subseteq DOMAIN Row /\ \A i \in FirstReady : revision[Row[i]] \in Nat
      BY <1>1 DEF FirstReady, ReadyRows, RowsInv, RowTypes, RowSet, ToSet
    <3>2. listed' = [i \in FirstReady |-> revision[Row[i]]] /\ progress' = progress
      BY <2>1 DEF ListReady
    <3> QED
      BY <1>1, <1>2, <3>1, <3>2 DEF RequestTypes
  <2>2. CASE ReadAnswer
    BY <1>1, <1>2, <2>2 DEF ReadAnswer, NextPhase, RequestTypes
  <2>3. CASE PressApply
    BY <1>1, <1>2, <2>3 DEF PressApply, RequestTypes
  <2> QED
    BY <2>1, <2>2, <2>3
<1> QED
  BY <1>3, <1>4 DEF ImportInv, ImportTypeOK, RowsInv, RowTypes, RequestTypes

LEMMA StepKeeps == ImportInv /\ [ImportNext]_importVars => ImportInv'
<1> SUFFICES ASSUME ImportInv, [ImportNext]_importVars PROVE ImportInv'
  OBVIOUS
<1>1. CASE \E b \in Batch : StageBatch(b)
  BY <1>1, StageBatchKeeps
<1>2. CASE \E c \in Reviewer : \E q \in Reviews[c] : Resolve(c, q)
  BY <1>2, ResolveKeeps
<1>3. CASE \E p \in Item : Edit(p)
  BY <1>3, EditKeeps
<1>4. CASE PressApply \/ ApplyStep
  BY <1>4, LoopKeeps, ApplyNextKeeps DEF ApplyStep
<1>5. CASE UNCHANGED importVars
  BY <1>5 DEF importVars, ImportInv, ImportTypeOK, ClaimsHeld, ClaimsUnique, ClaimsResolved,
              ReadyMapped, RecordsApplied, StagedTogether, MoneyMatchesStatus, DuplicatesFollowOwner,
              ResultsInScope, Owners
<1> QED
  BY <1>1, <1>2, <1>3, <1>4, <1>5 DEF ImportNext

\* The rows that recorded money for one id on one card or account all own it
\* there, so they are one row.
LEMMA InvImportsOnce == ImportInv => ImportedOnce
<1>1. ASSUME ImportInv PROVE MoneyOncePerIdentity
  <2>1. SUFFICES ASSUME NEW r \in RowSet, NEW s \in RowSet, Identity[r] = Identity[s],
                        Identity[r] # Nobody, money[r] > 0, money[s] > 0,
                        mapping[r].scope = mapping[s].scope
                 PROVE  r = s
    BY DEF MoneyOncePerIdentity
  <2>2. status[r] \in Owning /\ status[s] \in Owning
    BY <1>1, <2>1 DEF ImportInv, MoneyMatchesStatus, Owning
  <2>3. PICK c \in claims, d \in claims : c.row = r /\ d.row = s
    BY <1>1, <2>1, <2>2 DEF ImportInv, ClaimsHeld
  <2>4. c.scope = d.scope
    BY <1>1, <2>1, <2>3 DEF ImportInv, ClaimsHeld
  <2> QED
    BY <1>1, <2>1, <2>3, <2>4 DEF ImportInv, ClaimsUnique
<1> QED
  BY <1>1 DEF ImportedOnce, ImportInv

-----------------------------------------------------------------------------
(* The theorems.                                                           *)

\* Whatever the batches, the reviews, the edits and the runs of the loop, an
\* external transaction id is owned by one row at most on each card or account,
\* which recorded or linked its money there and keeps its mapping, and only
\* staged rows stand for anything.
THEOREM ImportInvariance == ImportSpec => []ImportInv
<1>1. ImportInv /\ [ImportNext]_importVars => ImportInv'
  BY StepKeeps
<1> QED
  BY <1>1, InitImport, PTL DEF ImportSpec

\* The rows, their results and the lists of the loop keep their types.
THEOREM ImportTypes == ImportSpec => []ImportTypeOK
BY ImportInvariance, PTL DEF ImportInv

\* On each card or account the money of a bank transaction is booked once, by
\* the row that owns its id there, and every duplicate stands for what that row
\* stands for, however the clients of stageImportBatch, resolveImportRow and
\* applyReadyImportRows map, map again, link and apply the rows.
THEOREM ImportsOnce == ImportSpec => []ImportedOnce
BY ImportInvariance, InvImportsOnce, PTL

-----------------------------------------------------------------------------
(***************************************************************************)
(* Proofs about PasskeyEnrollment, for any number of visits, any purposes  *)
(* and any number of answers per challenge.  The invariant EnrollmentInv   *)
(* follows a visit from what it found to the passkey it enrolled: a grant  *)
(* is issued once, a challenge is answered once, and the passkey or code   *)
(* a visit found keeps a trace of the use it was put to.                   *)
(***************************************************************************)

-----------------------------------------------------------------------------
(* The invariant.                                                          *)

OnceIssued ==
    \A r \in Visit : /\ grants[r] # "none" => phase[r] = "issued"
                     /\ challenge[r] # "none" => grants[r] = "consumed"
AnsweredOnce ==
    /\ \A a \in holder : challenge[a[1]] = "consumed"
    /\ \A a, b \in holder : a[1] = b[1] => a = b
    /\ \A a \in Response : credentials[a].status # "none" => a \in holder
    /\ \A a \in Response : codes[a] # "none" => credentials[a].status # "none"
SourcesKnown ==
    \A r \in Visit : phase[r] # "idle" /\ aim[r].purpose # "BOOTSTRAP"
                     => /\ aim[r].found \in Response
                        /\ credentials[aim[r].found].status # "none"
CodesSpent == \A a \in Enrolled("RECOVERY") : codes[aim[a[1]].found] = "consumed"
Proven == {r \in Visit : /\ phase[r] \in {"proved", "issued", "signed_in"}
                         /\ aim[r].purpose \in {"ADD_CREDENTIAL", "SIGN_IN"}}
VersionsMove == \A r \in Proven : aim[r].version < credentials[aim[r].found].version

EnrollmentInv ==
    /\ EnrollmentTypeOK
    /\ OnceIssued
    /\ AnsweredOnce
    /\ SourcesKnown
    /\ CodesSpent
    /\ VersionsMove
    /\ StateConsistent
    /\ BootstrappedOnce
    /\ RecoversOnce
    /\ ProvedOncePerVersion

-----------------------------------------------------------------------------
LEMMA ResponseTyped == \A a \in Response : a[1] \in Visit
BY DEF Response

LEMMA InitTyped == EnrollmentInit => EnrollmentTypeOK
<1> SUFFICES ASSUME EnrollmentInit PROVE EnrollmentTypeOK
  OBVIOUS
<1>1. initialized \in BOOLEAN /\ holder \subseteq Response
  BY DEF EnrollmentInit
<1>2. aim \in [Visit -> [purpose : Purpose, found : Response \cup {NoSource}, version : Nat]]
  BY DEF EnrollmentInit, NoAim, Purpose
<1>3. /\ phase \in [Visit -> {"idle", "read", "proved", "issued", "signed_in", "refused"}]
      /\ grants \in [Visit -> {"none", "pending", "consumed", "revoked"}]
      /\ challenge \in [Visit -> {"none", "open", "consumed"}]
  BY DEF EnrollmentInit
<1>4. /\ credentials \in [Response -> [status : {"none", "active", "revoked"}, version : Nat]]
      /\ codes \in [Response -> {"none", "active", "consumed"}]
  BY DEF EnrollmentInit, NoPasskey
<1> QED
  BY <1>1, <1>2, <1>3, <1>4 DEF EnrollmentTypeOK

LEMMA InitEnrollment == EnrollmentInit => EnrollmentInv
<1> SUFFICES ASSUME EnrollmentInit PROVE EnrollmentInv
  OBVIOUS
<1>1. EnrollmentTypeOK
  BY InitTyped
<1>2. OnceIssued /\ AnsweredOnce /\ SourcesKnown
  BY DEF EnrollmentInit, OnceIssued, AnsweredOnce, SourcesKnown, NoPasskey
<1>3. Enrolled("RECOVERY") = {} /\ Enrolled("BOOTSTRAP") = {} /\ Proven = {} /\ ActiveCodes = {}
  BY DEF EnrollmentInit, Enrolled, NoPasskey, Proven, ActiveCodes
<1>4. CodesSpent /\ VersionsMove /\ StateConsistent /\ BootstrappedOnce /\ RecoversOnce
  BY <1>3 DEF EnrollmentInit, CodesSpent, VersionsMove, StateConsistent, BootstrappedOnce, RecoversOnce,
              NoPasskey
<1>5. ProvedOncePerVersion
  BY DEF EnrollmentInit, ProvedOncePerVersion
<1> QED
  BY <1>1, <1>2, <1>4, <1>5 DEF EnrollmentInv

-----------------------------------------------------------------------------
(* Before the transaction: a visit that was idle has found something.      *)

LEMMA FoundKeeps ==
    ASSUME EnrollmentInv, NEW r \in Visit, NEW purpose \in Purpose,
           NEW what \in Response \cup {NoSource}, NEW version \in Nat,
           Found(r, purpose, what, version),
           purpose # "BOOTSTRAP" => what \in Response /\ credentials[what].status # "none"
    PROVE  EnrollmentInv'
<1> USE DEF EnrollmentInv
<1>1. EnrollmentTypeOK'
  BY DEF EnrollmentTypeOK, Found
<1>2. OnceIssued' /\ AnsweredOnce'
  BY DEF EnrollmentTypeOK, Found, OnceIssued, AnsweredOnce
<1>3. SourcesKnown'
  BY DEF EnrollmentTypeOK, Found, SourcesKnown
<1>4. \A a \in holder : a \in Response /\ a[1] \in Visit /\ a[1] # r
  BY ResponseTyped DEF EnrollmentTypeOK, Found, OnceIssued, AnsweredOnce
<1>5. \A p : Enrolled(p)' = Enrolled(p)
  BY <1>4 DEF EnrollmentTypeOK, Found, Enrolled, AnsweredOnce
<1>6. \A a \in Response : credentials[a].status # "none" => aim'[a[1]] = aim[a[1]]
  BY <1>4 DEF EnrollmentTypeOK, Found, AnsweredOnce
<1>7. CodesSpent' /\ RecoversOnce' /\ BootstrappedOnce'
  BY <1>5, <1>6 DEF CodesSpent, RecoversOnce, BootstrappedOnce, Enrolled, Found
<1>8. Proven' = Proven /\ \A s \in Proven : aim'[s] = aim[s]
  BY DEF EnrollmentTypeOK, Found, Proven
<1>9. VersionsMove'
  BY <1>8 DEF VersionsMove, Found
<1>10. ProvedOncePerVersion'
  BY <1>8 DEF ProvedOncePerVersion, Proven
<1>11. StateConsistent'
  BY DEF StateConsistent, ActiveCodes, Found
<1> QED
  BY <1>1, <1>2, <1>3, <1>7, <1>9, <1>10, <1>11
LEMMA AuthorizationsKeep ==
    ASSUME EnrollmentInv, NEW r \in Visit,
           \/ AuthorizeBootstrap(r)
           \/ \E a \in Response : \/ AuthorizeRecovery(r, a)
                                  \/ \E p \in Purpose : FindCredential(r, a, p)
    PROVE  EnrollmentInv'
<1>1. CASE AuthorizeBootstrap(r)
  BY <1>1, FoundKeeps DEF AuthorizeBootstrap, Purpose
<1>2. ASSUME NEW a \in Response, AuthorizeRecovery(r, a) PROVE EnrollmentInv'
  BY <1>2, FoundKeeps DEF AuthorizeRecovery, EnrollmentInv, AnsweredOnce, Purpose
<1>3. ASSUME NEW a \in Response, NEW p \in Purpose, FindCredential(r, a, p) PROVE EnrollmentInv'
  <2>1. credentials[a].version \in Nat /\ credentials[a].status = "active"
    BY <1>3 DEF FindCredential, EnrollmentInv, EnrollmentTypeOK
  <2> QED
    BY <1>3, <2>1, FoundKeeps DEF FindCredential
<1> QED
  BY <1>1, <1>2, <1>3

\* A signature that is verified moves the version of the passkey it was made
\* with, so that no other visit that read the old one gets past it.
LEMMA ProveKeeps ==
    ASSUME EnrollmentInv, NEW r \in Visit, Prove(r)
    PROVE  EnrollmentInv'
<1> USE DEF EnrollmentInv
<1>1. CASE ~Unmoved(r)
  <2>1. /\ phase' = [phase EXCEPT ![r] = "refused"] /\ phase[r] = "read"
        /\ UNCHANGED <<initialized, aim, grants, challenge, holder, credentials, codes>>
    BY <1>1 DEF Prove
  <2>2. EnrollmentTypeOK' /\ OnceIssued' /\ AnsweredOnce' /\ SourcesKnown'
    BY <2>1 DEF EnrollmentTypeOK, OnceIssued, AnsweredOnce, SourcesKnown
  <2>3. CodesSpent' /\ StateConsistent' /\ BootstrappedOnce' /\ RecoversOnce'
    BY <2>1 DEF CodesSpent, StateConsistent, BootstrappedOnce, RecoversOnce, Enrolled, ActiveCodes
  <2>4. Proven' \subseteq Proven
    BY <2>1 DEF EnrollmentTypeOK, Proven
  <2>5. VersionsMove' /\ ProvedOncePerVersion'
    BY <2>1, <2>4 DEF VersionsMove, ProvedOncePerVersion, Proven
  <2> QED
    BY <2>2, <2>3, <2>5
<1>2. CASE Unmoved(r)
  <2> DEFINE k == aim[r].found
  <2>1. /\ phase[r] = "read" /\ phase'[r] \in {"signed_in", "proved"}
        /\ phase' \in [Visit -> {"idle", "read", "proved", "issued", "signed_in", "refused"}]
        /\ \A s \in Visit \ {r} : phase'[s] = phase[s]
        /\ UNCHANGED <<initialized, aim, grants, challenge, holder, codes>>
        /\ aim[r].purpose \in {"ADD_CREDENTIAL", "SIGN_IN"}
    BY <1>2 DEF Prove, EnrollmentTypeOK
  <2>2. k \in Response /\ credentials[k].status = "active" /\ credentials[k].version = aim[r].version
    BY <1>2, <2>1 DEF Unmoved, SourcesKnown
  <2>3. /\ credentials' \in [Response -> [status : {"none", "active", "revoked"}, version : Nat]]
        /\ credentials'[k].version = credentials[k].version + 1
        /\ \A a \in Response : credentials'[a].status = credentials[a].status
        /\ \A a \in Response \ {k} : credentials'[a] = credentials[a]
    <3>1. credentials' = [credentials EXCEPT ![k].version = @ + 1]
      BY <1>2 DEF Prove
    <3> HIDE DEF k
    <3> QED
      BY <3>1, <2>2 DEF EnrollmentTypeOK
  <2> HIDE DEF k
  <2>4. EnrollmentTypeOK'
    BY <2>1, <2>3 DEF EnrollmentTypeOK
  <2>5. OnceIssued' /\ AnsweredOnce' /\ SourcesKnown'
    BY <2>1, <2>3 DEF EnrollmentTypeOK, OnceIssued, AnsweredOnce, SourcesKnown
  <2>6. \A p : Enrolled(p)' = Enrolled(p)
    BY <2>1, <2>3 DEF Enrolled
  <2>7. CodesSpent' /\ BootstrappedOnce' /\ RecoversOnce'
    BY <2>1, <2>6 DEF CodesSpent, BootstrappedOnce, RecoversOnce
  <2>8. StateConsistent'
    BY <2>1, <2>3 DEF StateConsistent, ActiveCodes
  <2>9. Proven' \subseteq Proven \cup {r} /\ r \notin Proven
    BY <2>1 DEF Proven
  <2>10. \A s \in Proven : aim[s].found \in Response /\ aim[s].version \in Nat
    BY DEF Proven, SourcesKnown, EnrollmentTypeOK
  <2>11. \A a \in Response : /\ credentials[a].version \in Nat
                             /\ credentials'[a].version \in Nat
                             /\ credentials[a].version <= credentials'[a].version
    BY <2>3 DEF EnrollmentTypeOK
  <2>12. aim[r].version < credentials'[k].version
    BY <2>2, <2>3, <2>11
  <2>13. VersionsMove'
    <3>1. \A s \in Proven : aim[s].version < credentials'[aim[s].found].version
      <4> TAKE s \in Proven
      <4>1. aim[s].version < credentials[aim[s].found].version
        BY DEF VersionsMove
      <4> QED
        BY <2>10, <2>11, <4>1
    <3> QED
      BY <2>1, <2>9, <2>12, <3>1 DEF VersionsMove, k
  <2>14. \A s \in Proven : aim[s].found = k => aim[s].version # aim[r].version
    BY <2>2, <2>10, <2>11 DEF VersionsMove
  <2>15. \A s \in Visit : (/\ phase'[s] \in {"proved", "issued", "signed_in"}
                           /\ aim[s].purpose \in {"ADD_CREDENTIAL", "SIGN_IN"}) => s \in Proven \cup {r}
    BY <2>1 DEF Proven
  <2>16. \A s, t \in Proven : aim[s].found = aim[t].found /\ aim[s].version = aim[t].version => s = t
    BY DEF ProvedOncePerVersion, Proven
  <2>17. \A s, t \in Proven \cup {r} :
            aim[s].found = aim[t].found /\ aim[s].version = aim[t].version => s = t
    BY <2>14, <2>16 DEF k
  <2>18. ProvedOncePerVersion'
    BY <2>1, <2>15, <2>17 DEF ProvedOncePerVersion
  <2> QED
    BY <2>4, <2>5, <2>7, <2>8, <2>13, <2>18
<1> QED
  BY <1>1, <1>2

-----------------------------------------------------------------------------
(* Grants and challenges.                                                  *)

LEMMA IssueKeeps ==
    ASSUME EnrollmentInv, NEW r \in Visit, IssueGrant(r)
    PROVE  EnrollmentInv'
<1> USE DEF EnrollmentInv
<1>1. /\ phase[r] \in {"read", "proved"} /\ aim[r].purpose # "SIGN_IN"
      /\ aim[r].purpose = "ADD_CREDENTIAL" => phase[r] = "proved"
      /\ UNCHANGED <<initialized, aim, challenge, holder, credentials, codes>>
  BY DEF IssueGrant
<1>2. /\ phase'[r] \in {"issued", "refused"}
      /\ phase' \in [Visit -> {"idle", "read", "proved", "issued", "signed_in", "refused"}]
      /\ \A s \in Visit \ {r} : phase'[s] = phase[s]
  BY DEF IssueGrant, EnrollmentTypeOK
<1>3. /\ grants' \in [Visit -> {"none", "pending", "consumed", "revoked"}]
      /\ grants'[r] # "none" => phase'[r] = "issued"
      /\ \A s \in Visit \ {r} : /\ grants'[s] = "none" <=> grants[s] = "none"
                                /\ grants[s] = "consumed" => grants'[s] = "consumed"
  <2>1. grants[r] = "none"
    BY <1>1 DEF OnceIssued, EnrollmentTypeOK
  <2>2. /\ Revoked(aim[r].purpose) \in [Visit -> {"none", "pending", "consumed", "revoked"}]
        /\ \A s \in Visit : /\ Revoked(aim[r].purpose)[s] = "none" <=> grants[s] = "none"
                            /\ grants[s] = "consumed" => Revoked(aim[r].purpose)[s] = "consumed"
    BY DEF Revoked, PendingGrants, EnrollmentTypeOK
  <2>3. CASE SourceActive(r)
    BY <2>2, <2>3, <1>2 DEF IssueGrant, EnrollmentTypeOK
  <2>4. CASE ~SourceActive(r)
    BY <2>1, <2>4 DEF IssueGrant, EnrollmentTypeOK
  <2> QED
    BY <2>3, <2>4
<1>4. EnrollmentTypeOK'
  BY <1>1, <1>2, <1>3 DEF EnrollmentTypeOK
<1>5. challenge[r] = "none"
  BY <1>1 DEF OnceIssued, EnrollmentTypeOK
<1>6. OnceIssued'
  BY <1>1, <1>2, <1>3, <1>5 DEF OnceIssued
<1>7. AnsweredOnce' /\ SourcesKnown'
  BY <1>1, <1>2 DEF AnsweredOnce, SourcesKnown
<1>8. CodesSpent' /\ StateConsistent' /\ BootstrappedOnce' /\ RecoversOnce'
  BY <1>1 DEF CodesSpent, StateConsistent, BootstrappedOnce, RecoversOnce, Enrolled, ActiveCodes
<1>9. Proven' \subseteq Proven
  BY <1>1, <1>2 DEF Proven, EnrollmentTypeOK, Purpose
<1>10. VersionsMove' /\ ProvedOncePerVersion'
  BY <1>1, <1>9 DEF VersionsMove, ProvedOncePerVersion, Proven
<1> QED
  BY <1>4, <1>6, <1>7, <1>8, <1>10

LEMMA ChallengesKeep ==
    ASSUME EnrollmentInv,
           \/ \E r \in Visit : BeginEnrollment(r)
           \/ \E a \in Response : ConsumeChallenge(a)
    PROVE  EnrollmentInv'
<1> USE DEF EnrollmentInv
<1>1. UNCHANGED <<initialized, aim, phase, credentials, codes>>
  BY DEF BeginEnrollment, ConsumeChallenge, requestVars
<1>2. /\ SourcesKnown' /\ CodesSpent' /\ VersionsMove' /\ StateConsistent'
      /\ BootstrappedOnce' /\ RecoversOnce' /\ ProvedOncePerVersion'
  BY <1>1 DEF SourcesKnown, CodesSpent, VersionsMove, StateConsistent, BootstrappedOnce, RecoversOnce,
              ProvedOncePerVersion, Enrolled, ActiveCodes, Proven
<1>3. ASSUME NEW r \in Visit, BeginEnrollment(r)
      PROVE  EnrollmentTypeOK' /\ OnceIssued' /\ AnsweredOnce'
  <2>1. challenge[r] = "none"
    BY <1>3 DEF BeginEnrollment, OnceIssued
  <2> QED
    BY <1>1, <1>3, <2>1 DEF BeginEnrollment, EnrollmentTypeOK, OnceIssued, AnsweredOnce
<1>4. ASSUME NEW a \in Response, ConsumeChallenge(a)
      PROVE  EnrollmentTypeOK' /\ OnceIssued' /\ AnsweredOnce'
  <2>1. a[1] \in Visit /\ \A b \in holder : b[1] # a[1]
    BY <1>4, ResponseTyped DEF ConsumeChallenge, AnsweredOnce
  <2>2. EnrollmentTypeOK' /\ OnceIssued'
    BY <1>1, <1>4, <2>1 DEF ConsumeChallenge, EnrollmentTypeOK, OnceIssued
  <2>3. \A b \in holder' : challenge'[b[1]] = "consumed"
    BY <1>4, <2>1, ResponseTyped DEF ConsumeChallenge, EnrollmentTypeOK, AnsweredOnce
  <2>4. AnsweredOnce'
    BY <1>1, <1>4, <2>1, <2>3 DEF ConsumeChallenge, AnsweredOnce
  <2> QED
    BY <2>2, <2>4
<1> QED
  BY <1>2, <1>3, <1>4

-----------------------------------------------------------------------------
(* The transaction that stores a passkey.                                  *)

\* What the three kinds of enrolment share: the passkey of a new answer, with
\* the grants of its purpose revoked, and no passkey's version lowered.
LEMMA EnrollingKeeps ==
    ASSUME EnrollmentInv, NEW a \in Response, NEW purpose \in Purpose, Enrolling(a, purpose),
           initialized' = TRUE,
           credentials' \in [Response -> [status : {"none", "active", "revoked"}, version : Nat]],
           credentials'[a].status = "active",
           \A b \in Response \ {a} : /\ credentials'[b].status = "none" <=> credentials[b].status = "none"
                                    /\ credentials'[b].version >= credentials[b].version,
           codes' \in [Response -> {"none", "active", "consumed"}],
           \A b \in Response \ {a} : codes'[b] # "none" => codes[b] # "none"
    PROVE  /\ EnrollmentTypeOK' /\ OnceIssued' /\ AnsweredOnce' /\ SourcesKnown'
           /\ VersionsMove' /\ ProvedOncePerVersion'
           /\ Enrolled(purpose)' = Enrolled(purpose) \cup {a}
           /\ \A p \in Purpose \ {purpose} : Enrolled(p)' = Enrolled(p)
           /\ a \notin Enrolled(purpose)
           /\ UNCHANGED aim
<1> USE DEF EnrollmentInv
<1>1. /\ a \in holder /\ a[1] \in Visit /\ credentials[a].status = "none" /\ codes[a] = "none"
      /\ aim[a[1]].purpose = purpose
      /\ UNCHANGED <<aim, phase, challenge, holder>>
  BY ResponseTyped DEF Enrolling, requestVars, AnsweredOnce
<1>2. /\ grants' \in [Visit -> {"none", "pending", "consumed", "revoked"}]
      /\ \A r \in Visit : /\ grants'[r] = "none" <=> grants[r] = "none"
                          /\ grants[r] = "consumed" => grants'[r] = "consumed"
  BY DEF Enrolling, Revoked, PendingGrants, EnrollmentTypeOK
<1>3. EnrollmentTypeOK'
  <2>1. initialized' \in BOOLEAN
    OBVIOUS
  <2> QED
    BY <1>1, <1>2, <2>1 DEF EnrollmentTypeOK
<1>4. OnceIssued'
  BY <1>1, <1>2 DEF OnceIssued
<1>5. AnsweredOnce'
  BY <1>1 DEF AnsweredOnce
<1>6. \A b \in Response : credentials[b].status # "none"
                         => /\ b # a /\ credentials'[b].status # "none"
                            /\ credentials'[b].version >= credentials[b].version
  BY <1>1
<1>7. SourcesKnown'
  BY <1>1, <1>6 DEF SourcesKnown
<1>8. Proven' = Proven
  BY <1>1 DEF Proven
<1>9. ProvedOncePerVersion'
  BY <1>1 DEF ProvedOncePerVersion
<1>10. VersionsMove'
  <2> SUFFICES ASSUME NEW r \in Proven PROVE aim[r].version < credentials'[aim[r].found].version
    BY <1>1, <1>8 DEF VersionsMove
  <2>1. /\ aim[r].found \in Response /\ credentials[aim[r].found].status # "none"
        /\ aim[r].version \in Nat /\ aim[r].version < credentials[aim[r].found].version
    BY DEF Proven, SourcesKnown, VersionsMove, EnrollmentTypeOK
  <2>2. /\ credentials[aim[r].found].version \in Nat /\ credentials'[aim[r].found].version \in Nat
        /\ credentials'[aim[r].found].version >= credentials[aim[r].found].version
    BY <1>6, <2>1 DEF EnrollmentTypeOK
  <2> QED
    BY <2>1, <2>2
<1>11. /\ Enrolled(purpose)' = Enrolled(purpose) \cup {a} /\ a \notin Enrolled(purpose)
       /\ \A p \in Purpose \ {purpose} : Enrolled(p)' = Enrolled(p)
  BY <1>1 DEF Enrolled
<1> QED
  BY <1>1, <1>3, <1>4, <1>5, <1>7, <1>9, <1>10, <1>11

LEMMA EnrollFirstKeeps ==
    ASSUME EnrollmentInv, NEW a \in Response, EnrollFirst(a)
    PROVE  EnrollmentInv'
<1> USE DEF EnrollmentInv
<1>1. /\ Enrolling(a, "BOOTSTRAP") /\ ~initialized /\ initialized' = TRUE
      /\ credentials' = [credentials EXCEPT ![a] = [status |-> "active", version |-> 0]]
      /\ codes' = [codes EXCEPT ![a] = "active"]
  BY DEF EnrollFirst, Passkey
<1>2. \A b \in Response : credentials[b].status = "none" /\ codes[b] = "none"
  BY <1>1 DEF StateConsistent, AnsweredOnce
<1>3. /\ EnrollmentTypeOK' /\ OnceIssued' /\ AnsweredOnce' /\ SourcesKnown'
      /\ VersionsMove' /\ ProvedOncePerVersion'
      /\ Enrolled("BOOTSTRAP")' = Enrolled("BOOTSTRAP") \cup {a}
      /\ Enrolled("RECOVERY")' = Enrolled("RECOVERY")
  <2>1. /\ credentials' \in [Response -> [status : {"none", "active", "revoked"}, version : Nat]]
        /\ credentials'[a].status = "active"
        /\ \A b \in Response \ {a} : /\ credentials'[b] = credentials[b]
                                     /\ credentials[b].version \in Nat
        /\ codes' \in [Response -> {"none", "active", "consumed"}]
        /\ \A b \in Response \ {a} : codes'[b] = codes[b]
    BY <1>1 DEF EnrollmentTypeOK
  <2>2. \A b \in Response \ {a} : credentials'[b].version >= credentials[b].version
    BY <2>1
  <2> QED
    BY <1>1, <2>1, <2>2, EnrollingKeeps DEF Purpose
<1>4. Enrolled("BOOTSTRAP") = {} /\ Enrolled("RECOVERY") = {}
  BY <1>2 DEF Enrolled
<1>5. BootstrappedOnce' /\ RecoversOnce' /\ CodesSpent'
  BY <1>3, <1>4 DEF BootstrappedOnce, RecoversOnce, CodesSpent
<1>6. StateConsistent'
  <2>1. ActiveCodes' = {a}
    BY <1>1, <1>2 DEF ActiveCodes, EnrollmentTypeOK
  <2>2. credentials'[a].status = "active"
    BY <1>1 DEF EnrollmentTypeOK
  <2> QED
    BY <1>1, <2>1, <2>2 DEF StateConsistent
<1> QED
  BY <1>3, <1>5, <1>6

\* The code that is consumed was the active one, so that no passkey of an
\* earlier recovery was enrolled with it.
LEMMA EnrollByRecoveryKeeps ==
    ASSUME EnrollmentInv, NEW a \in Response, EnrollByRecovery(a)
    PROVE  EnrollmentInv'
<1> USE DEF EnrollmentInv
<1> DEFINE code == aim[a[1]].found
<1>1. /\ Enrolling(a, "RECOVERY") /\ SourceActive(a[1]) /\ UNCHANGED initialized
      /\ credentials' = Replaced(a)
      /\ codes' = [codes EXCEPT ![code] = "consumed", ![a] = "active"]
  BY DEF EnrollByRecovery
<1>2. /\ credentials[a].status = "none" /\ codes[a] = "none"
      /\ a[1] \in Visit /\ aim[a[1]].purpose = "RECOVERY" /\ grants[a[1]] = "consumed"
  BY <1>1, ResponseTyped DEF Enrolling, AnsweredOnce
<1>3. code \in Response \ {a} /\ codes[code] = "active"
  BY <1>1, <1>2 DEF SourceActive, SourcesKnown, OnceIssued
<1> HIDE DEF code
<1>4. initialized /\ ActiveCodes = {code}
  BY <1>3 DEF StateConsistent, ActiveCodes, EnrollmentTypeOK
<1>5. /\ codes' \in [Response -> {"none", "active", "consumed"}]
      /\ codes'[a] = "active" /\ codes'[code] = "consumed"
      /\ \A b \in Response \ {a, code} : codes'[b] = codes[b]
  BY <1>1, <1>3 DEF EnrollmentTypeOK
<1>6. /\ credentials' \in [Response -> [status : {"none", "active", "revoked"}, version : Nat]]
      /\ credentials'[a].status = "active"
      /\ \A b \in Response \ {a} : /\ credentials'[b].status = "none" <=> credentials[b].status = "none"
                                   /\ credentials'[b].version >= credentials[b].version
  <2>1. Passkey(a) \in [Response -> [status : {"none", "active", "revoked"}, version : Nat]]
        /\ Passkey(a)[a].status = "active" /\ \A b \in Response \ {a} : Passkey(a)[b] = credentials[b]
    BY DEF Passkey, EnrollmentTypeOK
  <2>2. \A b \in Response : credentials[b].version \in Nat
    BY DEF EnrollmentTypeOK
  <2> HIDE DEF EnrollmentInv
  <2>3. \A b \in Response : credentials'[b] = IF b # a /\ credentials[b].status = "active"
                               THEN [status |-> "revoked", version |-> credentials[b].version + 1]
                               ELSE Passkey(a)[b]
    BY <1>1 DEF Replaced
  <2>4. DOMAIN credentials' = Response /\ credentials' = [b \in Response |-> credentials'[b]]
    BY <1>1 DEF Replaced
  <2>5. \A b \in Response : credentials'[b] \in [status : {"none", "active", "revoked"}, version : Nat]
    <3> TAKE b \in Response
    <3>1. Passkey(a)[b] \in [status : {"none", "active", "revoked"}, version : Nat]
      BY <2>1
    <3>2. CASE b # a /\ credentials[b].status = "active"
      <4>1. credentials'[b] = [status |-> "revoked", version |-> credentials[b].version + 1]
        BY <2>3, <3>2
      <4>2. credentials[b].version + 1 \in Nat
        BY <2>2
      <4> QED
        BY <4>1, <4>2
    <3>3. CASE ~(b # a /\ credentials[b].status = "active")
      BY <2>3, <3>1, <3>3
    <3> QED
      BY <3>2, <3>3
  <2>6. \A b \in Response \ {a} : /\ credentials'[b].status = "none" <=> credentials[b].status = "none"
                                 /\ credentials'[b].version >= credentials[b].version
    <3> TAKE b \in Response \ {a}
    <3>1. CASE credentials[b].status = "active"
      <4>1. credentials'[b] = [status |-> "revoked", version |-> credentials[b].version + 1]
        BY <2>3, <3>1
      <4>2. /\ credentials'[b].status = "revoked"
            /\ credentials'[b].version = credentials[b].version + 1
        BY <4>1
      <4> QED
        BY <2>2, <3>1, <4>2
    <3>2. CASE credentials[b].status # "active"
      <4>1. credentials'[b] = credentials[b]
        BY <2>1, <2>3, <3>2
      <4> QED
        BY <2>2, <4>1
    <3> QED
      BY <3>1, <3>2
  <2> QED
    BY <2>1, <2>3, <2>4, <2>5, <2>6
<1>7. /\ EnrollmentTypeOK' /\ OnceIssued' /\ AnsweredOnce' /\ SourcesKnown'
      /\ VersionsMove' /\ ProvedOncePerVersion' /\ UNCHANGED aim
      /\ Enrolled("RECOVERY")' = Enrolled("RECOVERY") \cup {a} /\ a \notin Enrolled("RECOVERY")
      /\ Enrolled("BOOTSTRAP")' = Enrolled("BOOTSTRAP")
  <2>1. initialized' = TRUE
    BY <1>1, <1>4 DEF EnrollmentTypeOK
  <2>2. \A b \in Response \ {a} : codes'[b] # "none" => codes[b] # "none"
    BY <1>3, <1>5
  <2> QED
    BY <1>1, <1>5, <1>6, <2>1, <2>2, EnrollingKeeps DEF Purpose
<1>8. \A b \in Enrolled("RECOVERY") : codes[aim[b[1]].found] = "consumed" /\ b \in Response
  BY DEF CodesSpent, Enrolled
<1>9. CodesSpent'
  <2>1. \A b \in Enrolled("RECOVERY") : aim[b[1]].found \in Response \ {a, code}
    <3> TAKE b \in Enrolled("RECOVERY")
    <3>1. b \in holder /\ b[1] \in Visit /\ aim[b[1]].purpose = "RECOVERY"
      BY ResponseTyped DEF Enrolled, AnsweredOnce
    <3>2. phase[b[1]] = "issued"
      BY <3>1 DEF AnsweredOnce, OnceIssued
    <3> QED
      BY <1>2, <1>3, <1>8, <3>1, <3>2 DEF SourcesKnown
  <2> QED
    BY <1>5, <1>7, <1>8, <2>1 DEF CodesSpent, code
<1>10. RecoversOnce'
  <2>1. \A b \in Enrolled("RECOVERY") : aim[b[1]].found # code
    BY <1>3, <1>8
  <2> QED
    BY <1>7, <2>1 DEF RecoversOnce, code
<1>11. StateConsistent'
  <2>1. ActiveCodes' = {a}
    BY <1>3, <1>4, <1>5 DEF ActiveCodes
  <2> QED
    BY <1>1, <1>4, <1>6, <2>1 DEF StateConsistent
<1>12. BootstrappedOnce'
  BY <1>7 DEF BootstrappedOnce
<1> QED
  BY <1>7, <1>9, <1>10, <1>11, <1>12

LEMMA EnrollAnotherKeeps ==
    ASSUME EnrollmentInv, NEW a \in Response, EnrollAnother(a)
    PROVE  EnrollmentInv'
<1> USE DEF EnrollmentInv
<1>1. /\ Enrolling(a, "ADD_CREDENTIAL") /\ initialized /\ initialized' = TRUE
      /\ credentials' = [credentials EXCEPT ![a] = [status |-> "active", version |-> 0]]
      /\ UNCHANGED codes
  BY DEF EnrollAnother, Passkey, EnrollmentTypeOK
<1>2. /\ credentials' \in [Response -> [status : {"none", "active", "revoked"}, version : Nat]]
      /\ credentials'[a].status = "active"
      /\ \A b \in Response \ {a} : /\ credentials'[b] = credentials[b]
                                   /\ credentials[b].version \in Nat
      /\ codes' \in [Response -> {"none", "active", "consumed"}]
  BY <1>1 DEF EnrollmentTypeOK
<1>3. \A b \in Response \ {a} : credentials'[b].version >= credentials[b].version
  BY <1>2
<1>4. /\ EnrollmentTypeOK' /\ OnceIssued' /\ AnsweredOnce' /\ SourcesKnown'
      /\ VersionsMove' /\ ProvedOncePerVersion' /\ UNCHANGED aim
      /\ Enrolled("RECOVERY")' = Enrolled("RECOVERY")
      /\ Enrolled("BOOTSTRAP")' = Enrolled("BOOTSTRAP")
  BY <1>1, <1>2, <1>3, EnrollingKeeps DEF Purpose
<1>5. BootstrappedOnce' /\ RecoversOnce' /\ CodesSpent'
  BY <1>1, <1>4 DEF BootstrappedOnce, RecoversOnce, CodesSpent
<1>6. StateConsistent'
  BY <1>1, <1>2 DEF StateConsistent, ActiveCodes
<1> QED
  BY <1>4, <1>5, <1>6

-----------------------------------------------------------------------------
LEMMA NextKeeps == EnrollmentInv /\ [EnrollmentNext]_enrollmentVars => EnrollmentInv'
<1> SUFFICES ASSUME EnrollmentInv, [EnrollmentNext]_enrollmentVars PROVE EnrollmentInv'
  OBVIOUS
<1>1. ASSUME NEW r \in Visit,
             \/ AuthorizeBootstrap(r)
             \/ \E a \in Response : \/ AuthorizeRecovery(r, a)
                                    \/ \E p \in Purpose : FindCredential(r, a, p)
      PROVE  EnrollmentInv'
  BY <1>1, AuthorizationsKeep
<1>2. ASSUME NEW r \in Visit, Prove(r) PROVE EnrollmentInv'
  BY <1>2, ProveKeeps
<1>3. ASSUME NEW r \in Visit, IssueGrant(r) PROVE EnrollmentInv'
  BY <1>3, IssueKeeps
<1>4. ASSUME NEW r \in Visit, BeginEnrollment(r) PROVE EnrollmentInv'
  BY <1>4, ChallengesKeep
<1>5. ASSUME NEW a \in Response, ConsumeChallenge(a) PROVE EnrollmentInv'
  BY <1>5, ChallengesKeep
<1>6. ASSUME NEW a \in Response, EnrollFirst(a) PROVE EnrollmentInv'
  BY <1>6, EnrollFirstKeeps
<1>7. ASSUME NEW a \in Response, EnrollByRecovery(a) PROVE EnrollmentInv'
  BY <1>7, EnrollByRecoveryKeeps
<1>8. ASSUME NEW a \in Response, EnrollAnother(a) PROVE EnrollmentInv'
  BY <1>8, EnrollAnotherKeeps
<1>9. CASE UNCHANGED enrollmentVars
  BY <1>9 DEF enrollmentVars, EnrollmentInv, EnrollmentTypeOK, OnceIssued, AnsweredOnce, SourcesKnown,
              CodesSpent, VersionsMove, StateConsistent, BootstrappedOnce, RecoversOnce,
              ProvedOncePerVersion, Enrolled, ActiveCodes, Proven
<1> QED
  BY <1>1, <1>2, <1>3, <1>4, <1>5, <1>6, <1>7, <1>8, <1>9 DEF EnrollmentNext

LEMMA InvHolds == EnrollmentSpec => []EnrollmentInv
BY InitEnrollment, NextKeeps, PTL DEF EnrollmentSpec

-----------------------------------------------------------------------------
(* The theorems.                                                           *)

\* Every passkey, grant, challenge and recovery code is in one of the states
\* the schema allows, for any number of visits.
THEOREM EnrollmentTypeCorrect == EnrollmentSpec => []EnrollmentTypeOK
BY InvHolds, PTL DEF EnrollmentInv

\* GET /auth/status never finds an instance half initialised: an active
\* passkey and one active recovery code come and go together.
THEOREM AuthStateConsistent == EnrollmentSpec => []StateConsistent
BY InvHolds, PTL DEF EnrollmentInv

\* However many bootstrap grants were issued, one passkey bootstraps.
THEOREM OneBootstrap == EnrollmentSpec => []BootstrappedOnce
BY InvHolds, PTL DEF EnrollmentInv

\* However often the answer to a challenge is sent, its grant enrols once.
THEOREM OneGrantOnePasskey == EnrollmentSpec => []OnePasskeyPerGrant
<1>1. EnrollmentInv => OnePasskeyPerGrant
  BY DEF EnrollmentInv, AnsweredOnce, OnePasskeyPerGrant
<1> QED
  BY <1>1, InvHolds, PTL

\* However many visits authorised with it, a recovery code recovers once.
THEOREM OneRecoveryPerCode == EnrollmentSpec => []RecoversOnce
BY InvHolds, PTL DEF EnrollmentInv

\* However many visits read one version of a passkey, it lets in one of them.
THEOREM OneProofPerVersion == EnrollmentSpec => []ProvedOncePerVersion
BY InvHolds, PTL DEF EnrollmentInv

\* Bootstrap, grant, recovery code and passkey version: each is used once.
THEOREM NothingUsedTwice == EnrollmentSpec => []UsedOnce
BY OneBootstrap, OneGrantOnePasskey, OneRecoveryPerCode, OneProofPerVersion, PTL DEF UsedOnce
=============================================================================
