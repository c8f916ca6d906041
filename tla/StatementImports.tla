-------------------------- MODULE StatementImports ---------------------------
(***************************************************************************)
(* The imports of src/imports: the rows of a bank statement are staged as  *)
(* a batch, reviewed one by one and applied as purchases or receipts, and  *)
(* a row with an external transaction id imports its money only if no      *)
(* other row claimed that id before under the card or account the row is   *)
(* mapped to.  The review may map a row to another card until the row is   *)
(* applied, linked, skipped or found a duplicate.                          *)
(*                                                                         *)
(* A resolution or an application holds the row of the import row and, by  *)
(* their unique indexes, its key and its claim: a step each.  The button   *)
(* that applies everything is a loop of the browser over a loop of the     *)
(* server, which lists the rows before it applies them one by one.         *)
(***************************************************************************)
EXTENDS Integers, Sequences, FiniteSets, SequencesExt

CONSTANTS
    Row,            \* the rows of the statements, in the order of their ordinals
    BatchOf,        \* the batch of each
    Identity,       \* its provider, record type and external transaction id, or Nobody
    Scope, Detail,  \* cards and accounts; categories and income sources
    Manual,         \* purchases and receipts the user recorded by hand
    Incoming,       \* the rows and records that are income receipts
    Origin,         \* the mapping each row comes with and each record is of
    Alike,          \* the records and rows of the date and amount of each row
    Refused,        \* rows whose purchase the card or income domain refuses
    Reviewer,       \* the resolve requests of the user's clients
    Reviews,        \* what each may ask for
    Chosen,         \* the batch whose rows the user applies all at once
    Limit,          \* rows one call of apply takes
    Nobody

Batch == {BatchOf[r] : r \in ToSet(Row)}
RowSet == ToSet(Row)
Item == RowSet \cup Manual
Mapping == [scope : Scope \cup {Nobody}, detail : Detail \cup {Nobody}]
Terminal == {"APPLIED", "LINKED_EXISTING", "SKIPPED", "EXACT_DUPLICATE"}
ASSUME ImportAssumption ==
    /\ Nobody \notin Item \cup Scope /\ Manual \cap RowSet = {} /\ Limit \in Nat \ {0}
    /\ Origin \in [Item -> Mapping]
    /\ \A c \in Reviewer : \A q \in Reviews[c] :
          /\ q.row \in RowSet /\ q.op \in {"map", "confirm", "link", "apply", "skip"}
          /\ q.op = "map" => q.to \in Mapping

VARIABLES
    status, revision,   \* of the latest revision of each row ...
    mapping,            \* ... with the card or account in its payload, and of each record
    result,             \* import_row_results: the purchase a row stands for
    claims,             \* import_external_identity_claims: the rows that own their id,
                        \* and the card or account they own it under
    money,              \* how often each row recorded a purchase or receipt
    intact,             \* the purchases that still are as the statement has them
    requested,          \* what each reviewer asked, and the answer
    staging,            \* the answer to the staging of each batch
    listed, progress    \* the rows one call of apply listed, by ordinal; the browser's loop

importVars == <<status, revision, mapping, result, claims, money, intact, requested, staging, listed, progress>>

Statuses == {"none", "READY", "NEEDS_REVIEW", "POSSIBLE_DUPLICATE"} \cup Terminal
ImportTypeOK ==
    /\ status \in [RowSet -> Statuses] /\ revision \in [RowSet -> Nat]
    /\ result \in [RowSet -> Item \cup {Nobody}]
    /\ mapping \in [Item -> Mapping]
    /\ claims \subseteq [row : RowSet, scope : Scope]
    /\ money \in [RowSet -> Nat] /\ intact \subseteq Item
    /\ \A c \in Reviewer : /\ requested[c].ask \in Reviews[c] \cup {[op |-> "none"]}
                           /\ requested[c].answer \in {"none", "stored", "replayed", "refused"}
    /\ staging \in [Batch -> {"none", "staged", "failed"}]
    /\ DOMAIN listed \subseteq DOMAIN Row /\ \A i \in DOMAIN listed : listed[i] \in Nat
    /\ progress \in [phase : {"idle", "applying", "done", "stopped"}, applied : Nat, failed : Nat]

ImportInit ==
    /\ status = [r \in RowSet |-> "none"] /\ revision = [r \in RowSet |-> 0]
    /\ mapping = Origin /\ result = [r \in RowSet |-> Nobody]
    /\ claims = {}
    /\ money = [r \in RowSet |-> 0] /\ intact = Manual
    /\ requested = [c \in Reviewer |-> [ask |-> [op |-> "none"], answer |-> "none"]]
    /\ staging = [b \in Batch |-> "none"]
    /\ listed = <<>>
    /\ progress = [phase |-> "idle", applied |-> 0, failed |-> 0]

-----------------------------------------------------------------------------
FullyMapped(m) == m.scope # Nobody /\ m.detail # Nobody
OwnersWhereStaged(r, x) ==
    {c.row : c \in {d \in claims : d.scope = Origin[r].scope /\ Identity[d.row] = Identity[r] /\ Identity[r] # Nobody}}
\* The row whose claim on the external id of r stands under a card or
\* account, and what it stands for.
Owners(r, x) == {c.row : c \in {d \in claims : d.scope = x /\ Identity[d.row] = Identity[r] /\ Identity[r] # Nobody}}
OwnerResult(r, x) == result[CHOOSE s \in Owners(r, x) : TRUE]

FitsAnywhere(p, r, m) == r \in Incoming => mapping[p].detail = m.detail
\* A record is where row r is mapped to by m: of the same card, or of the
\* same account and source.
Fits(p, r, m) == mapping[p].scope = m.scope /\ (r \in Incoming => mapping[p].detail = m.detail)
\* At commit trg_fn_guard_import_row_result_integrity compares the record a
\* result names with the row: it must be neither void nor edited.
Binds(r, m) == OwnerResult(r, m.scope) \in intact /\ Fits(OwnerResult(r, m.scope), r, m)

\* analyzeDuplicatesAgainstDb.
Resembles(r) == \E p \in Alike[r] : /\ p \in intact \/ (p \in RowSet /\ BatchOf[p] = BatchOf[r])
                                   /\ Fits(p, r, mapping[r])
StagedStatus(r) ==
    IF Owners(r, mapping[r].scope) # {} THEN "EXACT_DUPLICATE"
    ELSE IF ~FullyMapped(mapping[r]) THEN "NEEDS_REVIEW"
    ELSE IF Resembles(r) THEN "POSSIBLE_DUPLICATE" ELSE "READY"

\* stageImportBatch: a batch that is there already is replayed.
StageBatch(b) ==
    LET rows == {r \in RowSet : BatchOf[r] = b}
        duplicates == {r \in rows : StagedStatus(r) = "EXACT_DUPLICATE"}
    IN  /\ staging[b] # "staged"
        /\ IF \A r \in duplicates : Binds(r, mapping[r])
           THEN /\ staging' = [staging EXCEPT ![b] = "staged"]
                /\ status' = [r \in RowSet |-> IF r \in rows THEN StagedStatus(r) ELSE status[r]]
                /\ revision' = [r \in RowSet |-> IF r \in rows THEN 1 ELSE revision[r]]
                /\ result' = [r \in RowSet |->
                                 IF r \in duplicates THEN OwnerResult(r, mapping[r].scope) ELSE result[r]]
           ELSE staging' = [staging EXCEPT ![b] = "failed"] /\ UNCHANGED <<status, revision, result>>
        /\ UNCHANGED <<mapping, claims, money, intact, requested, listed, progress>>

-----------------------------------------------------------------------------
(* A transaction on one row.                                               *)

NeverOutdated(q) == TRUE
UpToDate(q) == revision[q.row] = q.expected /\ status[q.row] \notin Terminal
\* The mapping the row has from then on.
After(q) == IF q.op = "map" THEN q.to ELSE mapping[q.row]
Owned(q) == Owners(q.row, After(q).scope) # {}
ClaimedWhenMapped(q) == q.op = "map" /\ Owned(q)
\* A row whose id is claimed already takes the owner's result.
Claimed(q) == q.op \in {"map", "link", "apply"} /\ Owned(q)

\* A look-alike becomes ready only as it is mapped: the trigger on revisions
\* has the one that does copy its mapping forward.
Permitted(q) ==
    CASE q.op = "confirm" -> status[q.row] = "POSSIBLE_DUPLICATE" /\ ~Owned(q)
      [] q.op = "link" -> /\ status[q.row] \in {"READY", "POSSIBLE_DUPLICATE"}
                          /\ q.target \in intact \cap Alike[q.row] /\ Fits(q.target, q.row, After(q))
      [] q.op = "apply" -> status[q.row] = "READY"
      [] q.op = "map" -> \/ status[q.row] # "POSSIBLE_DUPLICATE" \/ q.to = mapping[q.row]
                         \/ Claimed(q) \/ ~FullyMapped(q.to)
      [] OTHER -> TRUE
Succeeds(q) == /\ UpToDate(q) /\ Permitted(q)
               /\ IF Claimed(q) THEN Binds(q.row, After(q)) ELSE q.op = "apply" => q.row \notin Refused
Becomes(q) == IF Claimed(q) THEN "EXACT_DUPLICATE"
              ELSE CASE q.op = "apply" -> "APPLIED" [] q.op = "link" -> "LINKED_EXISTING"
                     [] q.op = "skip" -> "SKIPPED"
                     [] OTHER -> IF FullyMapped(After(q)) THEN "READY" ELSE "NEEDS_REVIEW"

\* What the row stands for from then on.
Named(q) == CASE q.op = "apply" -> q.row [] q.op = "link" -> q.target [] OTHER -> Nobody
TargetFirst(q) == IF q.op = "link" \/ ~Claimed(q) THEN Named(q) ELSE OwnerResult(q.row, After(q).scope)
StandsFor(q) == IF Claimed(q) THEN OwnerResult(q.row, After(q).scope) ELSE Named(q)

Records(r) == money' = [money EXCEPT ![r] = @ + 1] /\ intact' = intact \cup {r}
Transact(q) ==
    LET new == Becomes(q)
    IN  /\ status' = [status EXCEPT ![q.row] = new]
        /\ revision' = [revision EXCEPT ![q.row] = @ + 1]
        /\ mapping' = [mapping EXCEPT ![q.row] = After(q)]
        /\ result' = [result EXCEPT ![q.row] = StandsFor(q)]
        /\ claims' = IF new \in {"APPLIED", "LINKED_EXISTING"} /\ Identity[q.row] # Nobody
                     THEN claims \cup {[row |-> q.row, scope |-> mapping[q.row].scope]} ELSE claims
        /\ IF new = "APPLIED" THEN Records(q.row) ELSE UNCHANGED <<money, intact>>
Rejected == UNCHANGED <<status, revision, mapping, result, claims, money, intact>>

\* resolveImportRow and applyImportRow.  The mutation receipt of a key is of
\* one request: a second request with the key finds it or the unique index.
Receipts(q) == {c \in Reviewer : requested[c].answer = "stored" /\ requested[c].ask.key = q.key}
Resolve(c, q) ==
    LET Answered(answer) == requested' = [requested EXCEPT ![c] = [ask |-> q, answer |-> answer]]
    IN  /\ requested[c].answer = "none" /\ status[q.row] # "none"
        /\ IF Receipts(q) # {}
           THEN /\ Rejected
                /\ Answered(IF \E d \in Receipts(q) : requested[d].ask = q THEN "replayed" ELSE "refused")
           ELSE IF Succeeds(q) THEN Transact(q) /\ Answered("stored")
           ELSE Rejected /\ Answered("refused")
        /\ UNCHANGED <<staging, listed, progress>>

\* The user edits or voids a record, in the domain that owns it.
Edit(p) ==
    /\ p \in intact /\ intact' = intact \ {p}
    /\ UNCHANGED <<status, revision, mapping, result, claims, money, requested, staging, listed, progress>>

-----------------------------------------------------------------------------
(* applyReadyImportRows and startApplyLoop of ImportApplyProgress.tsx.     *)

ReadyRows == {i \in DOMAIN Row : BatchOf[Row[i]] = Chosen /\ status[Row[i]] = "READY"}
FirstReady == {i \in ReadyRows : Cardinality({j \in ReadyRows : j < i}) < Limit}
ListReady ==
    /\ progress.phase = "applying" /\ listed = <<>> /\ progress.applied + progress.failed = 0
    /\ ReadyRows # {}
    /\ listed' = [i \in FirstReady |-> revision[Row[i]]]
    /\ UNCHANGED <<status, revision, mapping, result, claims, money, intact, requested, staging, progress>>

ApplyNext ==
    \E i \in DOMAIN listed :
        LET q == [op |-> "apply", row |-> Row[i], expected |-> listed[i]]
        IN  /\ \A j \in DOMAIN listed : i <= j
            /\ IF Succeeds(q) THEN Transact(q) /\ progress' = [progress EXCEPT !.applied = @ + 1]
               ELSE Rejected /\ progress' = [progress EXCEPT !.failed = @ + 1]
            /\ listed' = [j \in DOMAIN listed \ {i} |-> listed[j]]
            /\ UNCHANGED <<requested, staging>>

PhaseDespiteFailures == IF ReadyRows # {} THEN "applying" ELSE "done"
\* The browser stops at a failure or when nothing was applied, and calls again
\* while rows are left.
NextPhase == IF progress.failed > 0 \/ (ReadyRows # {} /\ progress.applied = 0) THEN "stopped"
             ELSE IF ReadyRows # {} THEN "applying" ELSE "done"
ReadAnswer ==
    /\ progress.phase = "applying" /\ listed = <<>>
    /\ progress.applied + progress.failed > 0 \/ ReadyRows = {}
    /\ progress' = [phase |-> NextPhase, applied |-> 0, failed |-> 0]
    /\ UNCHANGED <<status, revision, mapping, result, claims, money, intact, requested, staging, listed>>

PressApply ==
    /\ progress.phase = "idle" /\ staging[Chosen] = "staged"
    /\ progress' = [progress EXCEPT !.phase = "applying"]
    /\ UNCHANGED <<status, revision, mapping, result, claims, money, intact, requested, staging, listed>>

ApplyStep == ListReady \/ ApplyNext \/ ReadAnswer
ImportNext ==
    \/ \E b \in Batch : StageBatch(b)
    \/ \E c \in Reviewer : \E q \in Reviews[c] : Resolve(c, q)
    \/ \E p \in Item : Edit(p)
    \/ PressApply \/ ApplyStep
ImportFairness == WF_importVars(ApplyStep)
ImportSpec == ImportInit /\ [][ImportNext]_importVars

-----------------------------------------------------------------------------
(* Properties.                                                             *)

\* One external transaction id records its money once on a card or account,
\* whichever of the rows that bear it are staged, mapped, mapped again, linked
\* and applied, in whatever order.
MoneyOncePerIdentity ==
    \A r, s \in RowSet :
        /\ Identity[r] = Identity[s] /\ Identity[r] # Nobody /\ money[r] > 0 /\ money[s] > 0
        /\ mapping[r].scope = mapping[s].scope
        => r = s

\* A row has recorded its money exactly if it says so, whatever was retried.
MoneyMatchesStatus == \A r \in RowSet : money[r] = IF status[r] = "APPLIED" THEN 1 ELSE 0

\* A duplicate stands for what the owner of its id stands for, under the card
\* or account the duplicate is mapped to.
DuplicatesFollowOwner ==
    \A r \in RowSet : status[r] = "EXACT_DUPLICATE" =>
        \E s \in Owners(r, mapping[r].scope) : /\ status[s] \in {"APPLIED", "LINKED_EXISTING"}
                                               /\ result[r] = result[s] /\ result[s] # Nobody

\* What a row stands for was recorded on the card or account the row is mapped
\* to, also after the row was mapped again, linked or found a duplicate.
ResultsInScope == \A r \in RowSet : result[r] # Nobody => mapping[result[r]].scope = mapping[r].scope

\* On each card or account the money of a bank transaction is booked once, by
\* the row that says so and owns its id there, and every duplicate leads to it.
ImportedOnce == MoneyOncePerIdentity /\ MoneyMatchesStatus /\ DuplicatesFollowOwner /\ ResultsInScope

\* The loop that applies a batch ends, while others resolve its rows.
ApplyLoopEnds == progress.phase = "applying" ~> progress.phase \in {"done", "stopped"}
=============================================================================
