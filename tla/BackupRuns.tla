----------------------------- MODULE BackupRuns -----------------------------
(***************************************************************************)
(* The daily encrypted backup (src/backups/service.ts, retention.ts and    *)
(* the triggers of migrations 0056 and 0057).  Several invocations of the  *)
(* cron trigger may run for one day.  Each reserves an execution in a      *)
(* transaction of its own, uploads an object named after the reservation   *)
(* with no transaction open, reads it back, and records the outcome in a   *)
(* second transaction.  An invocation that answers COMPLETED prunes the    *)
(* bucket.  Any invocation may die between two of its steps, and a call to *)
(* the bucket or the database may fail after it took effect.               *)
(*                                                                         *)
(* A reservation lives in one invocation and an invocation reserves at     *)
(* most once, so an invocation names its STARTED event and its object.     *)
(***************************************************************************)
EXTENDS Integers, Sequences, FiniteSets

CONSTANTS
    Invocation, \* calls of the scheduled handler
    DayOf,      \* the UTC day each of them is scheduled for
    MaxEvents,  \* BACKUP_MAX_EVENTS_PER_RUN, 10 in the code
    Keep,       \* DEFAULT_BACKUP_RETENTION_KEEP_COUNT, 35 in the code
    NoAnswer

Day == {DayOf[i] : i \in Invocation}

ASSUME DayAssumption == DayOf \in [Invocation -> Nat]
ASSUME BudgetAssumption == MaxEvents \in Nat \ {0} /\ MaxEvents % 2 = 0
ASSUME KeepAssumption == Keep \in Nat \ {0}
ASSUME FiniteAssumption == IsFiniteSet(Invocation)

VARIABLES
    events,   \* backup_run_attempts: the events of each day's run, in order
    expired,  \* invocations whose reservation is two hours old
    bucket,   \* the objects in the bucket, by the invocation that wrote them
    point,    \* where each invocation is
    response, \* the status it returned
    seen,     \* the completed objects its retention read from the database
    doomed    \* the objects its retention has yet to delete

backupVars == <<events, expired, bucket, point, response, seen, doomed>>

Status == {"STARTED", "COMPLETED", "FAILED"}
Event == [status : Status, by : Invocation]
BackupAnswer == {"COMPLETED", "IN_PROGRESS", "FAILED"}
ASSUME NoAnswerAssumption == NoAnswer \notin BackupAnswer
BackupStage == {"idle", "reserved", "uploaded", "verified", "cleaning", "discarding",
          "failing", "retaining", "listing", "pruning", "done", "gone"}
Over == {"done", "gone"}

BackupTypeOK ==
    /\ events \in [Day -> Seq(Event)]
    /\ expired \subseteq Invocation
    /\ bucket \subseteq Invocation
    /\ point \in [Invocation -> BackupStage]
    /\ response \in [Invocation -> BackupAnswer \cup {NoAnswer}]
    /\ seen \in [Invocation -> SUBSET Invocation]
    /\ doomed \in [Invocation -> SUBSET Invocation]

BackupInit ==
    /\ events = [d \in Day |-> <<>>]
    /\ expired = {}
    /\ bucket = {}
    /\ point = [i \in Invocation |-> "idle"]
    /\ response = [i \in Invocation |-> NoAnswer]
    /\ seen = [i \in Invocation |-> {}]
    /\ doomed = [i \in Invocation |-> {}]

-----------------------------------------------------------------------------
(* The event chain of a day.                                               *)

Ev(status, i) == [status |-> status, by |-> i]
LatestIs(chain, status) == chain # <<>> /\ chain[Len(chain)].status = status
LatestBy(chain) == chain[Len(chain)].by

\* The insert trigger: STARTED opens a run or follows FAILED, a terminal event
\* follows STARTED, and nothing follows COMPLETED.
Accepts(chain, status) ==
    IF status = "STARTED" THEN chain = <<>> \/ LatestIs(chain, "FAILED")
                          ELSE LatestIs(chain, "STARTED")

\* Any reservation in the way is taken for an abandoned one.
StaleAtOnce(chain) == LatestIs(chain, "STARTED")

Stale(chain) == LatestIs(chain, "STARTED") /\ LatestBy(chain) \in expired


\* A stale reservation is closed as FAILED with an unknown outcome before the
\* next one is considered.
Settled(chain) ==
    IF Stale(chain) THEN Append(chain, Ev("FAILED", LatestBy(chain))) ELSE chain

\* Finalization looks at the latest status only.
OwnsIfStarted(i, chain) == LatestIs(chain, "STARTED")

\* Finalization goes ahead only on the very event this invocation reserved.
Owns(i, chain) == LatestIs(chain, "STARTED") /\ LatestBy(chain) = i

Record(i, status) ==
    LET d == DayOf[i] IN
    /\ Accepts(events[d], status)
    /\ events' = [events EXCEPT ![d] = Append(@, Ev(status, i))]

RecordedIn(chain) == {i \in Invocation : Ev("COMPLETED", i) \in {chain[n] : n \in DOMAIN chain}}
Recorded == UNION {RecordedIn(events[d]) : d \in Day}

Move(i, s) == point' = [point EXCEPT ![i] = s]
Reply(i, a) == response' = [response EXCEPT ![i] = a]
Pruning == <<seen, doomed>>

\* The lists of an invocation go away with it.
Forget(i) == seen' = [seen EXCEPT ![i] = {}] /\ doomed' = [doomed EXCEPT ![i] = {}]

-----------------------------------------------------------------------------
(* Phase 1: the reservation, under the lock of the day's row.              *)

ReplayCompleted(i) ==
    /\ LatestIs(events[DayOf[i]], "COMPLETED")
    /\ Reply(i, "COMPLETED") /\ Move(i, "retaining")
    /\ UNCHANGED events

AwaitOther(i) ==
    /\ LatestIs(events[DayOf[i]], "STARTED") /\ ~Stale(events[DayOf[i]])
    /\ Reply(i, "IN_PROGRESS") /\ Move(i, "done")
    /\ UNCHANGED events

Start(i) ==
    LET chain == Settled(events[DayOf[i]]) IN
    /\ Accepts(chain, "STARTED") /\ Len(chain) < MaxEvents
    /\ events' = [events EXCEPT ![DayOf[i]] = Append(chain, Ev("STARTED", i))]
    /\ Move(i, "reserved")
    /\ UNCHANGED response

Exhausted(i) ==
    LET chain == Settled(events[DayOf[i]]) IN
    /\ Accepts(chain, "STARTED") /\ Len(chain) >= MaxEvents
    /\ events' = [events EXCEPT ![DayOf[i]] = chain]
    /\ Reply(i, "FAILED") /\ Move(i, "done")

ReserveExecution(i) ==
    /\ point[i] = "idle"
    /\ ReplayCompleted(i) \/ AwaitOther(i) \/ Start(i) \/ Exhausted(i)
    /\ UNCHANGED <<expired, bucket, Pruning>>

-----------------------------------------------------------------------------
(* Phase 2: snapshot, encryption, upload and verification, no transaction. *)

SnapshotFails(i) ==
    /\ point[i] = "reserved"
    /\ Move(i, "failing")
    /\ UNCHANGED <<events, expired, bucket, response, Pruning>>

\* A put that fails may have stored the object; the code then keeps no note
\* of it.
Upload(i) ==
    /\ point[i] = "reserved"
    /\ bucket' = bucket \cup {i}
    /\ \E s \in {"uploaded", "failing"} : Move(i, s)
    /\ UNCHANGED <<events, expired, response, Pruning>>

Verify(i) ==
    /\ point[i] = "uploaded"
    /\ \/ i \in bucket /\ Move(i, "verified")
       \/ Move(i, "cleaning")
    /\ UNCHANGED <<events, expired, bucket, response, Pruning>>

-----------------------------------------------------------------------------
(* Phase 3: the outcome, under the lock of the day's row.                  *)

\* The row is recorded, but the answer of the commit may be lost: the call
\* then throws and the invocation goes on as if it had failed.
Complete(i) ==
    /\ point[i] = "verified"
    /\ Owns(i, events[DayOf[i]]) /\ Record(i, "COMPLETED")
    /\ \/ Reply(i, "COMPLETED") /\ Move(i, "retaining")
       \/ Move(i, "cleaning") /\ UNCHANGED response
    /\ UNCHANGED <<expired, bucket, Pruning>>

CompleteFails(i) ==
    /\ point[i] = "verified"
    /\ \/ ~Owns(i, events[DayOf[i]]) /\ Move(i, "discarding")
       \/ Move(i, "cleaning")
    /\ UNCHANGED <<events, expired, bucket, response, Pruning>>

\* The object of an execution that lost its reservation is removed, if the
\* bucket lets it.
Discard(i) ==
    /\ point[i] = "discarding"
    /\ bucket' \in {bucket, bucket \ {i}}
    /\ Reply(i, "FAILED") /\ Move(i, "done")
    /\ UNCHANGED <<events, expired, Pruning>>

Clean(i) ==
    /\ point[i] = "cleaning"
    /\ bucket' \in {bucket, bucket \ {i}}
    /\ Move(i, "failing")
    /\ UNCHANGED <<events, expired, response, Pruning>>

Fail(i) ==
    /\ point[i] = "failing"
    /\ IF Owns(i, events[DayOf[i]]) THEN Record(i, "FAILED") ELSE UNCHANGED events
    /\ Reply(i, "FAILED") /\ Move(i, "done")
    /\ UNCHANGED <<expired, bucket, Pruning>>

-----------------------------------------------------------------------------
(* Retention, after a COMPLETED answer: the completed rows are read, the   *)
(* bucket is listed, and what lies beyond the newest Keep is deleted one   *)
(* object at a time.                                                       *)

\* The object of the invocation's answer, which retention never deletes.
Current(i) == LatestBy(events[DayOf[i]])

\* Retention trusts the shape of an object's key and not the completed rows.
AnyObject(i) == bucket

Authoritative(i) == bucket \cap seen[i]
\* Retention sorts oldest first.
Older(i, o) == {p \in Authoritative(i) : DayOf[p] < DayOf[o]}

Newer(i, o) == {p \in Authoritative(i) : DayOf[p] > DayOf[o]}
Excess(i) == {o \in Authoritative(i) \ {Current(i)} : Cardinality(Newer(i, o)) >= Keep}

ReadCompleted(i) ==
    /\ point[i] = "retaining"
    /\ seen' = [seen EXCEPT ![i] = Recorded]
    /\ Move(i, "listing")
    /\ UNCHANGED <<events, expired, bucket, response, doomed>>

ListObjects(i) ==
    /\ point[i] = "listing"
    /\ doomed' = [doomed EXCEPT ![i] = Excess(i)]
    /\ seen' = [seen EXCEPT ![i] = {}]
    /\ Move(i, "pruning")
    /\ UNCHANGED <<events, expired, bucket, response>>

\* Objects are deleted in the order of their days, newest first.
Prune(i) ==
    /\ point[i] = "pruning"
    /\ \E o \in doomed[i] :
          /\ \A p \in doomed[i] : DayOf[p] <= DayOf[o]
          /\ bucket' = bucket \ {o}
          /\ doomed' = [doomed EXCEPT ![i] = @ \ {o}]
    /\ UNCHANGED <<events, expired, point, response, seen>>

\* A failure of retention is logged and leaves the answer as it is.
Retained(i) ==
    /\ point[i] \in {"listing", "pruning"}
    /\ Move(i, "done") /\ Forget(i)
    /\ UNCHANGED <<events, expired, bucket, response>>

-----------------------------------------------------------------------------
(* Time and crashes.                                                       *)

\* Two hours pass over a reservation, whether its invocation still runs or not.
Expire(i) ==
    /\ i \notin expired /\ Owns(i, events[DayOf[i]])
    /\ expired' = expired \cup {i}
    /\ UNCHANGED <<events, bucket, point, response, Pruning>>

\* The worker is evicted, or a transaction outside the handler's try throws.
Die(i) ==
    /\ point[i] \notin Over \cup {"idle"}
    /\ Move(i, "gone") /\ Forget(i)
    /\ UNCHANGED <<events, expired, bucket, response>>

BackupStep(i) ==
    \/ ReserveExecution(i)
    \/ SnapshotFails(i) \/ Upload(i) \/ Verify(i)
    \/ Complete(i) \/ CompleteFails(i) \/ Discard(i) \/ Clean(i) \/ Fail(i)
    \/ ReadCompleted(i) \/ ListObjects(i) \/ Prune(i) \/ Retained(i)

BackupNext == \E i \in Invocation : BackupStep(i) \/ Expire(i) \/ Die(i)

BackupSpec == BackupInit /\ [][BackupNext]_backupVars

-----------------------------------------------------------------------------
(* Properties.                                                             *)

Working == {i \in Invocation : point[i] \in {"reserved", "uploaded", "verified"}}

\* What the comment of runDatabaseBackup guarantees: as long as no reservation
\* has grown stale, one day is never snapshotted and uploaded by two
\* invocations at a time.
OneUploadPerDay ==
    \A i, j \in Working \ expired : DayOf[i] = DayOf[j] => i = j

\* Every outcome is recorded against the execution it belongs to: whoever
\* races, stalls or is replaced, a terminal event follows the STARTED event of
\* its own invocation, and COMPLETED ends the run.
OutcomeIsOwn ==
    \A d \in Day : \A n \in DOMAIN events[d] :
        LET e == events[d][n] IN
        /\ e.status = "STARTED" <=> n % 2 = 1
        /\ e.status # "STARTED" => events[d][n - 1].by = e.by
        /\ e.status = "COMPLETED" => n = Len(events[d])

\* An upload that its invocation has yet to read back or record is in the
\* bucket: neither retention nor the cleanup of another execution of the day
\* removes it.
UploadsUndisturbed == \A i \in Invocation : point[i] \in {"uploaded", "verified"} => i \in bucket

\* A recorded backup that newer ones have not pushed out of the window.
DueInWindow ==
    {i \in Recorded : Cardinality({d \in Day : d > DayOf[i] /\ LatestIs(events[d], "COMPLETED")}) < Keep}

\* A backup that answered COMPLETED to its own execution keeps its object
\* until Keep newer days are recorded, whatever retention runs of other days
\* read before and delete after.
CompletedKept == \A i \in DueInWindow : response[i] = "COMPLETED" => i \in bucket

\* Invocations of one day, their records and the objects in the bucket stay in
\* step, whoever stalls, is replaced or prunes.
BackupsInStep == OneUploadPerDay /\ OutcomeIsOwn /\ UploadsUndisturbed /\ CompletedKept

\* What src/backups/service.ts says of the rows: a COMPLETED row stands for a
\* genuine successful backup, so its object is there to be restored.
RecordedKept == DueInWindow \subseteq bucket
=============================================================================
