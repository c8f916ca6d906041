----------------------------- MODULE CronProofs -----------------------------
(***************************************************************************)
(* Proofs about what the Worker's cron runs: the backups, the push         *)
(* notifications and the budget checkpoints. No module refers to another;  *)
(* the invocations of each overlap with invocations of their own kind.     *)
(***************************************************************************)
EXTENDS BackupRuns, NotificationDispatch, CheckpointChain, Sums, SequenceTheorems

-----------------------------------------------------------------------------
(***************************************************************************)
(* Proofs about BackupRuns, for any number of invocations and days, any    *)
(* event budget and any retention count.  The invariant BackupInv relates  *)
(* each invocation's stage to its events: a chain is well formed, only a   *)
(* working invocation that has not grown stale owns the latest event, and  *)
(* what a retention run is about to delete is recorded and out of the      *)
(* window.                                                                 *)
(***************************************************************************)

-----------------------------------------------------------------------------
(* The invariant.                                                          *)

\* A day's history alternates STARTED with its own terminal event, ends with
\* COMPLETED if it has it, and names invocations of the day only.
WellFormed(d, history) ==
    \A n \in DOMAIN history :
        /\ history[n].status = "STARTED" <=> n % 2 = 1
        /\ history[n].status # "STARTED" => history[n - 1].by = history[n].by
        /\ history[n].status = "COMPLETED" => n = Len(history)
        /\ DayOf[history[n].by] = d

Named(history) == {history[n].by : n \in DOMAIN history}
NewerDays(k) == {d \in Day : d > k /\ LatestIs(events[d], "COMPLETED")}

WorkingStages == {"reserved", "uploaded", "verified"}
RetentionStages == {"retaining", "listing", "pruning", "done", "gone"}

ChainsWellFormed == \A d \in Day : WellFormed(d, events[d])
NamedHaveBegun == \A d \in Day : \A i \in Named(events[d]) : point[i] # "idle"
WorkersOwn ==
    \A i \in Invocation : point[i] \in WorkingStages => i \in expired \/ Owns(i, events[DayOf[i]])
RecordedHaveWorked ==
    \A i \in Recorded : point[i] \in RetentionStages \cup {"cleaning", "failing"}
CompletedAnswersRetain ==
    \A i \in Invocation : response[i] = "COMPLETED" => point[i] \in RetentionStages
ListsAreRecorded == \A i \in Invocation : seen[i] \cup doomed[i] \subseteq Recorded
DoomedAreOut == \A i \in Invocation : doomed[i] \cap DueInWindow = {}

BackupInv ==
    /\ BackupTypeOK
    /\ ChainsWellFormed
    /\ NamedHaveBegun
    /\ WorkersOwn
    /\ RecordedHaveWorked
    /\ CompletedAnswersRetain
    /\ UploadsUndisturbed
    /\ ListsAreRecorded
    /\ DoomedAreOut
    /\ CompletedKept

-----------------------------------------------------------------------------
(* Chains.                                                                 *)

LEMMA DayIsTyped == \A i \in Invocation : DayOf[i] \in Day /\ DayOf[i] \in Nat
BY DayAssumption DEF Day

LEMMA DayIsFinite == IsFiniteSet(Day) /\ Day \subseteq Nat
<1>1. DayOf \in Surjection(Invocation, Day)
  BY DayAssumption DEF Day, Surjection
<1>2. IsFiniteSet(Day)
  BY <1>1, FiniteAssumption, FS_Surjection
<1> QED
  BY <1>2, DayAssumption DEF Day

\* What appending an event does to a history.
LEMMA Appended ==
    ASSUME NEW history \in Seq(Event), NEW e \in Event
    PROVE  /\ Append(history, e) \in Seq(Event)
           /\ Len(Append(history, e)) = Len(history) + 1
           /\ Append(history, e)[Len(history) + 1] = e
           /\ DOMAIN Append(history, e) = DOMAIN history \cup {Len(history) + 1}
           /\ \A n \in DOMAIN history : Append(history, e)[n] = history[n]
           /\ Named(Append(history, e)) = Named(history) \cup {e.by}
           /\ LatestIs(Append(history, e), e.status)
           /\ \A s : LatestIs(Append(history, e), s) <=> s = e.status
           /\ LatestBy(Append(history, e)) = e.by
<1> DEFINE longer == Append(history, e)
<1>1. longer \in Seq(Event) /\ Len(longer) = Len(history) + 1 /\ longer[Len(history) + 1] = e
  OBVIOUS
<1>2. DOMAIN longer = DOMAIN history \cup {Len(history) + 1}
  OBVIOUS
<1>3. \A n \in DOMAIN history : longer[n] = history[n]
  OBVIOUS
<1>4. Named(longer) = Named(history) \cup {e.by}
  <2> HIDE DEF longer
  <2> QED
    BY <1>1, <1>2, <1>3 DEF Named
<1> HIDE DEF longer
<1>5. longer # <<>>
  BY <1>1
<1>6. /\ LatestIs(longer, e.status)
      /\ \A s : LatestIs(longer, s) <=> s = e.status
      /\ LatestBy(longer) = e.by
  BY <1>1, <1>5 DEF LatestIs, LatestBy
<1> QED
  BY <1>1, <1>2, <1>3, <1>4, <1>6 DEF longer

\* The latest event of a history that has one.
LEMMA LatestEventTyped ==
    ASSUME NEW history \in Seq(Event), history # <<>>
    PROVE  /\ Len(history) \in DOMAIN history
           /\ LatestBy(history) \in Invocation /\ LatestBy(history) \in Named(history)
           /\ \A s : LatestIs(history, s) => history[Len(history)] = Ev(s, LatestBy(history))
<1>1. Len(history) \in DOMAIN history /\ history[Len(history)] \in Event
  OBVIOUS
<1>2. \A e \in Event : e.by \in Invocation /\ e = [status |-> e.status, by |-> e.by]
  BY DEF Event
<1> QED
  BY <1>1, <1>2 DEF LatestBy, LatestIs, Named, Ev

LEMMA NamedTyped == ASSUME NEW history \in Seq(Event) PROVE Named(history) \subseteq Invocation
<1>1. \A n \in DOMAIN history : history[n] \in Event
  OBVIOUS
<1> QED
  BY <1>1 DEF Named, Event

\* A terminal event of the owner keeps a history well formed.
LEMMA TerminalKeeps ==
    ASSUME NEW d \in Day, NEW history \in Seq(Event), WellFormed(d, history),
           NEW i \in Invocation, Owns(i, history),
           NEW status \in {"COMPLETED", "FAILED"}
    PROVE  WellFormed(d, Append(history, Ev(status, i)))
<1> DEFINE longer == Append(history, Ev(status, i))
<1>1. Ev(status, i) \in Event /\ Ev(status, i).status = status /\ Ev(status, i).by = i
  BY DEF Ev, Event, Status
<1>2. /\ Len(longer) = Len(history) + 1
      /\ longer[Len(history) + 1] = Ev(status, i)
      /\ DOMAIN longer = DOMAIN history \cup {Len(history) + 1}
      /\ \A n \in DOMAIN history : longer[n] = history[n]
  BY <1>1, Appended
<1> HIDE DEF longer
<1>3. /\ Len(history) \in Nat \ {0} /\ Len(history) \in DOMAIN history
      /\ history[Len(history)].status = "STARTED" /\ history[Len(history)].by = i
      /\ DOMAIN history = 1..Len(history)
  BY DEF Owns, LatestIs, LatestBy
<1>4. Len(history) % 2 = 1 /\ DayOf[i] = d
  BY <1>3 DEF WellFormed
<1>5. ASSUME NEW n \in DOMAIN history
      PROVE  /\ longer[n].status = "STARTED" <=> n % 2 = 1
             /\ longer[n].status # "STARTED" => longer[n - 1].by = longer[n].by
             /\ longer[n].status = "COMPLETED" => n = Len(longer)
             /\ DayOf[longer[n].by] = d
  <2>1. /\ history[n].status = "STARTED" <=> n % 2 = 1
        /\ history[n].status # "STARTED" => history[n - 1].by = history[n].by
        /\ history[n].status = "COMPLETED" => n = Len(history)
        /\ DayOf[history[n].by] = d
    BY DEF WellFormed
  <2>2. history[n].status # "COMPLETED"
    BY <2>1, <1>3
  <2>3. history[n].status # "STARTED" => n - 1 \in DOMAIN history
    BY <2>1, <1>3
  <2> QED
    BY <2>1, <2>2, <2>3, <1>2
<1>6. /\ longer[Len(history) + 1].status # "STARTED" /\ (Len(history) + 1) % 2 # 1
      /\ longer[(Len(history) + 1) - 1].by = i
      /\ DayOf[longer[Len(history) + 1].by] = d
  BY <1>1, <1>2, <1>3, <1>4
<1> QED
  <2>1. WellFormed(d, longer)
    BY <1>1, <1>2, <1>5, <1>6 DEF WellFormed
  <2> QED
    BY <2>1 DEF longer

\* A reservation that the trigger accepts keeps a history well formed.
LEMMA StartedKeeps ==
    ASSUME NEW d \in Day, NEW history \in Seq(Event), WellFormed(d, history),
           NEW i \in Invocation, DayOf[i] = d, Accepts(history, "STARTED")
    PROVE  WellFormed(d, Append(history, Ev("STARTED", i)))
<1> DEFINE longer == Append(history, Ev("STARTED", i))
<1>1. Ev("STARTED", i) \in Event /\ Ev("STARTED", i).status = "STARTED" /\ Ev("STARTED", i).by = i
  BY DEF Ev, Event, Status
<1>2. /\ Len(longer) = Len(history) + 1
      /\ longer[Len(history) + 1] = Ev("STARTED", i)
      /\ DOMAIN longer = DOMAIN history \cup {Len(history) + 1}
      /\ \A n \in DOMAIN history : longer[n] = history[n]
  BY <1>1, Appended
<1> HIDE DEF longer
<1>3. Len(history) \in Nat /\ DOMAIN history = 1..Len(history)
  OBVIOUS
<1>4. Len(history) % 2 = 0 /\ \A n \in DOMAIN history : history[n].status # "COMPLETED"
  <2>1. CASE history = <<>>
    BY <2>1
  <2>2. CASE LatestIs(history, "FAILED")
    <3>1. Len(history) \in DOMAIN history /\ history[Len(history)].status = "FAILED"
      BY <2>2 DEF LatestIs
    <3>2. Len(history) % 2 # 1
      BY <3>1 DEF WellFormed
    <3>3. \A n \in DOMAIN history : history[n].status # "COMPLETED"
      BY <3>1 DEF WellFormed
    <3> QED
      BY <3>2, <3>3, <1>3
  <2> QED
    BY <2>1, <2>2 DEF Accepts
<1>5. ASSUME NEW n \in DOMAIN history
      PROVE  /\ longer[n].status = "STARTED" <=> n % 2 = 1
             /\ longer[n].status # "STARTED" => longer[n - 1].by = longer[n].by
             /\ longer[n].status # "COMPLETED"
             /\ DayOf[longer[n].by] = d
  <2>1. /\ history[n].status = "STARTED" <=> n % 2 = 1
        /\ history[n].status # "STARTED" => history[n - 1].by = history[n].by
        /\ DayOf[history[n].by] = d
    BY DEF WellFormed
  <2>2. history[n].status # "STARTED" => n - 1 \in DOMAIN history
    BY <2>1, <1>3
  <2> QED
    BY <2>1, <2>2, <1>2, <1>4
<1>6. (Len(history) + 1) % 2 = 1
  BY <1>3, <1>4
<1> QED
  <2>1. WellFormed(d, longer)
    BY <1>1, <1>2, <1>5, <1>6 DEF WellFormed
  <2> QED
    BY <2>1 DEF longer

\* What settling a stale reservation does to a history.
LEMMA SettledKeeps ==
    ASSUME BackupTypeOK, NEW d \in Day, NEW history \in Seq(Event), WellFormed(d, history)
    PROVE  /\ Settled(history) \in Seq(Event)
           /\ WellFormed(d, Settled(history))
           /\ Named(Settled(history)) = Named(history)
           /\ LatestIs(Settled(history), "COMPLETED") => LatestIs(history, "COMPLETED")
           /\ LatestIs(history, "COMPLETED") => Settled(history) = history
           /\ ~Stale(history) => Settled(history) = history
<1>1. CASE ~Stale(history)
  BY <1>1 DEF Settled
<1>2. CASE Stale(history)
  <2> DEFINE i == LatestBy(history)
  <2>1. Owns(i, history) /\ i \in Invocation /\ i \in Named(history)
    BY <1>2, LatestEventTyped DEF Stale, Owns, LatestIs
  <2>2. Ev("FAILED", i) \in Event /\ Ev("FAILED", i).by = i /\ Ev("FAILED", i).status = "FAILED"
    BY <2>1 DEF Ev, Event, Status
  <2>3. Settled(history) = Append(history, Ev("FAILED", i))
    BY <1>2 DEF Settled
  <2>4. WellFormed(d, Settled(history))
    BY <2>1, <2>3, TerminalKeeps
  <2>5. ~LatestIs(history, "COMPLETED")
    BY <1>2 DEF Stale, LatestIs
  <2> HIDE DEF i
  <2>6. /\ Settled(history) \in Seq(Event)
        /\ Named(Settled(history)) = Named(history) \cup {i}
        /\ LatestIs(Settled(history), "COMPLETED") <=> "COMPLETED" = "FAILED"
    BY <2>2, <2>3, Appended
  <2> QED
    BY <2>1, <2>4, <2>5, <2>6, <1>2
<1> QED
  BY <1>1, <1>2

\* The invocations recorded in a well-formed history: the latest, if COMPLETED.
LEMMA RecordedIsLatest ==
    ASSUME NEW d \in Day, NEW history \in Seq(Event), WellFormed(d, history)
    PROVE  RecordedIn(history) =
             IF LatestIs(history, "COMPLETED") THEN {LatestBy(history)} ELSE {}
<1>1. Len(history) \in Nat /\ DOMAIN history = 1..Len(history)
  OBVIOUS
<1>2. ASSUME NEW i \in RecordedIn(history)
      PROVE  LatestIs(history, "COMPLETED") /\ i = LatestBy(history)
  <2>1. PICK n \in DOMAIN history : history[n] = Ev("COMPLETED", i)
    BY DEF RecordedIn
  <2>2. history[n].status = "COMPLETED" /\ history[n].by = i
    BY <2>1 DEF Ev
  <2>3. n = Len(history)
    BY <2>2 DEF WellFormed
  <2> QED
    BY <2>2, <2>3, <1>1 DEF LatestIs, LatestBy
<1>3. ASSUME LatestIs(history, "COMPLETED")
      PROVE  LatestBy(history) \in RecordedIn(history)
  <2>1. Len(history) \in DOMAIN history /\ history[Len(history)].status = "COMPLETED"
    BY <1>3, <1>1 DEF LatestIs
  <2>2. history[Len(history)] = Ev("COMPLETED", LatestBy(history)) /\ LatestBy(history) \in Invocation
    BY <1>3, LatestEventTyped DEF LatestIs
  <2> QED
    BY <2>1, <2>2 DEF RecordedIn
<1> QED
  BY <1>2, <1>3

\* Recorded invocations, by day.
LEMMA RecordedByDay ==
    ASSUME BackupTypeOK, ChainsWellFormed
    PROVE  /\ Recorded \subseteq Invocation
           /\ \A i \in Invocation : i \in Recorded <=>
                 LatestIs(events[DayOf[i]], "COMPLETED") /\ LatestBy(events[DayOf[i]]) = i
<1>1. \A d \in Day : events[d] \in Seq(Event) /\ WellFormed(d, events[d])
  BY DEF BackupTypeOK, ChainsWellFormed
<1>2. \A d \in Day : RecordedIn(events[d]) =
        IF LatestIs(events[d], "COMPLETED") THEN {LatestBy(events[d])} ELSE {}
  BY <1>1, RecordedIsLatest
<1>3. ASSUME NEW d \in Day, LatestIs(events[d], "COMPLETED")
      PROVE  DayOf[LatestBy(events[d])] = d /\ LatestBy(events[d]) \in Invocation
  <2>1. Len(events[d]) \in DOMAIN events[d] /\ events[d][Len(events[d])] \in Event
    BY <1>1, <1>3 DEF LatestIs
  <2> QED
    BY <2>1, <1>1 DEF WellFormed, LatestBy, Event
<1>4. \A i : i \in Recorded <=> \E d \in Day : i \in RecordedIn(events[d])
  BY DEF Recorded
<1>5. \A i : i \in Recorded <=>
        \E d \in Day : LatestIs(events[d], "COMPLETED") /\ i = LatestBy(events[d])
  BY <1>2, <1>4
<1> QED
  BY <1>3, <1>5, DayIsTyped

-----------------------------------------------------------------------------
(* Steps.                                                                  *)

\* What a day's new history does to the recorded invocations and the window:
\* only the owner of a COMPLETED event is added, and no recorded invocation
\* comes back into the window.
LEMMA RecordingGrows ==
    ASSUME BackupTypeOK, ChainsWellFormed, NEW d \in Day, NEW longer \in Seq(Event),
           WellFormed(d, longer), events' = [events EXCEPT ![d] = longer],
           LatestIs(events[d], "COMPLETED") => longer = events[d]
    PROVE  /\ ChainsWellFormed'
           /\ Recorded \subseteq Recorded'
           /\ \A o \in Recorded' \ Recorded :
                 o = LatestBy(longer) /\ LatestIs(longer, "COMPLETED")
           /\ Recorded \cap DueInWindow' \subseteq DueInWindow
<1>1. \A c \in Day : events'[c] = IF c = d THEN longer ELSE events[c]
  BY DEF BackupTypeOK
<1>2. ChainsWellFormed'
  BY <1>1 DEF ChainsWellFormed
<1>3. /\ \A o : o \in Recorded <=> \E c \in Day : o \in RecordedIn(events[c])
      /\ \A o : o \in Recorded' <=> \E c \in Day : o \in RecordedIn(events'[c])
  BY DEF Recorded
<1>4. RecordedIn(longer) = IF LatestIs(longer, "COMPLETED") THEN {LatestBy(longer)} ELSE {}
  BY RecordedIsLatest
<1>5. RecordedIn(events[d]) \subseteq RecordedIn(longer)
  <2>1. events[d] \in Seq(Event) /\ WellFormed(d, events[d])
    BY DEF BackupTypeOK, ChainsWellFormed
  <2>2. RecordedIn(events[d]) =
          IF LatestIs(events[d], "COMPLETED") THEN {LatestBy(events[d])} ELSE {}
    BY <2>1, RecordedIsLatest
  <2> QED
    BY <2>2
<1>6. Recorded \subseteq Recorded'
  BY <1>1, <1>3, <1>5
<1>7. \A o \in Recorded' \ Recorded : o = LatestBy(longer) /\ LatestIs(longer, "COMPLETED")
  BY <1>1, <1>3, <1>4
<1>8. ASSUME NEW o \in Recorded, o \in DueInWindow'
      PROVE  o \in DueInWindow
  <2> DEFINE before == NewerDays(DayOf[o])
             after == {c \in Day : c > DayOf[o] /\ LatestIs(events'[c], "COMPLETED")}
  <2>1. before \subseteq after
    BY <1>1 DEF NewerDays
  <2>2. IsFiniteSet(after) /\ IsFiniteSet(before)
    BY DayIsFinite, FS_Subset DEF NewerDays
  <2>3. Cardinality(before) <= Cardinality(after)
    BY <2>1, <2>2, FS_Subset
  <2>4. Cardinality(after) < Keep
    BY <1>8 DEF DueInWindow
  <2>5. Cardinality(before) < Keep
    BY <2>2, <2>3, <2>4, FS_CardinalityType, KeepAssumption
  <2> QED
    BY <2>5 DEF DueInWindow, NewerDays
<1> QED
  BY <1>2, <1>6, <1>7, <1>8

\* A step of one invocation that leaves the database alone.
LEMMA QuietStep ==
    ASSUME BackupInv, BackupTypeOK', NEW i \in Invocation, UNCHANGED <<events, expired>>,
           \A j \in Invocation \ {i} : point'[j] = point[j] /\ response'[j] = response[j],
           point'[i] # "idle",
           point'[i] \in WorkingStages => point[i] \in WorkingStages,
           i \in Recorded => point'[i] \in RetentionStages \cup {"cleaning", "failing"},
           response'[i] = "COMPLETED" => /\ point'[i] \in RetentionStages
                                       /\ (response[i] = "COMPLETED" \/ i \notin Recorded),
           point'[i] \in {"uploaded", "verified"} => i \in bucket',
           \A o \in bucket \ bucket' : \/ o = i /\ response'[i] # "COMPLETED"
                                       \/ o \in Recorded \ DueInWindow,
           \A j \in Invocation : /\ seen'[j] \subseteq Recorded
                                 /\ doomed'[j] \subseteq Recorded \ DueInWindow
    PROVE  BackupInv'
<1>1. Recorded' = Recorded /\ DueInWindow' = DueInWindow
  BY DEF Recorded, DueInWindow
<1>2. Recorded \subseteq Invocation
  BY RecordedByDay DEF BackupInv
<1>3. ChainsWellFormed'
  BY DEF BackupInv, ChainsWellFormed
<1>4. NamedHaveBegun'
  <2>1. \A d \in Day : \A j \in Named(events[d]) : j \in Invocation
    BY NamedTyped DEF BackupInv, BackupTypeOK
  <2> QED
    BY <2>1 DEF BackupInv, NamedHaveBegun
<1>5. WorkersOwn'
  BY DEF BackupInv, WorkersOwn
<1>6. RecordedHaveWorked'
  BY <1>1, <1>2 DEF BackupInv, RecordedHaveWorked
<1>7. CompletedAnswersRetain'
  BY DEF BackupInv, CompletedAnswersRetain
<1>8. UploadsUndisturbed'
  <2>1. \A j \in Recorded : point[j] \notin {"uploaded", "verified"}
    BY DEF BackupInv, RecordedHaveWorked, RetentionStages
  <2> QED
    BY <2>1 DEF BackupInv, UploadsUndisturbed
<1>9. ListsAreRecorded' /\ DoomedAreOut'
  BY <1>1 DEF ListsAreRecorded, DoomedAreOut
<1>10. CompletedKept'
  <2>1. DueInWindow \subseteq Recorded
    BY DEF DueInWindow
  <2> QED
    BY <1>1, <1>2, <2>1 DEF BackupInv, CompletedKept
<1> QED
  BY <1>3, <1>4, <1>5, <1>6, <1>7, <1>8, <1>9, <1>10 DEF BackupInv

\* A step of one invocation that replaces the history of its day.
LEMMA RecordingStep ==
    ASSUME BackupInv, BackupTypeOK', NEW i \in Invocation, NEW longer \in Seq(Event),
           WellFormed(DayOf[i], longer),
           events' = [events EXCEPT ![DayOf[i]] = longer],
           LatestIs(events[DayOf[i]], "COMPLETED") => longer = events[DayOf[i]],
           Named(longer) \subseteq Named(events[DayOf[i]]) \cup {i},
           UNCHANGED <<expired, bucket, seen, doomed>>,
           \A j \in Invocation \ {i} : point'[j] = point[j] /\ response'[j] = response[j],
           \A j \in Invocation \ {i} :
              Owns(j, events[DayOf[i]]) => j \in expired \/ Owns(j, longer),
           point'[i] \notin {"idle", "uploaded", "verified"},
           point'[i] \in WorkingStages => Owns(i, longer),
           LatestIs(longer, "COMPLETED") =>
              longer = events[DayOf[i]] \/ (LatestBy(longer) = i /\ point[i] = "verified"),
           i \in Recorded \/ LatestIs(longer, "COMPLETED") =>
              point'[i] \in RetentionStages \cup {"cleaning", "failing"},
           response'[i] = "COMPLETED" => point'[i] \in RetentionStages /\ i \in bucket
    PROVE  BackupInv'
<1> DEFINE d == DayOf[i]
<1>1. d \in Day
  BY DayIsTyped
<1>2. /\ ChainsWellFormed'
      /\ Recorded \subseteq Recorded'
      /\ \A o \in Recorded' \ Recorded :
            o = LatestBy(longer) /\ LatestIs(longer, "COMPLETED")
      /\ Recorded \cap DueInWindow' \subseteq DueInWindow
  BY <1>1, RecordingGrows DEF BackupInv
<1>3. \A o \in Recorded' \ Recorded : o = i /\ point[i] = "verified"
  <2>1. LatestIs(events[d], "COMPLETED") => LatestBy(events[d]) \in Recorded
    <3>1. ASSUME LatestIs(events[d], "COMPLETED") PROVE LatestBy(events[d]) \in Recorded
      <4>1. events[d] \in Seq(Event) /\ WellFormed(d, events[d])
        BY <1>1 DEF BackupInv, BackupTypeOK, ChainsWellFormed
      <4>2. LatestBy(events[d]) \in RecordedIn(events[d])
        BY <1>1, <3>1, <4>1, RecordedIsLatest
      <4> QED
        BY <1>1, <4>2 DEF Recorded
    <3> QED
      BY <3>1
  <2> QED
    BY <1>2, <2>1
<1>4. \A c \in Day : events'[c] = IF c = d THEN longer ELSE events[c]
  BY DEF BackupInv, BackupTypeOK
<1>5. Recorded' \subseteq Invocation
  BY <1>3, RecordedByDay DEF BackupInv
<1>6. NamedHaveBegun'
  <2>1. \A c \in Day : \A j \in Named(events[c]) : j \in Invocation
    BY NamedTyped DEF BackupInv, BackupTypeOK
  <2>2. \A c \in Day : Named(events'[c]) \subseteq Named(events[c]) \cup {i}
    BY <1>4
  <2> QED
    BY <2>1, <2>2 DEF BackupInv, NamedHaveBegun
<1>7. WorkersOwn'
  BY <1>4, DayIsTyped DEF BackupInv, WorkersOwn
<1>8. RecordedHaveWorked'
  <2>1. i \in Recorded' => point'[i] \in RetentionStages \cup {"cleaning", "failing"}
    BY <1>2
  <2> QED
    BY <1>3, <1>5, <2>1 DEF BackupInv, RecordedHaveWorked
<1>9. CompletedAnswersRetain'
  BY DEF BackupInv, CompletedAnswersRetain
<1>10. UploadsUndisturbed'
  BY DEF BackupInv, UploadsUndisturbed
<1>11. ListsAreRecorded'
  BY <1>2 DEF BackupInv, ListsAreRecorded
<1>12. DoomedAreOut'
  BY <1>2 DEF BackupInv, ListsAreRecorded, DoomedAreOut
<1>13. CompletedKept'
  <2>1. DueInWindow' \subseteq Recorded'
    BY DEF DueInWindow
  <2> QED
    BY <1>2, <1>3, <1>5, <2>1 DEF BackupInv, CompletedKept
<1> QED
  BY <1>2, <1>6, <1>7, <1>8, <1>9, <1>10, <1>11, <1>12, <1>13 DEF BackupInv

\* What retention marks for deletion is recorded and out of the window: the
\* newer objects it counts belong to as many newer recorded days.
LEMMA SurplusIsOut ==
    ASSUME BackupInv, NEW i \in Invocation
    PROVE  Excess(i) \subseteq Recorded \ DueInWindow
<1>1. Authoritative(i) \subseteq Recorded /\ Recorded \subseteq Invocation
  BY RecordedByDay DEF Authoritative, BackupInv, ListsAreRecorded
<1>2. \A p \in Recorded :
         DayOf[p] \in Day /\ LatestIs(events[DayOf[p]], "COMPLETED") /\ LatestBy(events[DayOf[p]]) = p
  BY RecordedByDay, DayIsTyped DEF BackupInv
<1>3. ASSUME NEW o \in Excess(i)
      PROVE  o \notin DueInWindow
  <2> DEFINE objects == Newer(i, o)
             days == NewerDays(DayOf[o])
             f == [p \in objects |-> DayOf[p]]
  <2>1. Cardinality(objects) >= Keep
    BY <1>3 DEF Excess
  <2>2. objects \subseteq Recorded
    BY <1>1 DEF Newer
  <2>3. \A p \in objects : DayOf[p] \in days
    BY <1>2, <2>2 DEF NewerDays, Newer
  <2>4. IsFiniteSet(days)
    BY DayIsFinite, FS_Subset DEF NewerDays
  <2>5. f \in Injection(objects, days)
    BY <1>2, <2>2, <2>3 DEF Injection, IsInjective
  <2>6. Cardinality(objects) <= Cardinality(days) /\ IsFiniteSet(objects)
    <3> HIDE DEF objects, days, f
    <3> QED
      BY <2>4, <2>5, FS_Injection
  <2>7. Cardinality(objects) \in Nat /\ Cardinality(days) \in Nat
    BY <2>4, <2>6, FS_CardinalityType
  <2>8. ~(Cardinality(days) < Keep)
    BY <2>1, <2>6, <2>7, KeepAssumption
  <2> QED
    BY <2>8 DEF DueInWindow, NewerDays
<1> QED
  BY <1>1, <1>3 DEF Excess

-----------------------------------------------------------------------------
(* The invariant holds.                                                    *)

LEMMA Initially == BackupInit => BackupInv
<1> SUFFICES ASSUME BackupInit PROVE BackupInv
  OBVIOUS
<1>1. \A d \in Day : events[d] = <<>>
  BY DEF BackupInit
<1>2. Recorded = {} /\ \A d \in Day : Named(events[d]) = {}
  BY <1>1 DEF Recorded, RecordedIn, Named
<1>3. BackupTypeOK
  BY DEF BackupInit, BackupTypeOK, BackupStage, BackupAnswer
<1>4. ChainsWellFormed
  BY <1>1 DEF ChainsWellFormed, WellFormed
<1>5. DueInWindow = {}
  BY <1>2 DEF DueInWindow
<1> QED
  BY <1>2, <1>3, <1>4, <1>5, NoAnswerAssumption DEF BackupInit, BackupInv, NamedHaveBegun, WorkersOwn,
     WorkingStages, RecordedHaveWorked, CompletedAnswersRetain, UploadsUndisturbed,
     ListsAreRecorded, DoomedAreOut, CompletedKept, BackupAnswer

LEMMA RecordTyped ==
    ASSUME BackupTypeOK, NEW i \in Invocation, NEW status \in Status, Record(i, status)
    PROVE  events' \in [Day -> Seq(Event)]
<1>1. Ev(status, i) \in Event
  BY DEF Ev, Event
<1>2. events[DayOf[i]] \in Seq(Event)
  BY DayIsTyped DEF BackupTypeOK
<1>3. Append(events[DayOf[i]], Ev(status, i)) \in Seq(Event)
  BY <1>1, <1>2
<1> QED
  BY <1>3 DEF Record, BackupTypeOK

LEMMA Preserved == BackupInv /\ [BackupNext]_backupVars => BackupInv'
<1> SUFFICES ASSUME BackupInv, [BackupNext]_backupVars PROVE BackupInv'
  OBVIOUS
<1>1. /\ BackupTypeOK /\ UploadsUndisturbed
      /\ Recorded \subseteq Invocation
      /\ \A i \in Recorded : point[i] \in RetentionStages \cup {"cleaning", "failing"}
      /\ \A i \in Invocation : response[i] = "COMPLETED" => point[i] \in RetentionStages
  BY RecordedByDay DEF BackupInv, RecordedHaveWorked, CompletedAnswersRetain
<1>2. \A i \in Invocation : /\ seen[i] \subseteq Recorded
                             /\ doomed[i] \subseteq Recorded \ DueInWindow
  BY DEF BackupInv, ListsAreRecorded, DoomedAreOut
<1>10. ASSUME NEW i \in Invocation, SnapshotFails(i) PROVE BackupInv'
  <2>1. BackupTypeOK'
    BY <1>10, <1>1 DEF SnapshotFails, Move, Reply, Forget, Pruning, BackupTypeOK, BackupStage, BackupAnswer
  <2> QED
    BY <1>10, <2>1, <1>1, <1>2, QuietStep
       DEF SnapshotFails, Move, Reply, Forget, Pruning, BackupTypeOK, WorkingStages, RetentionStages
<1>11. ASSUME NEW i \in Invocation, Upload(i) PROVE BackupInv'
  <2>1. BackupTypeOK'
    BY <1>11, <1>1 DEF Upload, Move, Reply, Forget, Pruning, BackupTypeOK, BackupStage, BackupAnswer
  <2> QED
    BY <1>11, <2>1, <1>1, <1>2, QuietStep
       DEF Upload, Move, Reply, Forget, Pruning, BackupTypeOK, WorkingStages, RetentionStages
<1>12. ASSUME NEW i \in Invocation, Verify(i) PROVE BackupInv'
  <2>1. BackupTypeOK'
    BY <1>12, <1>1 DEF Verify, Move, Reply, Forget, Pruning, BackupTypeOK, BackupStage, BackupAnswer
  <2> QED
    BY <1>12, <2>1, <1>1, <1>2, QuietStep
       DEF Verify, Move, Reply, Forget, Pruning, BackupTypeOK, WorkingStages, RetentionStages
<1>13. ASSUME NEW i \in Invocation, Discard(i) PROVE BackupInv'
  <2>1. BackupTypeOK'
    BY <1>13, <1>1 DEF Discard, Move, Reply, Forget, Pruning, BackupTypeOK, BackupStage, BackupAnswer
  <2> QED
    BY <1>13, <2>1, <1>1, <1>2, QuietStep
       DEF Discard, Move, Reply, Forget, Pruning, BackupTypeOK, WorkingStages, RetentionStages
<1>14. ASSUME NEW i \in Invocation, Clean(i) PROVE BackupInv'
  <2>1. BackupTypeOK'
    BY <1>14, <1>1 DEF Clean, Move, Reply, Forget, Pruning, BackupTypeOK, BackupStage, BackupAnswer
  <2> QED
    BY <1>14, <2>1, <1>1, <1>2, QuietStep
       DEF Clean, Move, Reply, Forget, Pruning, BackupTypeOK, WorkingStages, RetentionStages
<1>15. ASSUME NEW i \in Invocation, ListObjects(i) PROVE BackupInv'
  <2>1. BackupTypeOK'
    BY <1>15, <1>1, SurplusIsOut DEF ListObjects, Move, Reply, Forget, Pruning, BackupTypeOK, BackupStage, BackupAnswer
  <2> QED
    BY <1>15, <2>1, <1>1, <1>2, QuietStep, SurplusIsOut
       DEF ListObjects, Move, Reply, Forget, Pruning, BackupTypeOK, WorkingStages, RetentionStages
<1>16. ASSUME NEW i \in Invocation, Prune(i) PROVE BackupInv'
  <2>1. BackupTypeOK'
    BY <1>16, <1>1 DEF Prune, Move, Reply, Forget, Pruning, BackupTypeOK, BackupStage, BackupAnswer
  <2> QED
    BY <1>16, <2>1, <1>1, <1>2, QuietStep
       DEF Prune, Move, Reply, Forget, Pruning, BackupTypeOK, WorkingStages, RetentionStages
<1>17. ASSUME NEW i \in Invocation, Retained(i) PROVE BackupInv'
  <2>1. BackupTypeOK'
    BY <1>17, <1>1 DEF Retained, Move, Reply, Forget, Pruning, BackupTypeOK, BackupStage, BackupAnswer
  <2> QED
    BY <1>17, <2>1, <1>1, <1>2, QuietStep
       DEF Retained, Move, Reply, Forget, Pruning, BackupTypeOK, WorkingStages, RetentionStages
<1>18. ASSUME NEW i \in Invocation, ReadCompleted(i) PROVE BackupInv'
  <2>1. BackupTypeOK'
    BY <1>18, <1>1 DEF ReadCompleted, Move, Reply, Forget, Pruning, BackupTypeOK, BackupStage, BackupAnswer
  <2> QED
    BY <1>18, <2>1, <1>1, <1>2, QuietStep
       DEF ReadCompleted, Move, Reply, Forget, Pruning, BackupTypeOK, WorkingStages, RetentionStages
<1>19. ASSUME NEW i \in Invocation, CompleteFails(i) PROVE BackupInv'
  <2>1. BackupTypeOK'
    BY <1>19, <1>1 DEF CompleteFails, Move, Reply, Forget, Pruning, BackupTypeOK, BackupStage, BackupAnswer
  <2> QED
    BY <1>19, <2>1, <1>1, <1>2, QuietStep
       DEF CompleteFails, Move, Reply, Forget, Pruning, BackupTypeOK, WorkingStages, RetentionStages
<1>20. ASSUME NEW i \in Invocation, Die(i) PROVE BackupInv'
  <2>1. BackupTypeOK'
    BY <1>20, <1>1 DEF Die, Move, Reply, Forget, Pruning, BackupTypeOK, BackupStage, BackupAnswer
  <2> QED
    BY <1>20, <2>1, <1>1, <1>2, QuietStep
       DEF Die, Move, Reply, Forget, Pruning, BackupTypeOK, WorkingStages, RetentionStages
<1>21. ASSUME NEW i \in Invocation, point[i] = "idle",
               ReplayCompleted(i) \/ AwaitOther(i), UNCHANGED <<expired, bucket, Pruning>>
       PROVE  BackupInv'
  <2>1. BackupTypeOK'
    BY <1>21, <1>1 DEF ReplayCompleted, AwaitOther, Move, Reply, Pruning, BackupTypeOK, BackupStage, BackupAnswer
  <2>2. i \notin Recorded
    BY <1>21, <1>1 DEF RetentionStages
  <2> QED
    BY <1>21, <2>1, <2>2, <1>1, <1>2, QuietStep
       DEF ReplayCompleted, AwaitOther, Move, Reply, Pruning, BackupTypeOK, WorkingStages, RetentionStages
<1>22. ASSUME NEW i \in Invocation, point[i] = "idle",
               Start(i) \/ Exhausted(i), UNCHANGED <<expired, bucket, Pruning>>
       PROVE  BackupInv'
  <2> DEFINE d == DayOf[i]
             history == events[d]
             settled == Settled(history)
             started == Append(settled, Ev("STARTED", i))
  <2>1. d \in Day /\ history \in Seq(Event) /\ WellFormed(d, history) /\ i \notin Recorded
    BY <1>22, <1>1, DayIsTyped DEF BackupInv, BackupTypeOK, ChainsWellFormed, RetentionStages
  <2>2. /\ settled \in Seq(Event) /\ WellFormed(d, settled) /\ Named(settled) = Named(history)
        /\ LatestIs(history, "COMPLETED") => settled = history
        /\ LatestIs(settled, "COMPLETED") => LatestIs(history, "COMPLETED")
        /\ ~Stale(history) => settled = history
    BY <1>1, <2>1, SettledKeeps
  <2>3. Accepts(settled, "STARTED")
    BY <1>22 DEF Start, Exhausted
  <2>4. ~LatestIs(settled, "COMPLETED") /\ ~LatestIs(settled, "STARTED") /\ ~LatestIs(history, "COMPLETED")
    BY <2>2, <2>3 DEF Accepts, LatestIs
  <2>5. \A j \in Invocation : Owns(j, history) => j \in expired
    BY <2>2, <2>4 DEF Owns, Stale
  <2>6. CASE Start(i)
    <3>1. Ev("STARTED", i) \in Event /\ Ev("STARTED", i).by = i /\ Ev("STARTED", i).status = "STARTED"
      BY DEF Ev, Event, Status
    <3>2. started \in Seq(Event) /\ WellFormed(d, started)
      BY <2>1, <2>2, <2>3, <3>1, StartedKeeps
    <3>3. /\ Named(started) = Named(history) \cup {i}
          /\ LatestIs(started, "STARTED") /\ ~LatestIs(started, "COMPLETED")
          /\ LatestBy(started) = i
      <4> HIDE DEF settled
      <4> QED
        BY <2>2, <3>1, Appended
    <3>4. events' = [events EXCEPT ![d] = started] /\ Move(i, "reserved") /\ UNCHANGED response
      BY <2>6 DEF Start
    <3> HIDE DEF started, settled
    <3>5. BackupTypeOK'
      BY <1>1, <1>22, <3>2, <3>4 DEF BackupTypeOK, Move, Pruning, BackupStage
    <3>6. response[i] # "COMPLETED"
      BY <1>1, <1>22 DEF RetentionStages
    <3> QED
      BY <1>1, <1>22, <2>1, <2>4, <2>5, <3>2, <3>3, <3>4, <3>5, <3>6, RecordingStep
         DEF BackupTypeOK, Move, Pruning, WorkingStages, Owns
  <2>7. CASE Exhausted(i)
    <3>1. events' = [events EXCEPT ![d] = settled] /\ Reply(i, "FAILED") /\ Move(i, "done")
      BY <2>7 DEF Exhausted
    <3> HIDE DEF settled
    <3>2. BackupTypeOK'
      BY <1>1, <1>22, <2>2, <3>1 DEF BackupTypeOK, Move, Reply, Pruning, BackupStage, BackupAnswer
    <3> QED
      BY ZenonT(30), <1>1, <1>22, <2>1, <2>2, <2>4, <2>5, <3>1, <3>2, RecordingStep
         DEF BackupTypeOK, Move, Reply, Pruning, WorkingStages, RetentionStages
  <2> QED
    BY <1>22, <2>6, <2>7
<1>23. ASSUME NEW i \in Invocation, NEW status \in {"COMPLETED", "FAILED"},
               Owns(i, events[DayOf[i]]), Record(i, status),
               UNCHANGED <<expired, bucket, seen, doomed>>, BackupTypeOK',
               \A j \in Invocation \ {i} : point'[j] = point[j] /\ response'[j] = response[j],
               point'[i] \in RetentionStages \cup {"cleaning"},
               status = "COMPLETED" => point[i] = "verified",
               response'[i] = "COMPLETED" => point'[i] \in RetentionStages /\ i \in bucket
       PROVE  BackupInv'
  <2> DEFINE history == events[DayOf[i]]
             longer == Append(history, Ev(status, i))
  <2>1. DayOf[i] \in Day /\ history \in Seq(Event) /\ WellFormed(DayOf[i], history)
    BY <1>1, DayIsTyped DEF BackupInv, BackupTypeOK, ChainsWellFormed
  <2>2. Ev(status, i) \in Event /\ Ev(status, i).by = i /\ Ev(status, i).status = status
    BY DEF Ev, Event, Status
  <2>3. /\ longer \in Seq(Event)
        /\ Named(longer) = Named(history) \cup {i}
        /\ LatestIs(longer, "COMPLETED") <=> "COMPLETED" = status
        /\ LatestBy(longer) = i
    BY <2>1, <2>2, Appended
  <2>4. WellFormed(DayOf[i], longer)
    BY <1>23, <2>1, TerminalKeeps
  <2>5. events' = [events EXCEPT ![DayOf[i]] = longer]
    BY <1>23 DEF Record
  <2>6. ~LatestIs(history, "COMPLETED") /\ \A j \in Invocation \ {i} : ~Owns(j, history)
    BY <1>23 DEF Owns, LatestIs
  <2>7. point'[i] \notin {"idle", "uploaded", "verified"} /\ point'[i] \notin WorkingStages
    BY <1>23 DEF RetentionStages, WorkingStages
  <2> HIDE DEF longer
  <2> QED
    BY <1>23, <2>3, <2>4, <2>5, <2>6, <2>7, RecordingStep
<1>24. ASSUME NEW i \in Invocation, Complete(i) PROVE BackupInv'
  <2>1. BackupTypeOK'
    <3>1. events' \in [Day -> Seq(Event)]
      BY <1>24, <1>1, RecordTyped DEF Complete, Status
    <3> QED
      BY <1>24, <1>1, <3>1 DEF Complete, Move, Reply, Pruning, BackupTypeOK, BackupStage, BackupAnswer
  <2>2. i \in bucket /\ response[i] # "COMPLETED"
    BY <1>24, <1>1 DEF Complete, UploadsUndisturbed, RetentionStages
  <2> QED
    BY <1>24, <1>1, <2>1, <2>2, <1>23 DEF Complete, Move, Reply, Pruning, BackupTypeOK, RetentionStages
<1>25. ASSUME NEW i \in Invocation, Fail(i) PROVE BackupInv'
  <2>1. BackupTypeOK'
    <3>1. events' \in [Day -> Seq(Event)]
      BY <1>25, <1>1, RecordTyped DEF Fail, Status, BackupTypeOK
    <3> QED
      BY <1>25, <1>1, <3>1 DEF Fail, Move, Reply, Pruning, BackupTypeOK, BackupStage, BackupAnswer
  <2>2. CASE Owns(i, events[DayOf[i]])
    BY <1>25, <1>1, <2>1, <2>2, <1>23 DEF Fail, Move, Reply, Pruning, BackupTypeOK, RetentionStages
  <2>3. CASE ~Owns(i, events[DayOf[i]])
    BY <1>25, <1>1, <1>2, <2>1, <2>3, QuietStep
       DEF Fail, Move, Reply, Pruning, BackupTypeOK, WorkingStages, RetentionStages
  <2> QED
    BY <2>2, <2>3
<1>26. ASSUME NEW i \in Invocation, Expire(i) PROVE BackupInv'
  <2>1. Recorded' = Recorded /\ DueInWindow' = DueInWindow
    BY <1>26 DEF Expire, Recorded, DueInWindow
  <2>2. BackupTypeOK'
    BY <1>26, <1>1 DEF Expire, Pruning, BackupTypeOK
  <2> QED
    BY <1>26, <2>1, <2>2 DEF Expire, Pruning, BackupInv, ChainsWellFormed, NamedHaveBegun,
       WorkersOwn, RecordedHaveWorked, CompletedAnswersRetain, UploadsUndisturbed,
       ListsAreRecorded, DoomedAreOut, CompletedKept
<1>27. CASE UNCHANGED backupVars
  <2>1. Recorded' = Recorded /\ DueInWindow' = DueInWindow
    BY <1>27 DEF backupVars, Recorded, DueInWindow
  <2> QED
    BY <1>27, <2>1 DEF backupVars, BackupInv, BackupTypeOK, ChainsWellFormed, NamedHaveBegun,
       WorkersOwn, RecordedHaveWorked, CompletedAnswersRetain, UploadsUndisturbed,
       ListsAreRecorded, DoomedAreOut, CompletedKept
<1> QED
  BY <1>10, <1>11, <1>12, <1>13, <1>14, <1>15, <1>16, <1>17, <1>18, <1>19, <1>20, <1>21, <1>22,
     <1>24, <1>25, <1>26, <1>27 DEF BackupNext, BackupStep, ReserveExecution

-----------------------------------------------------------------------------
(* What holds in every reachable state.                                    *)

LEMMA InvariantHolds == BackupSpec => []BackupInv
BY Initially, Preserved, PTL DEF BackupSpec

LEMMA BackupInvGives == BackupInv => BackupTypeOK /\ OneUploadPerDay /\ OutcomeIsOwn /\ UploadsUndisturbed /\ CompletedKept
<1> SUFFICES ASSUME BackupInv
             PROVE  BackupTypeOK /\ OneUploadPerDay /\ OutcomeIsOwn /\ UploadsUndisturbed /\ CompletedKept
  OBVIOUS
<1>1. OneUploadPerDay
  BY DEF BackupInv, WorkersOwn, WorkingStages, OneUploadPerDay, Working, Owns
<1>2. OutcomeIsOwn
  BY DEF BackupInv, ChainsWellFormed, WellFormed, OutcomeIsOwn
<1> QED
  BY <1>1, <1>2 DEF BackupInv

\* The variables keep their types, whatever the number of invocations.
THEOREM BackupTypes == BackupSpec => []BackupTypeOK
BY InvariantHolds, BackupInvGives, PTL

\* runDatabaseBackup's guarantee: no two invocations whose reservations are
\* fresh ever work on one day's upload.
THEOREM OneUpload == BackupSpec => []OneUploadPerDay
BY InvariantHolds, BackupInvGives, PTL

\* finalizeExecution and the insert trigger together attribute every outcome
\* to the execution it belongs to.
THEOREM OutcomesAreOwn == BackupSpec => []OutcomeIsOwn
BY InvariantHolds, BackupInvGives, PTL

\* No cleanup and no retention run removes an upload that is still in use.
THEOREM UploadsStay == BackupSpec => []UploadsUndisturbed
BY InvariantHolds, BackupInvGives, PTL

\* A backup that was answered COMPLETED keeps its object until Keep newer days
\* are recorded, whatever the retention runs of other days read before.
THEOREM CompletedBackupsStay == BackupSpec => []CompletedKept
BY InvariantHolds, BackupInvGives, PTL

\* For any number of invocations, days and interleaved retention runs, a day
\* has one upload at a time, outcomes are recorded against their own
\* executions, and objects in use or within the window are in the bucket.
THEOREM BackupsStayInStep == BackupSpec => []BackupsInStep
BY OneUpload, OutcomesAreOwn, UploadsStay, CompletedBackupsStay, PTL DEF BackupsInStep

-----------------------------------------------------------------------------
(***************************************************************************)
(* Proofs about NotificationDispatch, for any number of overlapping runs,  *)
(* events, devices and attempts.  The invariant DispatchInv ties a run     *)
(* between its two transactions to the dispatch it reserved, and says what *)
(* a new dispatch rests on: every earlier one of the delivery was answered *)
(* and may be retried.  An accepted push is never recorded as that, so no  *)
(* dispatch follows it, whichever run writes down its fate.                *)
(***************************************************************************)

-----------------------------------------------------------------------------
(* The invariant.                                                          *)

\* A run between its two transactions has reserved a dispatch.
Holds(r) == scheduler[r].stage \in {"reserved", "answered"}
HeldBy(r, x, n) == Holds(r) /\ scheduler[r].at = x /\ scheduler[r].dispatch = n

RecordedAs(x, n, status) ==
    \E i \in DOMAIN attempts[x] : attempts[x][i].dispatch = n /\ attempts[x][i].status = status
Called(x, n, outcome) ==
    \E j \in DOMAIN pushes : /\ pushes[j].delivery = x /\ pushes[j].dispatch = n
                             /\ pushes[j].outcome = outcome
Retired(d, revision) == <<d, revision>> \in gone

\* A dispatch goes to a revision that was active, one per hour, and the next
\* one needs a retryable answer to it.
DispatchesInTurn ==
    \A x \in Delivery :
        /\ \A n \in DOMAIN dispatches[x] : dispatches[x][n].revision \in 1..MaxRevision
        /\ \A m, n \in DOMAIN dispatches[x] : m # n => dispatches[x][m].slot # dispatches[x][n].slot
        /\ \A n \in 1..(Len(dispatches[x]) - 1) : RecordedAs(x, n, "RETRYABLE")
AttemptsInTurn ==
    \A x \in Delivery : \A i \in 1..(Len(attempts[x]) - 1) : attempts[x][i].status = "RETRYABLE"

PushesDispatched ==
    /\ \A j \in DOMAIN pushes :
          /\ pushes[j].dispatch \in DOMAIN dispatches[pushes[j].delivery]
          /\ pushes[j].slot = dispatches[pushes[j].delivery][pushes[j].dispatch].slot
    /\ \A i, j \in DOMAIN pushes : i # j /\ pushes[i].delivery = pushes[j].delivery
                                   => pushes[i].dispatch # pushes[j].dispatch
    /\ \A x \in Delivery : \A n \in DOMAIN dispatches[x] : Called(x, n, "SUCCESS") => ~RecordedAs(x, n, "RETRYABLE")

ActiveInBound == \A d \in Device : device[d].active => device[d].no <= MaxRevision

Owners ==
    /\ \A r \in Run : Holds(r) => /\ scheduler[r].at \in Delivery
                                  /\ scheduler[r].dispatch \in DOMAIN dispatches[scheduler[r].at]
                                  /\ ~RecordedAs(scheduler[r].at, scheduler[r].dispatch, "RETRYABLE")
    /\ \A r, s \in Run : r # s /\ Holds(r) /\ Holds(s) /\ scheduler[r].at = scheduler[s].at
                         => scheduler[r].dispatch # scheduler[s].dispatch
Uncalled ==
    \A r \in Run : scheduler[r].stage = "reserved" =>
        \A outcome \in Outcome : ~Called(scheduler[r].at, scheduler[r].dispatch, outcome)
Answers ==
    \A r \in Run : scheduler[r].stage = "answered" =>
        LET x == scheduler[r].at
            n == scheduler[r].dispatch
        IN  /\ scheduler[r].outcome # "CONFIG" => Called(x, n, scheduler[r].outcome)
            /\ \A outcome \in Outcome : Called(x, n, outcome) => outcome = scheduler[r].outcome
            /\ scheduler[r].outcome = "GONE" => Retired(x[2], dispatches[x][n].revision)

Histories == /\ dispatches = [x \in Delivery |-> dispatches[x]]
             /\ attempts = [x \in Delivery |-> attempts[x]]

DispatchInv ==
    /\ DispatchTypeOK
    /\ Histories
    /\ DispatchesInTurn
    /\ AttemptsInTurn
    /\ PushesDispatched
    /\ ActiveInBound
    /\ Owners
    /\ Uncalled
    /\ Answers
    /\ SuccessIsReal
    /\ LiveEndpointKept

-----------------------------------------------------------------------------
(* The chains of a delivery.                                               *)

DispatchRow == [slot : Nat, revision : 1..(MaxRevision + 1)]
AttemptRow == [status : AttemptStatus, dispatch : Nat]
RunRow == [stage : {"idle", "scanning", "reserved", "answered", "ended"},
           events : SUBSET DueEvent, todo : SUBSET Delivery,
           at : Delivery \cup {NoPair}, dispatch : Nat, outcome : Outcome]
DeviceRow == [no : 1..(MaxRevision + 1), active : BOOLEAN, reason : {"none", "user", "gone"}]
PushRow == [delivery : Delivery, dispatch : Nat, slot : Nat, outcome : Outcome]

LEMMA ChainTypes ==
    ASSUME DispatchTypeOK, NEW x \in Delivery
    PROVE  /\ dispatches[x] \in Seq(DispatchRow) /\ attempts[x] \in Seq(AttemptRow)
           /\ Len(dispatches[x]) \in Nat /\ DOMAIN dispatches[x] = 1..Len(dispatches[x])
           /\ Len(attempts[x]) \in Nat /\ DOMAIN attempts[x] = 1..Len(attempts[x])
           /\ \A n \in DOMAIN dispatches[x] : dispatches[x][n] \in DispatchRow
           /\ \A i \in DOMAIN attempts[x] : /\ attempts[x][i] \in AttemptRow
                                            /\ attempts[x][i].dispatch \in 0..Len(dispatches[x])
<1>1. /\ dispatches[x] \in Seq(DispatchRow) /\ attempts[x] \in Seq(AttemptRow)
      /\ \A i \in DOMAIN attempts[x] : attempts[x][i].dispatch \in 0..Len(dispatches[x])
  BY DEF DispatchTypeOK, DispatchRow, AttemptRow
<1>2. /\ Len(dispatches[x]) \in Nat /\ dispatches[x] \in [1..Len(dispatches[x]) -> DispatchRow]
      /\ Len(attempts[x]) \in Nat /\ attempts[x] \in [1..Len(attempts[x]) -> AttemptRow]
  BY <1>1, LenProperties
<1> QED
  BY <1>1, <1>2

\* At most the last dispatch of a delivery has no result, so that a settlement
\* adds at most one attempt, which ends the chain.
LEMMA Settling ==
    ASSUME DispatchInv, NEW x \in Delivery, NEW slot
    PROVE  LET n == Len(dispatches[x])
           IN  \/ StaleDispatches(x, slot) = {} /\ SettledHistory(x, slot) = attempts[x]
               \/ /\ n \in DOMAIN dispatches[x] /\ StaleDispatches(x, slot) = {n}
                  /\ SettledHistory(x, slot) =
                         Append(attempts[x], [status |-> "TERMINAL", dispatch |-> n])
<1> DEFINE n == Len(dispatches[x])
           S == StaleDispatches(x, slot)
           last == [status |-> "TERMINAL", dispatch |-> n]
           more == [i \in 1..Cardinality(S) |-> [status |-> "TERMINAL", dispatch |-> Nth(S, i)]]
<1>1. /\ n \in Nat /\ DOMAIN dispatches[x] = 1..n /\ attempts[x] \in Seq(AttemptRow)
  BY ChainTypes DEF DispatchInv
<1>2. S \subseteq {n} /\ S \subseteq DOMAIN dispatches[x]
  <2>1. SUFFICES ASSUME NEW m \in S PROVE m = n /\ m \in DOMAIN dispatches[x]
    OBVIOUS
  <2>2. /\ m \in DOMAIN dispatches[x]
        /\ \A i \in DOMAIN attempts[x] : attempts[x][i].dispatch # m
    BY <2>1 DEF StaleDispatches, Unresolved
  <2>3. ~RecordedAs(x, m, "RETRYABLE")
    BY <2>2 DEF RecordedAs
  <2>4. m \notin 1..(n - 1)
    BY <2>3 DEF DispatchInv, DispatchesInTurn
  <2> QED
    BY <1>1, <2>2, <2>4
<1>3. SettledHistory(x, slot) = attempts[x] \o more
  BY DEF SettledHistory, SettledAs
<1>4. CASE S = {}
  <2>1. Cardinality(S) = 0
    BY <1>4, FS_EmptySet
  <2>2. more = <<>>
    <3> HIDE DEF S
    <3> QED
      BY <2>1
  <2> QED
    BY <1>1, <1>3, <1>4, <2>2, ConcatEmptySeq
<1>5. CASE S # {}
  <2>1. S = {n} /\ n \in DOMAIN dispatches[x]
    BY <1>2, <1>5
  <2>2. Cardinality(S) = 1
    BY <2>1, FS_Singleton
  <2>3. Nth(S, 1) = n
    <3>1. {m \in S : m < n} = {}
      BY <1>1, <2>1
    <3>2. Cardinality({m \in S : m < n}) = 0
      BY <3>1, FS_EmptySet
    <3> HIDE DEF S
    <3> QED
      BY <2>1, <3>2 DEF Nth
  <2>4. more = <<last>>
    <3> HIDE DEF S
    <3> QED
      BY <2>2, <2>3
  <2>5. last \in AttemptRow
    BY <1>1 DEF AttemptRow, AttemptStatus, Final
  <2>6. attempts[x] \o more = Append(attempts[x], last)
    BY <1>1, <2>4, <2>5, AppendIsConcat
  <2> QED
    BY <1>3, <2>1, <2>6
<1> QED
  BY <1>4, <1>5

\* What an attempt adds to the record of its delivery.
LEMMA Appending ==
    ASSUME DispatchTypeOK, Histories, NEW x \in Delivery, NEW a \in AttemptRow,
           attempts' = [attempts EXCEPT ![x] = Append(attempts[x], a)]
    PROVE  /\ attempts' = [y \in Delivery |-> attempts'[y]]
           /\ \A y \in Delivery : y # x => attempts'[y] = attempts[y]
           /\ attempts'[x] \in Seq(AttemptRow) /\ Len(attempts'[x]) = Len(attempts[x]) + 1
           /\ DOMAIN attempts'[x] = 1..(Len(attempts[x]) + 1)
           /\ \A i \in DOMAIN attempts[x] : attempts'[x][i] = attempts[x][i]
           /\ attempts'[x][Len(attempts[x]) + 1] = a
           /\ \A y \in Delivery : \A n, s :
                 RecordedAs(y, n, s)' <=> RecordedAs(y, n, s) \/ (y = x /\ n = a.dispatch /\ s = a.status)
<1>1. /\ attempts[x] \in Seq(AttemptRow)
      /\ Len(attempts[x]) \in Nat /\ DOMAIN attempts[x] = 1..Len(attempts[x])
  BY ChainTypes
<1>2. /\ attempts' = [y \in Delivery |-> attempts'[y]] /\ attempts'[x] = Append(attempts[x], a)
      /\ \A y \in Delivery : y # x => attempts'[y] = attempts[y]
  BY DEF Histories
<1>3. /\ attempts'[x] \in Seq(AttemptRow) /\ Len(attempts'[x]) = Len(attempts[x]) + 1
      /\ \A i \in 1..Len(attempts[x]) : attempts'[x][i] = attempts[x][i]
      /\ attempts'[x][Len(attempts[x]) + 1] = a
  BY <1>1, <1>2, AppendProperties
<1>4. DOMAIN attempts'[x] = 1..(Len(attempts[x]) + 1)
  BY <1>3, LenProperties
<1>5. ASSUME NEW y \in Delivery, NEW n, NEW s
      PROVE  RecordedAs(y, n, s)' <=> RecordedAs(y, n, s) \/ (y = x /\ n = a.dispatch /\ s = a.status)
  <2>1. CASE y # x
    BY <1>2, <2>1 DEF RecordedAs
  <2>2. CASE y = x
    <3>1. RecordedAs(x, n, s)' <=> \E i \in 1..(Len(attempts[x]) + 1) :
              attempts'[x][i].dispatch = n /\ attempts'[x][i].status = s
      BY <1>4 DEF RecordedAs
    <3>2. RecordedAs(x, n, s) <=> \E i \in 1..Len(attempts[x]) :
              attempts[x][i].dispatch = n /\ attempts[x][i].status = s
      BY <1>1 DEF RecordedAs
    <3>3. \A i : i \in 1..(Len(attempts[x]) + 1) <=> i \in 1..Len(attempts[x]) \/ i = Len(attempts[x]) + 1
      BY <1>1
    <3> QED
      BY <1>3, <2>2, <3>1, <3>2, <3>3
  <2> QED
    BY <2>1, <2>2
<1> QED
  BY <1>1, <1>2, <1>3, <1>4, <1>5

-----------------------------------------------------------------------------
(* What the record of attempts keeps.                                      *)

\* An attempt that follows the chain of its delivery and tells of its dispatch
\* what the push service answered, or that nobody knows.
LEMMA AttemptsKeep ==
    ASSUME DispatchInv, NEW x \in Delivery, NEW a \in AttemptRow,
           a.dispatch \in 0..Len(dispatches[x]), Appendable(x),
           attempts' = [attempts EXCEPT ![x] = Append(attempts[x], a)],
           UNCHANGED <<dispatches, pushes>>,
           a.status = "SUCCESS" => Called(x, a.dispatch, "SUCCESS"),
           a.status = "RETRYABLE" => ~Called(x, a.dispatch, "SUCCESS")
    PROVE  /\ Histories' /\ DispatchesInTurn' /\ AttemptsInTurn' /\ PushesDispatched' /\ SuccessIsReal'
           /\ \A y \in Delivery : /\ attempts'[y] \in Seq(AttemptRow)
                                  /\ \A i \in DOMAIN attempts'[y] :
                                        attempts'[y][i].dispatch \in 0..Len(dispatches[y])
<1>1. /\ attempts' = [y \in Delivery |-> attempts'[y]]
      /\ \A y \in Delivery : y # x => attempts'[y] = attempts[y]
      /\ attempts'[x] \in Seq(AttemptRow) /\ Len(attempts'[x]) = Len(attempts[x]) + 1
      /\ DOMAIN attempts'[x] = 1..(Len(attempts[x]) + 1)
      /\ \A i \in DOMAIN attempts[x] : attempts'[x][i] = attempts[x][i]
      /\ attempts'[x][Len(attempts[x]) + 1] = a
  BY Appending DEF DispatchInv
<1>2. \A y \in Delivery : \A n, s :
          RecordedAs(y, n, s)' <=> RecordedAs(y, n, s) \/ (y = x /\ n = a.dispatch /\ s = a.status)
  BY Appending DEF DispatchInv
<1>3. /\ Len(attempts[x]) \in Nat /\ DOMAIN attempts[x] = 1..Len(attempts[x])
      /\ \A y \in Delivery : /\ attempts[y] \in Seq(AttemptRow)
                             /\ \A i \in DOMAIN attempts[y] :
                                   attempts[y][i].dispatch \in 0..Len(dispatches[y])
  BY ChainTypes DEF DispatchInv
<1>4. Histories'
  BY <1>1 DEF Histories, DispatchInv
<1>5. DispatchesInTurn'
  BY <1>2 DEF DispatchInv, DispatchesInTurn
<1>6. AttemptsInTurn'
  <2>1. \A i \in 1..(Len(attempts[x]) - 1) : attempts[x][i].status = "RETRYABLE"
    BY DEF DispatchInv, AttemptsInTurn
  <2>2. Len(attempts[x]) > 0 => attempts[x][Len(attempts[x])].status = "RETRYABLE"
    <3>1. Len(attempts[x]) > 0 => attempts[x] # <<>>
      BY EmptySeq
    <3> QED
      BY <3>1 DEF Appendable, Last
  <2>3. \A i \in 1..Len(attempts[x]) : attempts'[x][i].status = "RETRYABLE"
    BY <1>1, <1>3, <2>1, <2>2
  <2>4. \A i \in 1..(Len(attempts'[x]) - 1) : attempts'[x][i].status = "RETRYABLE"
    BY <1>1, <1>3, <2>3
  <2>5. \A y \in Delivery : y # x =>
            \A i \in 1..(Len(attempts'[y]) - 1) : attempts'[y][i].status = "RETRYABLE"
    BY <1>1 DEF DispatchInv, AttemptsInTurn
  <2> QED
    BY <2>4, <2>5 DEF AttemptsInTurn
<1>7. PushesDispatched'
  <2>1. \A y, n, o : Called(y, n, o)' <=> Called(y, n, o)
    BY DEF Called
  <2>2. \A y \in Delivery : \A n \in DOMAIN dispatches[y] :
            Called(y, n, "SUCCESS")' => ~RecordedAs(y, n, "RETRYABLE")'
    BY <1>2, <2>1 DEF DispatchInv, PushesDispatched
  <2> QED
    BY <2>2 DEF DispatchInv, PushesDispatched
<1>8. SuccessIsReal'
  <2>1. SUFFICES ASSUME NEW y \in Delivery, NEW i \in DOMAIN attempts'[y],
                        attempts'[y][i].status = "SUCCESS"
                 PROVE  Called(y, attempts'[y][i].dispatch, "SUCCESS")
    BY DEF SuccessIsReal, Called
  <2>2. CASE i \in DOMAIN attempts[y] /\ attempts'[y][i] = attempts[y][i]
    BY <2>1, <2>2 DEF DispatchInv, SuccessIsReal, Called
  <2>3. CASE y = x /\ attempts'[y][i] = a
    BY <2>1, <2>3
  <2> QED
    BY <1>1, <1>3, <2>1, <2>2, <2>3
<1>9. \A y \in Delivery : /\ attempts'[y] \in Seq(AttemptRow)
                          /\ \A i \in DOMAIN attempts'[y] :
                                attempts'[y][i].dispatch \in 0..Len(dispatches[y])
  <2>1. \A i \in DOMAIN attempts'[x] : attempts'[x][i].dispatch \in 0..Len(dispatches[x])
    BY <1>1, <1>3
  <2> QED
    BY <1>1, <1>3, <2>1
<1> QED
  BY <1>4, <1>5, <1>6, <1>7, <1>8, <1>9

\* Nothing of the three changes.
LEMMA RecordsKeep ==
    ASSUME DispatchInv, UNCHANGED <<dispatches, attempts, pushes>>
    PROVE  Histories' /\ DispatchesInTurn' /\ AttemptsInTurn' /\ PushesDispatched' /\ SuccessIsReal'
BY DEF DispatchInv, Histories, DispatchesInTurn, AttemptsInTurn, PushesDispatched, SuccessIsReal,
       RecordedAs, Called

\* A run that holds a dispatch is where it was.
Stays(r) == /\ scheduler'[r].stage = scheduler[r].stage /\ scheduler'[r].at = scheduler[r].at
            /\ scheduler'[r].dispatch = scheduler[r].dispatch
            /\ scheduler'[r].outcome = scheduler[r].outcome

LEMMA HoldersKeep ==
    ASSUME DispatchInv, UNCHANGED <<dispatches, pushes, gone>>,
           \A r \in Run : Holds(r)' => Stays(r),
           \A r \in Run : Holds(r)' =>
               ~RecordedAs(scheduler[r].at, scheduler[r].dispatch, "RETRYABLE")'
    PROVE  Owners' /\ Uncalled' /\ Answers'
<1>1. \A r \in Run : Holds(r)' => Holds(r)
  BY DEF Holds, Stays
<1>2. Owners'
  <2>1. ASSUME NEW r \in Run, Holds(r)'
        PROVE  /\ scheduler'[r].at \in Delivery
               /\ scheduler'[r].dispatch \in DOMAIN dispatches'[scheduler'[r].at]
               /\ ~RecordedAs(scheduler[r].at, scheduler[r].dispatch, "RETRYABLE")'
               /\ scheduler'[r].at = scheduler[r].at /\ scheduler'[r].dispatch = scheduler[r].dispatch
    BY <1>1, <2>1 DEF DispatchInv, Owners, Stays
  <2>2. \A r, s \in Run : r # s /\ Holds(r)' /\ Holds(s)' /\ scheduler'[r].at = scheduler'[s].at
                          => scheduler'[r].dispatch # scheduler'[s].dispatch
    BY <1>1, <2>1 DEF DispatchInv, Owners
  <2> QED
    BY <2>1, <2>2 DEF Owners
<1>3. Uncalled'
  <2>1. SUFFICES ASSUME NEW r \in Run, scheduler'[r].stage = "reserved", NEW outcome \in Outcome
                 PROVE  ~Called(scheduler'[r].at, scheduler'[r].dispatch, outcome)
    BY DEF Uncalled, Called
  <2>2. Stays(r)
    BY <2>1 DEF Holds
  <2>3. ~Called(scheduler[r].at, scheduler[r].dispatch, outcome)
    BY <2>1, <2>2 DEF DispatchInv, Uncalled, Stays
  <2> QED
    BY <2>2, <2>3 DEF Stays
<1>4. Answers'
  <2>1. SUFFICES ASSUME NEW r \in Run, scheduler'[r].stage = "answered"
                 PROVE  LET x == scheduler'[r].at
                            n == scheduler'[r].dispatch
                        IN  /\ scheduler'[r].outcome # "CONFIG" => Called(x, n, scheduler'[r].outcome)
                            /\ \A outcome \in Outcome :
                                  Called(x, n, outcome) => outcome = scheduler'[r].outcome
                            /\ scheduler'[r].outcome = "GONE" =>
                                  Retired(x[2], dispatches[x][n].revision)
    BY DEF Answers, Called, Retired
  <2>2. Stays(r)
    BY <2>1 DEF Holds
  <2>3. scheduler[r].stage = "answered"
    BY <2>1, <2>2 DEF Stays
  <2> QED
    BY <2>2, <2>3 DEF DispatchInv, Answers, Stays
<1> QED
  BY <1>2, <1>3, <1>4

-----------------------------------------------------------------------------
(* Types.                                                                  *)

LEMMA Typed ==
    DispatchTypeOK <=>
        /\ open \subseteq DueEvent /\ device \in [Device -> DeviceRow]
        /\ \A x \in Delivery : /\ dispatches[x] \in Seq(DispatchRow)
                               /\ attempts[x] \in Seq(AttemptRow)
                               /\ \A i \in DOMAIN attempts[x] :
                                     attempts[x][i].dispatch \in 0..Len(dispatches[x])
        /\ scheduler \in [Run -> RunRow] /\ pushes \in Seq(PushRow)
        /\ gone \subseteq Device \X Nat
BY DEF DispatchTypeOK, DispatchRow, AttemptRow, RunRow, DeviceRow, PushRow

\* A run that ends, or goes on to the next pair, holds no dispatch.
LEMMA Leaves ==
    ASSUME DispatchTypeOK, NEW r \in Run, NEW x, End(r) \/ Scan(r, x)
    PROVE  /\ scheduler' \in [Run -> RunRow]
           /\ scheduler'[r].stage \in {"ended", "scanning"}
           /\ \A s \in Run \ {r} : scheduler'[s] = scheduler[s]
<1>1. scheduler \in [Run -> RunRow]
  BY Typed
<1>2. scheduler[r] \in RunRow
  BY <1>1
<1>3. CASE End(r)
  <2>1. Idle \in RunRow
    BY DEF Idle, RunRow, Outcome
  <2>2. scheduler' = [scheduler EXCEPT ![r] = Idle] /\ Idle.stage = "ended"
    BY <1>3 DEF End, Idle
  <2> QED
    BY <1>1, <2>1, <2>2
<1>4. CASE Scan(r, x)
  <2> DEFINE next == [scheduler[r] EXCEPT !.stage = "scanning", !.todo = @ \ {x}, !.at = NoPair,
                                          !.dispatch = 0, !.outcome = "CONFIG"]
  <2>1. next \in RunRow /\ next.stage = "scanning"
    BY <1>2 DEF RunRow, Outcome
  <2>2. scheduler' = [scheduler EXCEPT ![r] = next]
    BY <1>1, <1>4 DEF Scan
  <2> HIDE DEF next
  <2> QED
    BY <1>1, <2>1, <2>2
<1> QED
  BY <1>3, <1>4

\* A run that leaves its dispatch and an attempt that is not retryable, or is
\* of that dispatch, disturb no other run.
LEMMA LeavingKeeps ==
    ASSUME DispatchInv, NEW r \in Run, UNCHANGED <<dispatches, pushes, gone>>,
           scheduler'[r].stage \in {"ended", "scanning"},
           \A s \in Run \ {r} : scheduler'[s] = scheduler[s],
           \A s \in Run \ {r} : Holds(s) =>
               (RecordedAs(scheduler[s].at, scheduler[s].dispatch, "RETRYABLE")'
                => RecordedAs(scheduler[s].at, scheduler[s].dispatch, "RETRYABLE"))
    PROVE  Owners' /\ Uncalled' /\ Answers'
<1>1. \A s \in Run : Holds(s)' => Stays(s) /\ s # r /\ Holds(s)
  BY DEF Holds, Stays
<1>2. \A s \in Run : Holds(s)' =>
          ~RecordedAs(scheduler[s].at, scheduler[s].dispatch, "RETRYABLE")'
  BY <1>1 DEF DispatchInv, Owners
<1> QED
  BY <1>1, <1>2, HoldersKeep

\* A step that concerns neither dispatches nor attempts nor pushes.
LEMMA QuietKeeps ==
    ASSUME DispatchInv, UNCHANGED <<dispatches, attempts, pushes, gone>>, open' \subseteq DueEvent,
           device' \in [Device -> DeviceRow], ActiveInBound', LiveEndpointKept',
           scheduler' \in [Run -> RunRow], \A r \in Run : Holds(r)' => Stays(r)
    PROVE  DispatchInv'
<1>1. DispatchTypeOK'
  BY Typed DEF DispatchInv, DispatchTypeOK, DispatchRow, AttemptRow, RunRow, DeviceRow, PushRow
<1>2. \A r \in Run : Holds(r)' =>
          ~RecordedAs(scheduler[r].at, scheduler[r].dispatch, "RETRYABLE")'
  BY DEF DispatchInv, Owners, RecordedAs, Stays, Holds
<1> QED
  BY <1>1, <1>2, RecordsKeep, HoldersKeep DEF DispatchInv

-----------------------------------------------------------------------------
(* The actions.                                                            *)

LEMMA InitHolds == DispatchInit => DispatchInv
<1> SUFFICES ASSUME DispatchInit PROVE DispatchInv
  OBVIOUS
<1> USE DispatchAssumption DEF DispatchInit
<1>1. /\ \A x \in Delivery : dispatches[x] = <<>> /\ attempts[x] = <<>>
      /\ DOMAIN <<>> = {} /\ Len(<<>>) = 0 /\ pushes = <<>>
      /\ \A r \in Run : scheduler[r].stage = "idle"
  OBVIOUS
<1>2. DispatchTypeOK
  <2>1. <<>> \in Seq(DispatchRow) /\ <<>> \in Seq(AttemptRow) /\ <<>> \in Seq(PushRow)
    BY EmptySeq
  <2>2. device \in [Device -> DeviceRow] /\ scheduler \in [Run -> RunRow]
    BY DEF DeviceRow, RunRow, Outcome
  <2> QED
    BY <1>1, <2>1, <2>2, Typed
<1>3. Histories /\ DispatchesInTurn /\ AttemptsInTurn
  BY <1>1 DEF Histories, DispatchesInTurn, AttemptsInTurn
<1>4. PushesDispatched /\ SuccessIsReal
  BY <1>1 DEF PushesDispatched, SuccessIsReal, Called
<1>5. ActiveInBound /\ LiveEndpointKept
  BY DEF ActiveInBound, LiveEndpointKept
<1>6. Owners /\ Uncalled /\ Answers
  BY <1>1 DEF Owners, Uncalled, Answers, Holds
<1> QED
  BY <1>2, <1>3, <1>4, <1>5, <1>6 DEF DispatchInv

\* A run reads, ends or stops half way.
LEMMA ScanningKeeps ==
    ASSUME DispatchInv, NEW r \in Run,
           \/ ListEvents(r) \/ EndRun(r) \/ CutOff(r) \/ FinalizeFails(r)
           \/ \E e \in DueEvent : ListSubscriptions(r, e)
           \/ \E x \in Delivery : ReservationFails(r, x)
    PROVE  DispatchInv'
<1>1. scheduler \in [Run -> RunRow] /\ device \in [Device -> DeviceRow] /\ open \subseteq DueEvent
  BY Typed DEF DispatchInv
<1>2. UNCHANGED <<open, device, dispatches, attempts, pushes, gone>>
  BY DEF ListEvents, EndRun, CutOff, FinalizeFails, ListSubscriptions, ReservationFails
<1>3. ActiveInBound' /\ LiveEndpointKept'
  BY <1>2 DEF DispatchInv, ActiveInBound, LiveEndpointKept
<1>4. CASE EndRun(r) \/ CutOff(r) \/ FinalizeFails(r) \/ \E x \in Delivery : ReservationFails(r, x)
  <2>1. End(r)
    BY <1>4 DEF EndRun, CutOff, FinalizeFails, ReservationFails
  <2>2. /\ scheduler' \in [Run -> RunRow] /\ scheduler'[r].stage \in {"ended", "scanning"}
        /\ \A s \in Run \ {r} : scheduler'[s] = scheduler[s]
    BY <2>1, Leaves DEF DispatchInv
  <2> QED
    BY <1>1, <1>2, <1>3, <2>2, QuietKeeps DEF Holds, Stays
<1>5. CASE ListEvents(r)
  <2>1. /\ scheduler' \in [Run -> RunRow] /\ scheduler'[r].stage = "scanning"
        /\ \A s \in Run \ {r} : scheduler'[s] = scheduler[s]
    BY ZenonT(30), <1>1, <1>5 DEF ListEvents, RunRow
  <2> QED
    BY <1>1, <1>2, <1>3, <2>1, QuietKeeps DEF Holds, Stays
<1>6. ASSUME NEW e \in DueEvent, ListSubscriptions(r, e)
      PROVE  DispatchInv'
  <2>1. Undelivered(e) \in SUBSET Delivery
    BY DEF Undelivered
  <2>2. /\ scheduler' \in [Run -> RunRow] /\ scheduler'[r].stage = "scanning"
        /\ \A s \in Run \ {r} : scheduler'[s] = scheduler[s]
    BY ZenonT(30), <1>1, <1>6, <2>1 DEF ListSubscriptions, RunRow
  <2> QED
    BY <1>1, <1>2, <1>3, <2>2, QuietKeeps DEF Holds, Stays
<1> QED
  BY <1>4, <1>5, <1>6

\* The user, and a statement that moves while a run reserves.
LEMMA OthersKeep ==
    ASSUME DispatchInv,
           \/ \E d \in Device : Register(d) \/ Disable(d)
           \/ \E e \in DueEvent : MoveStatement(e)
           \/ \E r \in Run, x \in Delivery : StatementMovesMeanwhile(r, x)
    PROVE  DispatchInv'
<1>1. /\ scheduler \in [Run -> RunRow] /\ device \in [Device -> DeviceRow] /\ open \subseteq DueEvent
      /\ MaxRevision \in Nat
  BY Typed, DispatchAssumption DEF DispatchInv
<1>2. UNCHANGED <<dispatches, attempts, pushes, gone>>
  BY DEF Register, Disable, MoveStatement, StatementMovesMeanwhile
<1>3. ASSUME NEW d \in Device, Register(d) \/ Disable(d)
      PROVE  DispatchInv'
  <2>1. UNCHANGED <<open, scheduler>>
    BY <1>3 DEF Register, Disable
  <2>2. device[d] \in DeviceRow /\ device[d].no < MaxRevision
    BY <1>1, <1>3 DEF Register, Disable
  <2>3. PICK active \in BOOLEAN, reason \in {"none", "user"} :
            device' = [device EXCEPT ![d] = [no |-> device[d].no + 1, active |-> active, reason |-> reason]]
    BY <1>3 DEF Register, Disable
  <2>4. device[d].no + 1 \in 1..(MaxRevision + 1) /\ device[d].no + 1 <= MaxRevision
    BY <1>1, <2>2 DEF DeviceRow
  <2>5. device' \in [Device -> DeviceRow]
    BY <1>1, <2>3, <2>4 DEF DeviceRow
  <2>6. \A b \in Device : b # d => device'[b] = device[b]
    BY <1>1, <2>3
  <2>7. device'[d].no <= MaxRevision /\ device'[d].reason # "gone"
    BY <1>1, <2>3, <2>4
  <2>8. ActiveInBound' /\ LiveEndpointKept'
    BY <1>2, <2>6, <2>7 DEF DispatchInv, ActiveInBound, LiveEndpointKept
  <2> QED
    BY <1>1, <1>2, <2>1, <2>5, <2>8, QuietKeeps DEF Holds, Stays
<1>4. ASSUME NEW e \in DueEvent, MoveStatement(e)
      PROVE  DispatchInv'
  <2>1. UNCHANGED <<device, scheduler>> /\ open' \subseteq DueEvent
    BY <1>1, <1>4 DEF MoveStatement, StatementMoves
  <2>2. ActiveInBound' /\ LiveEndpointKept'
    BY <1>2, <2>1 DEF DispatchInv, ActiveInBound, LiveEndpointKept
  <2> QED
    BY <1>1, <1>2, <2>1, <2>2, QuietKeeps DEF Holds, Stays
<1>5. ASSUME NEW r \in Run, NEW x \in Delivery, StatementMovesMeanwhile(r, x)
      PROVE  DispatchInv'
  <2>1. UNCHANGED device /\ End(r)
    BY <1>5 DEF StatementMovesMeanwhile
  <2>2. open' \subseteq DueEvent
    <3>1. x[1] \in DueEvent
      BY DEF Delivery
    <3> QED
      BY <1>1, <1>5, <3>1 DEF StatementMovesMeanwhile, StatementMoves
  <2>3. ActiveInBound' /\ LiveEndpointKept'
    BY <1>2, <2>1 DEF DispatchInv, ActiveInBound, LiveEndpointKept
  <2>4. /\ scheduler' \in [Run -> RunRow] /\ scheduler'[r].stage \in {"ended", "scanning"}
        /\ \A s \in Run \ {r} : scheduler'[s] = scheduler[s]
    BY <2>1, Leaves DEF DispatchInv
  <2> QED
    BY <1>1, <1>2, <2>1, <2>2, <2>3, <2>4, QuietKeeps DEF Holds, Stays
<1> QED
  BY <1>3, <1>4, <1>5

\* A run settles the stale dispatch of a delivery, or suppresses it, and goes on.
LEMMA PassingKeeps ==
    ASSUME DispatchInv, NEW r \in Run, NEW x \in Delivery, NEW a \in AttemptRow,
           a.dispatch \in 0..Len(dispatches[x]), Appendable(x),
           attempts' = [attempts EXCEPT ![x] = Append(attempts[x], a)],
           a.status \in {"TERMINAL", "SUPPRESSED"},
           Scan(r, x), UNCHANGED <<open, device, dispatches, pushes, gone>>
    PROVE  DispatchInv'
<1>1. /\ Histories' /\ DispatchesInTurn' /\ AttemptsInTurn' /\ PushesDispatched' /\ SuccessIsReal'
      /\ \A y \in Delivery : /\ attempts'[y] \in Seq(AttemptRow)
                             /\ \A i \in DOMAIN attempts'[y] :
                                   attempts'[y][i].dispatch \in 0..Len(dispatches[y])
  BY AttemptsKeep
<1>2. /\ scheduler' \in [Run -> RunRow] /\ scheduler'[r].stage \in {"ended", "scanning"}
      /\ \A s \in Run \ {r} : scheduler'[s] = scheduler[s]
  BY Leaves DEF DispatchInv
<1>3. DispatchTypeOK'
  BY <1>1, <1>2, Typed DEF DispatchInv, DispatchTypeOK, DispatchRow, AttemptRow, RunRow, DeviceRow, PushRow
<1>4. \A y \in Delivery : \A n : RecordedAs(y, n, "RETRYABLE")' <=> RecordedAs(y, n, "RETRYABLE")
  <2>1. \A y \in Delivery : \A n, s :
            RecordedAs(y, n, s)' <=> RecordedAs(y, n, s) \/ (y = x /\ n = a.dispatch /\ s = a.status)
    BY Appending DEF DispatchInv
  <2>2. a.status # "RETRYABLE"
    OBVIOUS
  <2> QED
    BY <2>1, <2>2
<1>5. Owners' /\ Uncalled' /\ Answers'
  <2>1. \A s \in Run \ {r} : Holds(s) =>
            (RecordedAs(scheduler[s].at, scheduler[s].dispatch, "RETRYABLE")'
             => RecordedAs(scheduler[s].at, scheduler[s].dispatch, "RETRYABLE"))
    BY <1>2, <1>4 DEF DispatchInv, Owners, RecordedAs
  <2> QED
    BY <1>2, <2>1, LeavingKeeps
<1>6. ActiveInBound' /\ LiveEndpointKept'
  BY DEF DispatchInv, ActiveInBound, LiveEndpointKept
<1> QED
  BY <1>1, <1>3, <1>5, <1>6 DEF DispatchInv

\* What is neither skipped nor stale may be followed.
LEMMA Followed ==
    ASSUME DispatchInv, NEW r \in Run, NEW x \in Delivery, PlanOf(r, x) \in {"SEND", "SUPPRESS"}
    PROVE  /\ StaleDispatches(x, SlotOf[r]) = {} /\ SettledHistory(x, SlotOf[r]) = attempts[x]
           /\ Appendable(x)
           /\ \A i \in DOMAIN attempts[x] : attempts[x][i].status = "RETRYABLE"
<1> DEFINE h == SettledHistory(x, SlotOf[r])
           n == Len(dispatches[x])
           end == [status |-> "TERMINAL", dispatch |-> n]
<1>1. /\ attempts[x] \in Seq(AttemptRow) /\ n \in Nat
      /\ Len(attempts[x]) \in Nat /\ DOMAIN attempts[x] = 1..Len(attempts[x])
      /\ \A i \in DOMAIN attempts[x] : attempts[x][i].status \in AttemptStatus
  BY ChainTypes DEF DispatchInv, AttemptRow
<1>2. ~(h # <<>> /\ Last(h).status \in Final)
  BY DEF PlanOf, Plan
<1>3. h # Append(attempts[x], end)
  <2>1. end \in AttemptRow /\ end.status \in Final
    BY <1>1 DEF AttemptRow, AttemptStatus, Final
  <2>2. Append(attempts[x], end) # <<>> /\ Last(Append(attempts[x], end)) = end
    BY <1>1, <2>1, AppendProperties DEF Last
  <2> QED
    BY <1>2, <2>1, <2>2
<1>4. StaleDispatches(x, SlotOf[r]) = {} /\ h = attempts[x]
  BY <1>3, Settling
<1>5. Len(attempts[x]) > 0 => attempts[x][Len(attempts[x])].status = "RETRYABLE"
  <2> SUFFICES ASSUME Len(attempts[x]) > 0
               PROVE  attempts[x][Len(attempts[x])].status = "RETRYABLE"
    OBVIOUS
  <2>1. attempts[x] # <<>> /\ Len(attempts[x]) \in DOMAIN attempts[x]
    BY <1>1, EmptySeq
  <2> QED
    BY <1>1, <1>2, <1>4, <2>1 DEF Last, AttemptStatus
<1>6. Appendable(x)
  BY <1>1, <1>5, EmptySeq DEF Appendable, Last
<1>7. \A i \in DOMAIN attempts[x] : attempts[x][i].status = "RETRYABLE"
  <2>1. \A i \in 1..(Len(attempts[x]) - 1) : attempts[x][i].status = "RETRYABLE"
    BY DEF DispatchInv, AttemptsInTurn
  <2> QED
    BY <1>1, <1>5, <2>1
<1> QED
  BY <1>4, <1>6, <1>7

LEMMA ReserveNothingKeeps ==
    ASSUME DispatchInv, NEW r \in Run, NEW x \in Delivery, ReserveNothing(r, x)
    PROVE  DispatchInv'
<1> DEFINE n == Len(dispatches[x])
           end == [status |-> "TERMINAL", dispatch |-> n]
<1>1. /\ Startable(r, x) /\ attempts' = [attempts EXCEPT ![x] = SettledHistory(x, SlotOf[r])]
      /\ Scan(r, x) /\ UNCHANGED <<open, device, dispatches, pushes, gone>>
  BY DEF ReserveNothing
<1>2. CASE SettledHistory(x, SlotOf[r]) = attempts[x]
  <2>1. attempts' = attempts
    BY <1>1, <1>2 DEF DispatchInv, Histories
  <2>2. /\ scheduler' \in [Run -> RunRow] /\ scheduler'[r].stage \in {"ended", "scanning"}
        /\ \A s \in Run \ {r} : scheduler'[s] = scheduler[s]
    BY <1>1, Leaves DEF DispatchInv
  <2>3. ActiveInBound' /\ LiveEndpointKept' /\ open \subseteq DueEvent /\ device \in [Device -> DeviceRow]
    BY <1>1, Typed DEF DispatchInv, ActiveInBound, LiveEndpointKept
  <2> QED
    BY <1>1, <2>1, <2>2, <2>3, QuietKeeps DEF Holds, Stays
<1>3. CASE /\ StaleDispatches(x, SlotOf[r]) = {n}
           /\ SettledHistory(x, SlotOf[r]) = Append(attempts[x], end)
  <2>1. n \in Nat /\ end \in AttemptRow
    BY ChainTypes DEF DispatchInv, AttemptRow, AttemptStatus, Final
  <2>2. Appendable(x)
    BY <1>1, <1>3 DEF Startable
  <2>3. attempts' = [attempts EXCEPT ![x] = Append(attempts[x], end)]
    BY <1>1, <1>3
  <2>4. end.dispatch \in 0..Len(dispatches[x]) /\ end.status \in {"TERMINAL", "SUPPRESSED"}
    BY <2>1
  <2> HIDE DEF end
  <2> QED
    BY <1>1, <2>1, <2>2, <2>3, <2>4, PassingKeeps
<1> QED
  BY <1>2, <1>3, Settling

LEMMA SuppressKeeps ==
    ASSUME DispatchInv, NEW r \in Run, NEW x \in Delivery, Suppress(r, x)
    PROVE  DispatchInv'
<1> DEFINE a == [status |-> "SUPPRESSED", dispatch |-> 0]
<1>1. SettledHistory(x, SlotOf[r]) = attempts[x] /\ Appendable(x)
  BY Followed DEF Suppress
<1>2. a \in AttemptRow
  BY DEF AttemptRow, AttemptStatus, Final
<1>3. /\ attempts' = [attempts EXCEPT ![x] = Append(attempts[x], a)] /\ Scan(r, x)
      /\ UNCHANGED <<open, device, dispatches, pushes, gone>>
  BY <1>1 DEF Suppress
<1>4. a.dispatch \in 0..Len(dispatches[x]) /\ a.status \in {"TERMINAL", "SUPPRESSED"}
  BY ChainTypes DEF DispatchInv
<1> HIDE DEF a
<1> QED
  BY <1>1, <1>2, <1>3, <1>4, PassingKeeps

\* A new dispatch: every earlier one has its retryable answer.
LEMMA ReserveDispatchKeeps ==
    ASSUME DispatchInv, NEW r \in Run, NEW x \in Delivery, ReserveDispatch(r, x)
    PROVE  DispatchInv'
<1> DEFINE k == Len(dispatches[x])
           d == [slot |-> SlotOf[r], revision |-> device[x[2]].no]
           next == [scheduler[r] EXCEPT !.stage = "reserved", !.todo = @ \ {x}, !.at = x, !.dispatch = k + 1]
<1>1. /\ open \subseteq DueEvent /\ device \in [Device -> DeviceRow]
      /\ scheduler \in [Run -> RunRow] /\ scheduler[r] \in RunRow
      /\ pushes \in Seq(PushRow) /\ MaxRevision \in Nat
  BY Typed, DispatchAssumption DEF DispatchInv
<1>2. /\ StaleDispatches(x, SlotOf[r]) = {} /\ SettledHistory(x, SlotOf[r]) = attempts[x]
      /\ \A i \in DOMAIN attempts[x] : attempts[x][i].status = "RETRYABLE"
  BY Followed DEF ReserveDispatch
<1>3. /\ attempts' = attempts /\ UNCHANGED <<open, device, pushes, gone>>
      /\ dispatches' = [dispatches EXCEPT ![x] = Append(dispatches[x], d)]
      /\ scheduler' = [scheduler EXCEPT ![r] = next]
  BY <1>1, <1>2 DEF ReserveDispatch, DispatchInv, Histories
<1>4. /\ dispatches[x] \in Seq(DispatchRow) /\ k \in Nat /\ DOMAIN dispatches[x] = 1..k
      /\ \A y \in Delivery : \A i \in DOMAIN attempts[y] :
             attempts[y][i].dispatch \in 0..Len(dispatches[y])
      /\ \A y \in Delivery : Len(dispatches[y]) \in Nat /\ DOMAIN dispatches[y] = 1..Len(dispatches[y])
  BY ChainTypes DEF DispatchInv
<1>5. d.revision \in 1..MaxRevision /\ d \in DispatchRow
  <2>1. x[2] \in Device /\ device[x[2]].active /\ device[x[2]] \in DeviceRow
    BY <1>1 DEF Delivery, ReserveDispatch, Listed
  <2>2. SlotOf[r] \in Nat
    BY DispatchAssumption
  <2> QED
    BY <1>1, <2>1, <2>2 DEF DispatchInv, ActiveInBound, DeviceRow, DispatchRow
<1>6. next \in RunRow /\ next.stage = "reserved" /\ next.at = x /\ next.dispatch = k + 1
  <2> HIDE DEF k
  <2>1. k + 1 \in Nat
    BY <1>4
  <2>2. scheduler[r].todo \ {x} \in SUBSET Delivery
    BY <1>1 DEF RunRow
  <2> QED
    BY <1>1, <2>1, <2>2 DEF RunRow
<1> HIDE DEF d, next
<1>7. /\ dispatches' = [y \in Delivery |-> dispatches'[y]]
      /\ \A y \in Delivery : y # x => dispatches'[y] = dispatches[y]
      /\ dispatches'[x] \in Seq(DispatchRow) /\ Len(dispatches'[x]) = k + 1
      /\ \A n \in 1..k : dispatches'[x][n] = dispatches[x][n]
      /\ dispatches'[x][k + 1] = d
  <2>1. /\ dispatches' = [y \in Delivery |-> dispatches'[y]]
        /\ \A y \in Delivery : y # x => dispatches'[y] = dispatches[y]
        /\ dispatches'[x] = Append(dispatches[x], d)
    BY <1>3 DEF DispatchInv, Histories
  <2> QED
    BY <1>4, <1>5, <2>1, AppendProperties
<1>8. DOMAIN dispatches'[x] = 1..(k + 1) /\ \A n : n \in 1..(k + 1) <=> n \in 1..k \/ n = k + 1
  BY <1>4, <1>7, LenProperties
<1>9. /\ scheduler' \in [Run -> RunRow] /\ scheduler'[r] = next
      /\ \A s \in Run \ {r} : scheduler'[s] = scheduler[s]
  BY <1>1, <1>3, <1>6
<1>10. \A y, n, s : RecordedAs(y, n, s)' <=> RecordedAs(y, n, s)
  BY <1>3 DEF RecordedAs
<1>11. \A y, n, s : Called(y, n, s)' <=> Called(y, n, s)
  BY <1>3 DEF Called
<1>12. DispatchTypeOK'
  <2>1. \A y \in Delivery : /\ dispatches'[y] \in Seq(DispatchRow) /\ attempts'[y] \in Seq(AttemptRow)
                            /\ \A i \in DOMAIN attempts'[y] :
                                   attempts'[y][i].dispatch \in 0..Len(dispatches'[y])
    <3>1. \A y \in Delivery : dispatches[y] \in Seq(DispatchRow) /\ attempts[y] \in Seq(AttemptRow)
      BY Typed DEF DispatchInv
    <3>2. \A i \in DOMAIN attempts[x] : attempts[x][i].dispatch \in 0..(k + 1)
      BY <1>4
    <3> QED
      BY <1>3, <1>4, <1>7, <3>1, <3>2
  <2> QED
    BY <1>1, <1>3, <1>9, <2>1, Typed
       DEF DispatchInv, DispatchTypeOK, DispatchRow, AttemptRow, RunRow, DeviceRow, PushRow
<1>13. Histories' /\ AttemptsInTurn'
  BY <1>3, <1>7 DEF DispatchInv, Histories, AttemptsInTurn
<1>14. DispatchesInTurn'
  <2>1. \A n \in 1..k : RecordedAs(x, n, "RETRYABLE")
    <3>1. \A n \in 1..(k - 1) : RecordedAs(x, n, "RETRYABLE")
      BY DEF DispatchInv, DispatchesInTurn
    <3>2. k \in 1..k => RecordedAs(x, k, "RETRYABLE")
      <4>1. Unresolved(x) = {}
        BY <1>2 DEF ReserveDispatch, InFlight
      <4> QED
        BY <1>2, <1>4, <4>1 DEF Unresolved, RecordedAs
    <3> QED
      BY <1>4, <3>1, <3>2
  <2>2. \A n \in 1..k : dispatches[x][n].slot # d.slot
    BY <1>4 DEF ReserveDispatch, Taken, d
  <2>3. /\ \A n \in DOMAIN dispatches'[x] : dispatches'[x][n].revision \in 1..MaxRevision
        /\ \A m, n \in DOMAIN dispatches'[x] : m # n => dispatches'[x][m].slot # dispatches'[x][n].slot
    <3> HIDE DEF k
    <3>1. /\ \A n \in 1..k : dispatches[x][n].revision \in 1..MaxRevision
          /\ \A m, n \in 1..k : m # n => dispatches[x][m].slot # dispatches[x][n].slot
      BY <1>4 DEF DispatchInv, DispatchesInTurn
    <3>2. \A n \in DOMAIN dispatches'[x] : \/ n \in 1..k /\ dispatches'[x][n] = dispatches[x][n]
                                           \/ n = k + 1 /\ dispatches'[x][n] = d
      BY <1>7, <1>8
    <3> QED
      BY <1>5, <2>2, <3>1, <3>2
  <2>4. \A n \in 1..(Len(dispatches'[x]) - 1) : RecordedAs(x, n, "RETRYABLE")'
    BY <1>4, <1>7, <1>10, <2>1
  <2> QED
    BY <1>7, <1>10, <2>3, <2>4 DEF DispatchInv, DispatchesInTurn
<1>15. \A y \in Delivery : \A n \in DOMAIN dispatches[y] :
           n \in DOMAIN dispatches'[y] /\ dispatches'[y][n] = dispatches[y][n]
  <2>1. \A n \in DOMAIN dispatches[x] :
            n \in DOMAIN dispatches'[x] /\ dispatches'[x][n] = dispatches[x][n]
    BY <1>4, <1>7, <1>8
  <2>2. ASSUME NEW y \in Delivery, y # x, NEW n \in DOMAIN dispatches[y]
        PROVE  n \in DOMAIN dispatches'[y] /\ dispatches'[y][n] = dispatches[y][n]
    BY <1>7, <2>2
  <2> QED
    BY <2>1, <2>2
<1>16. \A j \in DOMAIN pushes : pushes[j].delivery \in Delivery
                                /\ pushes[j].dispatch \in DOMAIN dispatches[pushes[j].delivery]
  <2>1. \A j \in DOMAIN pushes : pushes[j] \in PushRow
    BY <1>1, LenProperties
  <2> QED
    BY <2>1 DEF DispatchInv, PushesDispatched, PushRow
<1>17. \A outcome : ~Called(x, k + 1, outcome)
  BY <1>4, <1>16 DEF Called
<1>18. PushesDispatched'
  <2>1. \A j \in DOMAIN pushes' :
            /\ pushes'[j].dispatch \in DOMAIN dispatches'[pushes'[j].delivery]
            /\ pushes'[j].slot = dispatches'[pushes'[j].delivery][pushes'[j].dispatch].slot
    BY <1>3, <1>15, <1>16 DEF DispatchInv, PushesDispatched
  <2>2. \A y \in Delivery : \A n \in DOMAIN dispatches'[y] :
            Called(y, n, "SUCCESS")' => ~RecordedAs(y, n, "RETRYABLE")'
    BY <1>4, <1>7, <1>8, <1>10, <1>11, <1>17 DEF DispatchInv, PushesDispatched
  <2> QED
    BY <1>3, <2>1, <2>2 DEF DispatchInv, PushesDispatched
<1>19. SuccessIsReal' /\ ActiveInBound' /\ LiveEndpointKept'
  BY <1>3 DEF DispatchInv, SuccessIsReal, ActiveInBound, LiveEndpointKept
<1>20. \A s \in Run \ {r} : Holds(s)' => Holds(s) /\ scheduler'[s] = scheduler[s]
  BY <1>9 DEF Holds
<1>21. ~RecordedAs(x, k + 1, "RETRYABLE")
  BY <1>4 DEF RecordedAs
<1>22. Owners'
  <2>1. /\ next.at \in Delivery /\ next.dispatch \in DOMAIN dispatches'[next.at]
        /\ ~RecordedAs(next.at, next.dispatch, "RETRYABLE")
    BY <1>4, <1>6, <1>8, <1>21
  <2>2. ASSUME NEW s \in Run \ {r}, Holds(s)'
        PROVE  /\ scheduler'[s].at \in Delivery
               /\ scheduler'[s].dispatch \in DOMAIN dispatches[scheduler'[s].at]
               /\ scheduler'[s].dispatch \in DOMAIN dispatches'[scheduler'[s].at]
               /\ ~RecordedAs(scheduler'[s].at, scheduler'[s].dispatch, "RETRYABLE")
    BY <1>15, <1>20, <2>2 DEF DispatchInv, Owners
  <2>3. \A s \in Run : Holds(s)' =>
            /\ scheduler'[s].at \in Delivery
            /\ scheduler'[s].dispatch \in DOMAIN dispatches'[scheduler'[s].at]
            /\ ~RecordedAs(scheduler'[s].at, scheduler'[s].dispatch, "RETRYABLE")
    BY <1>9, <2>1, <2>2
  <2>4. \A s \in Run \ {r} : Holds(s)' /\ scheduler'[s].at = next.at =>
            scheduler'[s].dispatch # next.dispatch
    BY <1>4, <1>6, <2>2
  <2>5. \A s, t \in Run : s # t /\ Holds(s)' /\ Holds(t)' /\ scheduler'[s].at = scheduler'[t].at
                          => scheduler'[s].dispatch # scheduler'[t].dispatch
    BY <1>9, <1>20, <2>4 DEF DispatchInv, Owners
  <2> QED
    BY <1>10, <2>3, <2>5 DEF Owners
<1>23. Uncalled'
  <2>1. ASSUME NEW s \in Run, scheduler'[s].stage = "reserved", NEW outcome \in Outcome
        PROVE  ~Called(scheduler'[s].at, scheduler'[s].dispatch, outcome)
    <3>1. CASE s = r
      BY <1>6, <1>9, <1>17, <3>1
    <3>2. CASE s # r
      BY <1>9, <2>1, <3>2 DEF DispatchInv, Uncalled
    <3> QED
      BY <3>1, <3>2
  <2> QED
    BY <1>11, <2>1 DEF Uncalled
<1>24. Answers'
  <2>1. ASSUME NEW s \in Run, scheduler'[s].stage = "answered"
        PROVE  /\ scheduler'[s] = scheduler[s] /\ scheduler[s].stage = "answered"
               /\ dispatches'[scheduler[s].at][scheduler[s].dispatch]
                  = dispatches[scheduler[s].at][scheduler[s].dispatch]
    <3>1. s # r /\ scheduler'[s] = scheduler[s]
      BY <1>6, <1>9, <2>1
    <3> QED
      BY <1>15, <2>1, <3>1 DEF DispatchInv, Owners, Holds
  <2> SUFFICES ASSUME NEW s \in Run, scheduler'[s].stage = "answered"
               PROVE  LET y == scheduler'[s].at
                          n == scheduler'[s].dispatch
                      IN  /\ scheduler'[s].outcome # "CONFIG" => Called(y, n, scheduler'[s].outcome)
                          /\ \A outcome \in Outcome :
                                Called(y, n, outcome) => outcome = scheduler'[s].outcome
                          /\ scheduler'[s].outcome = "GONE" =>
                                Retired(y[2], dispatches'[y][n].revision)
    BY <1>3, <1>11 DEF Answers, Retired
  <2> QED
    BY <2>1 DEF DispatchInv, Answers
<1> QED
  BY <1>12, <1>13, <1>14, <1>18, <1>19, <1>22, <1>23, <1>24 DEF DispatchInv

\* The push service is called, once for the dispatch.
LEMMA SendKeeps ==
    ASSUME DispatchInv, NEW r \in Run, Send(r)
    PROVE  DispatchInv'
<1> DEFINE x == scheduler[r].at
           n == scheduler[r].dispatch
           d == dispatches[x][n]
<1>1. PICK outcome \in Outcome :
          /\ scheduler' = [scheduler EXCEPT ![r].stage = "answered", ![r].outcome = outcome]
          /\ pushes' = IF outcome = "CONFIG" THEN pushes
                       ELSE Append(pushes, [delivery |-> x, dispatch |-> n, slot |-> d.slot,
                                            outcome |-> outcome])
          /\ gone' = IF outcome = "GONE" THEN gone \cup {<<x[2], d.revision>>} ELSE gone
  BY DEF Send
<1> DEFINE p == [delivery |-> x, dispatch |-> n, slot |-> d.slot, outcome |-> outcome]
           next == [scheduler[r] EXCEPT !.stage = "answered", !.outcome = outcome]
           Now(y, m, o) == \E j \in DOMAIN pushes' : /\ pushes'[j].delivery = y
                                                      /\ pushes'[j].dispatch = m
                                                      /\ pushes'[j].outcome = o
<1>2. scheduler[r].stage = "reserved" /\ UNCHANGED <<open, device, dispatches, attempts>>
  BY DEF Send
<1>3. /\ open \subseteq DueEvent /\ device \in [Device -> DeviceRow]
      /\ scheduler \in [Run -> RunRow] /\ scheduler[r] \in RunRow
      /\ pushes \in Seq(PushRow) /\ gone \subseteq Device \X Nat /\ MaxRevision \in Nat
  BY Typed, DispatchAssumption DEF DispatchInv
<1>4. /\ x \in Delivery /\ n \in DOMAIN dispatches[x] /\ ~RecordedAs(x, n, "RETRYABLE")
      /\ \A s \in Run \ {r} : Holds(s) /\ scheduler[s].at = x => scheduler[s].dispatch # n
  BY <1>2 DEF DispatchInv, Owners, Holds
<1>5. \A o \in Outcome : ~Called(x, n, o)
  BY <1>2 DEF DispatchInv, Uncalled
<1>6. n \in Nat /\ d \in DispatchRow
  BY <1>4, ChainTypes DEF DispatchInv
<1>7. p \in PushRow
  BY <1>4, <1>6 DEF PushRow, DispatchRow
<1>8. /\ next \in RunRow /\ next.stage = "answered" /\ next.outcome = outcome
      /\ next.at = x /\ next.dispatch = n
  BY <1>3 DEF RunRow
<1>9. scheduler' = [scheduler EXCEPT ![r] = next]
  BY <1>1, <1>3
<1>10. /\ p.delivery = x /\ p.dispatch = n /\ p.slot = d.slot /\ p.outcome = outcome
  OBVIOUS
<1>11. Retired(x[2], d.revision)' <=> <<x[2], d.revision>> \in gone'
  BY <1>2, <1>9 DEF Retired
<1>12. DOMAIN pushes = 1..Len(pushes) /\ Len(pushes) \in Nat
       /\ \A j \in DOMAIN pushes : pushes[j] \in PushRow
  BY <1>3, LenProperties
<1> HIDE DEF p, next
<1>13. /\ scheduler' \in [Run -> RunRow] /\ scheduler'[r] = next
       /\ \A s \in Run \ {r} : scheduler'[s] = scheduler[s]
  BY <1>3, <1>8, <1>9
<1>14. /\ pushes' \in Seq(PushRow)
       /\ \A j : j \in DOMAIN pushes' <=>
                     j \in DOMAIN pushes \/ (outcome # "CONFIG" /\ j = Len(pushes) + 1)
       /\ \A j \in DOMAIN pushes : pushes'[j] = pushes[j]
       /\ outcome # "CONFIG" => pushes'[Len(pushes) + 1] = p
  <2>1. CASE outcome = "CONFIG"
    BY <1>1, <1>3, <2>1
  <2>2. CASE outcome # "CONFIG"
    <3>1. pushes' = Append(pushes, p)
      BY <1>1, <2>2 DEF p
    <3>2. /\ pushes' \in Seq(PushRow) /\ Len(pushes') = Len(pushes) + 1
          /\ \A j \in 1..Len(pushes) : pushes'[j] = pushes[j]
          /\ pushes'[Len(pushes) + 1] = p
      BY <1>3, <1>7, <3>1, AppendProperties
    <3>3. DOMAIN pushes' = 1..(Len(pushes) + 1)
      BY <3>2, LenProperties
    <3> QED
      BY <1>12, <2>2, <3>2, <3>3
  <2> QED
    BY <2>1, <2>2
<1>15. ASSUME NEW y, NEW m, NEW o
       PROVE  Now(y, m, o) <=> \/ Called(y, m, o)
                               \/ outcome # "CONFIG" /\ y = x /\ m = n /\ o = outcome
  <2>1. Now(y, m, o) => \/ Called(y, m, o)
                        \/ outcome # "CONFIG" /\ y = x /\ m = n /\ o = outcome
    <3>1. SUFFICES ASSUME NEW j \in DOMAIN pushes', pushes'[j].delivery = y,
                          pushes'[j].dispatch = m, pushes'[j].outcome = o
                   PROVE  \/ Called(y, m, o)
                          \/ outcome # "CONFIG" /\ y = x /\ m = n /\ o = outcome
      OBVIOUS
    <3>2. CASE j \in DOMAIN pushes
      BY <1>14, <3>1, <3>2 DEF Called
    <3>3. CASE outcome # "CONFIG" /\ j = Len(pushes) + 1
      BY <1>10, <1>14, <3>1, <3>3
    <3> QED
      BY <1>14, <3>1, <3>2, <3>3
  <2>2. Called(y, m, o) => Now(y, m, o)
    BY <1>14 DEF Called
  <2>3. outcome # "CONFIG" /\ y = x /\ m = n /\ o = outcome => Now(y, m, o)
    BY <1>10, <1>14
  <2> HIDE DEF Now
  <2> QED
    BY <2>1, <2>2, <2>3
<1> HIDE DEF Now
<1>16. \A y, m, s : RecordedAs(y, m, s)' <=> RecordedAs(y, m, s)
  BY <1>2 DEF RecordedAs
<1>17. gone \subseteq gone' /\ gone' \subseteq Device \X Nat
  <2>1. x[2] \in Device /\ d.revision \in Nat
    BY <1>3, <1>4, <1>6 DEF Delivery, DispatchRow
  <2> QED
    BY <1>1, <1>3, <2>1
<1>18. DispatchTypeOK'
  BY <1>2, <1>3, <1>13, <1>14, <1>17, Typed
     DEF DispatchInv, DispatchTypeOK, DispatchRow, AttemptRow, RunRow, DeviceRow, PushRow
<1>19. Histories' /\ DispatchesInTurn' /\ AttemptsInTurn' /\ ActiveInBound'
  BY <1>2, <1>16 DEF DispatchInv, Histories, DispatchesInTurn, AttemptsInTurn, ActiveInBound
<1>20. PushesDispatched'
  <2>1. \A j \in DOMAIN pushes : pushes[j].delivery = x => pushes[j].dispatch # n
    BY <1>5, <1>12 DEF Called, PushRow
  <2>2. \A j \in DOMAIN pushes' :
            /\ pushes'[j].dispatch \in DOMAIN dispatches[pushes'[j].delivery]
            /\ pushes'[j].slot = dispatches[pushes'[j].delivery][pushes'[j].dispatch].slot
    BY <1>4, <1>10, <1>14 DEF DispatchInv, PushesDispatched
  <2>3. \A i, j \in DOMAIN pushes' : i # j /\ pushes'[i].delivery = pushes'[j].delivery
                                     => pushes'[i].dispatch # pushes'[j].dispatch
    BY <1>10, <1>14, <2>1 DEF DispatchInv, PushesDispatched
  <2>4. \A y \in Delivery : \A m \in DOMAIN dispatches[y] :
            Now(y, m, "SUCCESS") => ~RecordedAs(y, m, "RETRYABLE")'
    BY <1>4, <1>15, <1>16 DEF DispatchInv, PushesDispatched
  <2> QED
    BY <1>2, <2>2, <2>3, <2>4 DEF PushesDispatched, Called, Now
<1>21. SuccessIsReal'
  <2>1. \A y \in Delivery : \A i \in DOMAIN attempts[y] :
            attempts[y][i].status = "SUCCESS" => Called(y, attempts[y][i].dispatch, "SUCCESS")
    BY DEF DispatchInv, SuccessIsReal, Called
  <2>2. \A y \in Delivery : \A i \in DOMAIN attempts[y] :
            attempts[y][i].status = "SUCCESS" => Now(y, attempts[y][i].dispatch, "SUCCESS")
    BY <1>2, <1>15, <2>1
  <2>3. ASSUME NEW y \in Delivery, NEW i \in DOMAIN attempts[y], attempts[y][i].status = "SUCCESS"
        PROVE  \E j \in DOMAIN pushes' : /\ pushes'[j].delivery = y
                                          /\ pushes'[j].dispatch = attempts[y][i].dispatch
                                          /\ pushes'[j].outcome = "SUCCESS"
    BY <2>2, <2>3 DEF Now
  <2> QED
    BY <1>2, <2>3 DEF SuccessIsReal
<1>22. LiveEndpointKept'
  BY <1>2, <1>17 DEF DispatchInv, LiveEndpointKept
<1>23. \A s \in Run \ {r} : Holds(s)' <=> Holds(s)
  BY <1>13 DEF Holds
<1>24. Owners'
  <2>1. \A s \in Run : Holds(s)' => /\ Holds(s) /\ scheduler'[s].at = scheduler[s].at
                                    /\ scheduler'[s].dispatch = scheduler[s].dispatch
    BY <1>2, <1>8, <1>13, <1>23 DEF Holds
  <2> QED
    BY <1>2, <1>16, <2>1 DEF DispatchInv, Owners
<1>25. Uncalled'
  <2>1. ASSUME NEW s \in Run, scheduler'[s].stage = "reserved", NEW o \in Outcome
        PROVE  ~Now(scheduler'[s].at, scheduler'[s].dispatch, o)
    <3>1. s # r /\ scheduler'[s] = scheduler[s]
      BY <1>8, <1>13, <2>1
    <3>2. ~Called(scheduler[s].at, scheduler[s].dispatch, o)
      BY <2>1, <3>1 DEF DispatchInv, Uncalled
    <3>3. ~(scheduler[s].at = x /\ scheduler[s].dispatch = n)
      BY <1>4, <2>1, <3>1 DEF Holds
    <3> QED
      BY <1>15, <3>1, <3>2, <3>3
  <2> QED
    BY <2>1 DEF Uncalled, Called, Now
<1>26. Answers'
  <2>1. SUFFICES ASSUME NEW s \in Run, scheduler'[s].stage = "answered", NEW y, NEW m,
                        y = scheduler'[s].at, m = scheduler'[s].dispatch
                 PROVE  /\ scheduler'[s].outcome # "CONFIG" => Now(y, m, scheduler'[s].outcome)
                        /\ \A o \in Outcome : Now(y, m, o) => o = scheduler'[s].outcome
                        /\ scheduler'[s].outcome = "GONE" =>
                              <<y[2], dispatches[y][m].revision>> \in gone'
    BY <1>2 DEF Answers, Retired, Called, Now
  <2>2. CASE s = r
    <3>1. scheduler'[s].outcome = outcome /\ y = x /\ m = n
      BY <1>8, <1>13, <2>1, <2>2
    <3>2. \A o \in Outcome : Now(y, m, o) => o = outcome
      BY <1>5, <1>15, <3>1
    <3>3. outcome # "CONFIG" => Now(y, m, outcome)
      BY <1>15, <3>1
    <3>4. outcome = "GONE" => <<x[2], d.revision>> \in gone'
      BY <1>1
    <3> QED
      BY <3>1, <3>2, <3>3, <3>4
  <2>3. CASE s # r
    <3>1. /\ scheduler'[s] = scheduler[s] /\ scheduler[s].stage = "answered" /\ Holds(s)
          /\ y = scheduler[s].at /\ m = scheduler[s].dispatch
      BY <1>13, <2>1, <2>3 DEF Holds
    <3>2. ~(y = x /\ m = n)
      BY <1>4, <2>3, <3>1
    <3>3. \A o : Now(y, m, o) <=> Called(y, m, o)
      BY <1>15, <3>2
    <3>4. /\ scheduler[s].outcome # "CONFIG" => Called(y, m, scheduler[s].outcome)
          /\ \A o \in Outcome : Called(y, m, o) => o = scheduler[s].outcome
          /\ scheduler[s].outcome = "GONE" => <<y[2], dispatches[y][m].revision>> \in gone'
      BY <1>17, <3>1 DEF DispatchInv, Answers, Retired
    <3> QED
      BY <3>1, <3>3, <3>4
  <2> QED
    BY <2>2, <2>3
<1> QED
  BY <1>18, <1>19, <1>20, <1>21, <1>22, <1>24, <1>25, <1>26 DEF DispatchInv

\* The answer is written down: a retryable failure, or the end of the chain.
LEMMA FinalizeKeeps ==
    ASSUME DispatchInv, NEW r \in Run, Finalize(r)
    PROVE  DispatchInv'
<1> DEFINE x == scheduler[r].at
           n == scheduler[r].dispatch
           outcome == scheduler[r].outcome
           a == [status |-> AttemptOf(outcome), dispatch |-> n]
           revision == dispatches[x][n].revision
<1>1. /\ scheduler[r].stage = "answered" /\ Appendable(x)
      /\ attempts' = [attempts EXCEPT ![x] = Append(attempts[x], a)]
      /\ IF outcome = "GONE" THEN Retire(x[2], revision) ELSE UNCHANGED device
      /\ End(r) \/ Scan(r, x)
      /\ UNCHANGED <<open, dispatches, pushes, gone>>
  BY DEF Finalize, Recordable
<1>2. /\ open \subseteq DueEvent /\ device \in [Device -> DeviceRow]
      /\ scheduler[r] \in RunRow /\ MaxRevision \in Nat
  BY Typed, DispatchAssumption DEF DispatchInv
<1>3. /\ x \in Delivery /\ n \in DOMAIN dispatches[x]
      /\ \A s \in Run \ {r} : Holds(s) /\ scheduler[s].at = x => scheduler[s].dispatch # n
  BY <1>1 DEF DispatchInv, Owners, Holds
<1>4. n \in 1..Len(dispatches[x]) /\ Len(dispatches[x]) \in Nat
  BY <1>3, ChainTypes DEF DispatchInv
<1>5. outcome \in Outcome
  BY <1>2 DEF RunRow
<1>6. a \in AttemptRow /\ a.dispatch = n /\ a.status = AttemptOf(outcome)
  <2>1. AttemptOf(outcome) \in AttemptStatus /\ n \in Nat
    BY <1>4, <1>5 DEF AttemptOf, AttemptStatus, Final
  <2> HIDE DEF n, outcome
  <2> QED
    BY <2>1 DEF AttemptRow
<1>7. AttemptOf(outcome) = "SUCCESS" <=> outcome = "SUCCESS"
  BY <1>5 DEF AttemptOf, Outcome
<1>8. /\ outcome # "CONFIG" => Called(x, n, outcome)
      /\ \A o \in Outcome : Called(x, n, o) => o = outcome
      /\ outcome = "GONE" => <<x[2], revision>> \in gone
  BY <1>1 DEF DispatchInv, Answers, Retired
<1>9. /\ a.status = "SUCCESS" => Called(x, a.dispatch, "SUCCESS")
      /\ a.status = "RETRYABLE" => ~Called(x, a.dispatch, "SUCCESS")
  <2>1. "SUCCESS" \in Outcome
    BY DEF Outcome
  <2> HIDE DEF x, n, outcome, a
  <2> QED
    BY <1>6, <1>7, <1>8, <2>1
<1>10. a.dispatch \in 0..Len(dispatches[x])
  BY <1>4, <1>6
<1>11. /\ scheduler' \in [Run -> RunRow] /\ scheduler'[r].stage \in {"ended", "scanning"}
       /\ \A s \in Run \ {r} : scheduler'[s] = scheduler[s]
  BY <1>1, Leaves DEF DispatchInv
<1>12. /\ device' \in [Device -> DeviceRow] /\ ActiveInBound' /\ LiveEndpointKept'
  <2>1. CASE UNCHANGED device
    BY <1>1, <1>2, <2>1 DEF DispatchInv, ActiveInBound, LiveEndpointKept
  <2>2. CASE outcome = "GONE" /\ Retire(x[2], revision) /\ device' # device
    <3> DEFINE b == x[2]
               row == [no |-> revision + 1, active |-> FALSE, reason |-> "gone"]
    <3>1. b \in Device
      BY <1>3 DEF Delivery
    <3>2. device[b].no = revision /\ device' = [device EXCEPT ![b] = row]
      BY <2>2 DEF Retire, StillLatest
    <3>3. revision \in 1..MaxRevision /\ <<b, revision>> \in gone
      BY <1>3, <1>8, <2>2 DEF DispatchInv, DispatchesInTurn
    <3> HIDE DEF x, n, revision, b
    <3>4. row \in DeviceRow /\ row.active = FALSE /\ row.no - 1 = revision
      BY <1>2, <3>3 DEF DeviceRow
    <3> HIDE DEF row
    <3>5. /\ device' \in [Device -> DeviceRow] /\ device'[b] = row
          /\ \A e \in Device \ {b} : device'[e] = device[e]
      BY <1>2, <3>1, <3>2, <3>4
    <3>6. ActiveInBound'
      BY <3>4, <3>5 DEF DispatchInv, ActiveInBound
    <3>7. LiveEndpointKept'
      <4>1. \A e \in Device : device'[e].reason = "gone" => <<e, device'[e].no - 1>> \in gone
        BY <3>3, <3>4, <3>5 DEF DispatchInv, LiveEndpointKept
      <4> QED
        BY <1>1, <4>1 DEF LiveEndpointKept
    <3> QED
      BY <3>5, <3>6, <3>7
  <2> QED
    BY <1>1, <2>1, <2>2
<1>13. \A y \in Delivery : \A k, s :
           RecordedAs(y, k, s)' <=> RecordedAs(y, k, s) \/ (y = x /\ k = a.dispatch /\ s = a.status)
  <2> HIDE DEF a, x
  <2> QED
    BY <1>1, <1>3, <1>6, Appending DEF DispatchInv
<1> HIDE DEF a, x
<1>14. /\ Histories' /\ DispatchesInTurn' /\ AttemptsInTurn' /\ PushesDispatched' /\ SuccessIsReal'
       /\ \A y \in Delivery : /\ attempts'[y] \in Seq(AttemptRow)
                              /\ \A i \in DOMAIN attempts'[y] :
                                    attempts'[y][i].dispatch \in 0..Len(dispatches[y])
  BY <1>1, <1>3, <1>6, <1>9, <1>10, AttemptsKeep
<1>15. DispatchTypeOK'
  BY <1>1, <1>2, <1>11, <1>12, <1>14, Typed
     DEF DispatchInv, DispatchTypeOK, DispatchRow, AttemptRow, RunRow, DeviceRow, PushRow
<1>16. Owners' /\ Uncalled' /\ Answers'
  <2>1. ASSUME NEW s \in Run \ {r}, Holds(s), NEW y, NEW k,
               y = scheduler[s].at, k = scheduler[s].dispatch
        PROVE  RecordedAs(y, k, "RETRYABLE")' => RecordedAs(y, k, "RETRYABLE")
    <3>1. y \in Delivery /\ ~(y = x /\ k = n)
      BY <1>3, <2>1 DEF DispatchInv, Owners, x
    <3> QED
      BY <1>6, <1>13, <3>1
  <2>2. \A s \in Run \ {r} : Holds(s) =>
            (RecordedAs(scheduler[s].at, scheduler[s].dispatch, "RETRYABLE")'
             => RecordedAs(scheduler[s].at, scheduler[s].dispatch, "RETRYABLE"))
    BY <1>11, <2>1 DEF RecordedAs
  <2> QED
    BY <1>1, <1>11, <2>2, LeavingKeeps
<1> QED
  BY <1>12, <1>14, <1>15, <1>16 DEF DispatchInv

LEMMA StepKeeps == DispatchInv /\ [DispatchNext]_dispatchVars => DispatchInv'
<1> SUFFICES ASSUME DispatchInv, [DispatchNext]_dispatchVars PROVE DispatchInv'
  OBVIOUS
<1>1. CASE UNCHANGED dispatchVars
  <2>1. UNCHANGED <<open, device, dispatches, attempts, scheduler, pushes, gone>>
    BY <1>1 DEF dispatchVars
  <2>2. /\ open \subseteq DueEvent /\ device \in [Device -> DeviceRow] /\ scheduler \in [Run -> RunRow]
        /\ ActiveInBound' /\ LiveEndpointKept'
    BY <2>1, Typed DEF DispatchInv, ActiveInBound, LiveEndpointKept
  <2> QED
    BY <2>1, <2>2, QuietKeeps DEF Holds, Stays
<1>2. ASSUME NEW r \in Run, RunStep(r) \/ CutOff(r)
      PROVE  DispatchInv'
  <2>1. ASSUME NEW x \in Delivery, ReserveNothing(r, x) \/ Suppress(r, x) \/ ReserveDispatch(r, x)
        PROVE  DispatchInv'
    BY <2>1, ReserveNothingKeeps, SuppressKeeps, ReserveDispatchKeeps
  <2>2. CASE Send(r) \/ Finalize(r)
    BY <2>2, SendKeeps, FinalizeKeeps
  <2> QED
    BY <1>2, <2>1, <2>2, ScanningKeeps, OthersKeep DEF RunStep
<1>3. CASE UserStep
  BY <1>3, OthersKeep DEF UserStep
<1> QED
  BY <1>1, <1>2, <1>3 DEF DispatchNext

-----------------------------------------------------------------------------
(* The theorems.                                                           *)

\* Every step of every run and of the user keeps the invariant above.
THEOREM DispatchInvariance == DispatchSpec => []DispatchInv
<1>1. DispatchInit => DispatchInv
  BY InitHolds
<1>2. DispatchInv /\ [DispatchNext]_dispatchVars => DispatchInv'
  BY StepKeeps
<1> QED
  BY <1>1, <1>2, PTL DEF DispatchSpec

\* Type correctness: the rows of dispatches, attempts and subscriptions keep
\* their types, and no subscription gets more revisions than the bound and one.
THEOREM DispatchTypes == DispatchSpec => []DispatchTypeOK
<1>1. DispatchInv => DispatchTypeOK
  BY DEF DispatchInv
<1> QED
  BY <1>1, DispatchInvariance, PTL

\* However many runs of the scheduler overlap, repeat or break off, the push
\* service accepts one notification per event and device and is called once an
\* hour: an accepted dispatch stays the last one of its delivery.
THEOREM PushesOnce == DispatchSpec => []PushedOnce
<1>1. DispatchInv => PushedOnce
  <2> SUFFICES ASSUME DispatchInv PROVE PushedOnce
    OBVIOUS
  <2>1. \A j \in DOMAIN pushes : pushes[j] \in PushRow
    BY Typed, LenProperties DEF DispatchInv
  <2>2. ASSUME NEW i \in DOMAIN pushes, NEW j \in DOMAIN pushes, i # j,
               pushes[i].delivery = pushes[j].delivery
        PROVE  /\ pushes[i].slot # pushes[j].slot
               /\ ~(pushes[i].outcome = "SUCCESS" /\ pushes[j].outcome = "SUCCESS")
    <3> DEFINE x == pushes[i].delivery
               k == Len(dispatches[x])
    <3>1. x \in Delivery
      BY <2>1 DEF PushRow
    <3>2. /\ pushes[i].dispatch \in DOMAIN dispatches[x] /\ pushes[j].dispatch \in DOMAIN dispatches[x]
          /\ pushes[i].slot = dispatches[x][pushes[i].dispatch].slot
          /\ pushes[j].slot = dispatches[x][pushes[j].dispatch].slot
          /\ pushes[i].dispatch # pushes[j].dispatch
      BY <2>2 DEF DispatchInv, PushesDispatched
    <3>3. pushes[i].slot # pushes[j].slot
      BY <3>1, <3>2 DEF DispatchInv, DispatchesInTurn
    <3>4. k \in Nat /\ DOMAIN dispatches[x] = 1..k
      BY <3>1, ChainTypes DEF DispatchInv
    <3>5. \A n \in 1..(k - 1) : ~Called(x, n, "SUCCESS")
      BY <3>1, <3>4 DEF DispatchInv, DispatchesInTurn, PushesDispatched
    <3>6. pushes[i].dispatch \in 1..(k - 1) \/ pushes[j].dispatch \in 1..(k - 1)
      BY <3>2, <3>4
    <3>7. ~(pushes[i].outcome = "SUCCESS" /\ pushes[j].outcome = "SUCCESS")
      BY <2>2, <3>5, <3>6 DEF Called
    <3> QED
      BY <3>3, <3>7
  <2> QED
    BY <2>2 DEF PushedOnce, AcceptedAtMostOnce, CalledOncePerHour
<1> QED
  BY <1>1, DispatchInvariance, PTL

\* What the second transaction writes down, the push service answered: every
\* success, and every endpoint that is retired as gone.
THEOREM RecordsReal == DispatchSpec => []RecordsAreReal
<1>1. DispatchInv => RecordsAreReal
  BY DEF DispatchInv, RecordsAreReal
<1> QED
  BY <1>1, DispatchInvariance, PTL

-----------------------------------------------------------------------------
(***************************************************************************)
(* CheckpointChain, for any payments and workers. A run lists the          *)
(* requests it found, in the order of their instants, and works through    *)
(* the list while other runs store snapshots and payments enqueue more.    *)
(* It looks once whether a request is alone at its instant, and stores     *)
(* the snapshot later. The invariant therefore speaks of what is stored    *)
(* or about to be stored by any run (Through): no two of these are of one  *)
(* instant, since whoever looked last would have found the other's         *)
(* request.                                                                *)
(***************************************************************************)

\* The requests a run has found alone at their instants, and goes on with.
Cleared(run) == IF run.stage \in {"replay", "report", "persist"} THEN ToSet(Head(run.groups)) ELSE {}
Through == snapshots \cup UNION {Cleared(worker[w]) : w \in Worker}

Stages == {"idle", "group", "replay", "report", "persist", "failed"}
ListedIn(groups, found) == groups \in Seq(Seq(found) \ {<<>>})
RunTyped(run, found) ==
    /\ run = [stage |-> run.stage, groups |-> run.groups, built |-> run.built]
    /\ run.stage \in Stages /\ ListedIn(run.groups, found) /\ run.built \in Payment \cup {Absent}
    /\ run.stage \in {"group", "replay", "report", "persist"} => run.groups # <<>>

CheckpointRows ==
    /\ snapshots \subseteq requests /\ requests \subseteq Payment /\ IsFiniteSet(requests)
    /\ chain \in [Payment -> Payment \cup {Absent}]
    /\ since \in [Payment -> Payment \cup {Absent}]
    /\ DOMAIN worker = Worker /\ \A w \in Worker : RunTyped(worker[w], requests)

\* Of what was stored or is about to be, no two payments are of one instant:
\* whoever checked last would have seen the other one's request.
AloneThrough == \A p, q \in Through : ~SameInstant(p, q)

CheckpointInv == CheckpointRows /\ AloneThrough /\ ReportFollowsChain

-----------------------------------------------------------------------------
(* Lists of requests.                                                      *)

LEMMA ListGrows ==
  ASSUME NEW S, NEW T, S \subseteq T, NEW g, ListedIn(g, S)
  PROVE  ListedIn(g, T)
<1>1. Seq(S) \ {<<>>} \subseteq Seq(T) \ {<<>>}
  <2>1. ASSUME NEW s \in Seq(S)
        PROVE  s \in Seq(T)
    <3>1. \A i \in 1..Len(s) : s[i] \in T
      OBVIOUS
    <3> QED
      BY <3>1
  <2> QED
    BY <2>1
<1>2. g \in Seq(Seq(S) \ {<<>>})
  BY DEF ListedIn
<1>3. \A i \in 1..Len(g) : g[i] \in Seq(T) \ {<<>>}
  BY <1>1, <1>2
<1> QED
  BY <1>2, <1>3 DEF ListedIn

\* The first list, and what is left of the lists.
LEMMA ListTail ==
  ASSUME NEW S, NEW g \in Seq(S), g # <<>>
  PROVE  /\ Head(g) = g[1] /\ Head(g) \in S /\ Tail(g) \in Seq(S) /\ Len(g) \in Nat \ {0}
         /\ Len(g) # 1 => Tail(g) # <<>>
         /\ DOMAIN Tail(g) = 1..(Len(g) - 1)
         /\ \A i \in 1..(Len(g) - 1) : Tail(g)[i] = g[i + 1] /\ i + 1 \in DOMAIN g
<1>1. Head(g) = g[1] /\ Head(g) \in S /\ Tail(g) \in Seq(S) /\ Len(g) \in Nat \ {0}
  OBVIOUS
<1>2. Len(Tail(g)) = Len(g) - 1
  OBVIOUS
<1>3. Len(g) # 1 => Tail(g) # <<>>
  BY <1>1, <1>2
<1>4. \A i \in 1..(Len(g) - 1) : Tail(g)[i] = g[i + 1] /\ i + 1 \in DOMAIN g
  OBVIOUS
<1> QED
  BY <1>1, <1>2, <1>3, <1>4

LEMMA ListsRest ==
  ASSUME NEW S, NEW g, ListedIn(g, S), g # <<>>
  PROVE  /\ Head(g) \in Seq(S) \ {<<>>} /\ Head(Head(g)) \in S /\ ToSet(Head(g)) \subseteq S
         /\ Head(Head(g)) \in ToSet(Head(g))
         /\ ListedIn(Tail(g), S) /\ (Len(g) # 1 => Tail(g) # <<>>)
         /\ Len(Head(g)) # 1 => /\ ListedIn(<<Tail(Head(g))>> \o Tail(g), S)
                                /\ <<Tail(Head(g))>> \o Tail(g) # <<>>
                                /\ Head(<<Tail(Head(g))>> \o Tail(g)) = Tail(Head(g))
                                /\ ToSet(Tail(Head(g))) \subseteq ToSet(Head(g))
<1> DEFINE f == Head(g)
<1>1. g \in Seq(Seq(S) \ {<<>>})
  BY DEF ListedIn
<1>2. f \in Seq(S) \ {<<>>} /\ Tail(g) \in Seq(Seq(S) \ {<<>>}) /\ Len(g) \in Nat \ {0}
  BY <1>1, ListTail
<1>3. Len(g) # 1 => Tail(g) # <<>>
  BY <1>1, ListTail
<1> HIDE DEF f
<1>4. ToSet(f) \subseteq S /\ Head(f) \in S /\ Head(f) \in ToSet(f)
  <2>1. f \in Seq(S) /\ Len(f) \in Nat \ {0} /\ Head(f) = f[1]
    BY <1>2
  <2>2. ToSet(f) = {f[i] : i \in DOMAIN f} /\ DOMAIN f = 1..Len(f)
    BY <2>1 DEF ToSet
  <2> QED
    BY <2>1, <2>2
<1>5. ASSUME Len(f) # 1
      PROVE  /\ <<Tail(f)>> \o Tail(g) \in Seq(Seq(S) \ {<<>>}) /\ <<Tail(f)>> \o Tail(g) # <<>>
             /\ Head(<<Tail(f)>> \o Tail(g)) = Tail(f)
             /\ ToSet(Tail(f)) \subseteq ToSet(f)
  <2>1. /\ Tail(f) \in Seq(S) /\ Tail(f) # <<>> /\ DOMAIN Tail(f) = 1..(Len(f) - 1)
        /\ \A i \in 1..(Len(f) - 1) : Tail(f)[i] = f[i + 1] /\ i + 1 \in DOMAIN f
    <3>1. f \in Seq(S) /\ f # <<>>
      BY <1>2
    <3> QED
      BY <1>5, <3>1, ListTail
  <2>2. <<Tail(f)>> \in Seq(Seq(S) \ {<<>>})
    BY <2>1
  <2>3. ToSet(Tail(f)) \subseteq ToSet(f)
    BY <2>1 DEF ToSet
  <2> DEFINE r == Tail(g) t == Tail(f)
  <2>4. /\ <<t>> \o r \in Seq(Seq(S) \ {<<>>}) /\ Len(<<t>> \o r) = 1 + Len(r) /\ Len(r) \in Nat
        /\ (<<t>> \o r)[1] = t
    BY <1>2, <2>2, ConcatProperties
  <2>5. Head(<<t>> \o r) = (<<t>> \o r)[1] /\ <<t>> \o r # <<>>
    BY <2>4
  <2> QED
    BY <2>3, <2>4, <2>5
<1> QED
  BY <1>2, <1>3, <1>4, <1>5 DEF ListedIn, f

-----------------------------------------------------------------------------
(* What a run finds.                                                       *)

\* A run takes up some request if there is any.
LEMMA SomeDiscovered ==
  ASSUME CheckpointRows, NEW D \in Discovered, Unsettled # {}
  PROVE  D \subseteq Unsettled /\ D # {} /\ IsFiniteSet(Unsettled)
<1>1. IsFiniteSet(Unsettled)
  BY FS_Subset DEF CheckpointRows, Unsettled
<1>2. CASE Cardinality(Unsettled) < MaxDiscovered
  BY <1>1, <1>2 DEF Discovered
<1>3. CASE ~(Cardinality(Unsettled) < MaxDiscovered)
  <2>1. Cardinality(D) = MaxDiscovered
    BY <1>3 DEF Discovered
  <2>2. D # {}
    BY <2>1, FS_EmptySet, CheckpointAssumption
  <2> QED
    BY <1>1, <2>2 DEF Discovered
<1> QED
  BY <1>2, <1>3

LEMMA GroupsListed ==
  ASSUME CheckpointRows, NEW D \in Discovered, NEW g \in Groups(D), Unsettled # {}
  PROVE  ListedIn(g, requests) /\ g # <<>>
<1> DEFINE months == {Period[p] : p \in D}
           n == Cardinality(months)
<1>1. D \subseteq requests /\ D # {} /\ IsFiniteSet(D)
  BY SomeDiscovered, FS_Subset DEF Unsettled
<1>2. IsFiniteSet(months) /\ months # {}
  <2> DEFINE f == [p \in D |-> Period[p]]
  <2>1. f \in Surjection(D, months)
    BY DEF Surjection
  <2> QED
    BY <1>1, <2>1, FS_Surjection
<1>3. n \in Nat /\ n # 0
  BY <1>2, FS_CardinalityType, FS_EmptySet
<1>4. g \in [1..n -> UNION {InOrder(OfMonth(D, m)) : m \in months}]
  BY DEF Groups
<1>5. ASSUME NEW m \in months, NEW s \in InOrder(OfMonth(D, m))
      PROVE  s \in Seq(requests) \ {<<>>}
  <2> DEFINE S == OfMonth(D, m)
  <2>1. S \subseteq D /\ S # {} /\ IsFiniteSet(S)
    BY <1>1, FS_Subset DEF OfMonth
  <2>2. Cardinality(S) \in Nat
    BY <2>1, FS_CardinalityType
  <2>3. s \in [1..Cardinality(S) -> S] /\ ToSet(s) = S
    BY DEF InOrder
  <2> HIDE DEF S
  <2>4. s \in Seq(requests)
    BY <1>1, <2>1, <2>2, <2>3
  <2>5. ASSUME s = <<>> PROVE FALSE
    <3>1. DOMAIN s = {}
      BY <2>5
    <3> QED
      BY <2>1, <2>3, <3>1 DEF ToSet
  <2> QED
    BY <2>4, <2>5
<1>6. g \in [1..n -> Seq(requests) \ {<<>>}]
  BY <1>4, <1>5
<1> HIDE DEF n, months
<1>7. g \in Seq(Seq(requests) \ {<<>>}) /\ Len(g) = n
  BY <1>3, <1>6
<1> QED
  BY <1>3, <1>7 DEF ListedIn

\* Of finitely many payments one is not earlier than any other.
LEMMA LatestExists ==
  ASSUME CheckpointRows, NEW S \in SUBSET requests, S # {}
  PROVE  \E q \in S : \A r \in S : Instant[r] <= Instant[q]
<1> DEFINE G == {T \in SUBSET S : T # {} => \E q \in T : \A r \in T : Instant[r] <= Instant[q]}
<1>1. IsFiniteSet(S) /\ \A r \in S : Instant[r] \in Nat
  BY CheckpointAssumption, FS_Subset DEF CheckpointRows
<1>2. {} \in G
  OBVIOUS
<1>3. ASSUME NEW T \in SUBSET S, NEW x \in T, T \ {x} \in G
      PROVE  T \in G
  <2>1. CASE T \ {x} = {}
    BY <1>1, <2>1
  <2>2. CASE T \ {x} # {}
    <3>1. PICK q \in T \ {x} : \A r \in T \ {x} : Instant[r] <= Instant[q]
      BY <1>3, <2>2
    <3>2. CASE Instant[x] <= Instant[q]
      BY <1>1, <3>1, <3>2
    <3>3. CASE ~(Instant[x] <= Instant[q])
      <4>1. \A r \in T : Instant[r] <= Instant[x]
        BY <1>1, <3>1, <3>3
      <4> QED
        BY <4>1
    <3> QED
      BY <3>2, <3>3
  <2> QED
    BY <2>1, <2>2
<1> HIDE DEF G
<1>4. S \in G
  BY <1>1, <1>2, <1>3, ElementInduction
<1> QED
  BY <1>4 DEF G

LEMMA LatestTyped ==
  ASSUME CheckpointRows, NEW p
  PROVE  LatestBefore(p) \in Payment \cup {Absent}
<1> DEFINE earlier == {q \in snapshots : Before(q, p)}
<1>1. CASE earlier = {}
  BY <1>1 DEF LatestBefore
<1>2. CASE earlier # {}
  <2>1. \E q \in earlier : \A r \in earlier : Instant[r] <= Instant[q]
    BY <1>2, LatestExists DEF CheckpointRows
  <2>2. LatestBefore(p) = CHOOSE q \in earlier : \A r \in earlier : Instant[r] <= Instant[q]
    BY <1>2 DEF LatestBefore
  <2>3. LatestBefore(p) \in earlier
    BY <2>1, <2>2
  <2> QED
    BY <2>3 DEF CheckpointRows
<1> QED
  BY <1>1, <1>2

-----------------------------------------------------------------------------
(* The steps of a run.                                                     *)

\* A step of one run, which may store a snapshot.
RunGoesOn(w, run) == worker' = [worker EXCEPT ![w] = run] /\ RunTyped(run, requests)

LEMMA RunTypedAsIs ==
  ASSUME CheckpointRows, NEW w \in Worker
  PROVE  RunTyped(worker[w], requests)
BY DEF CheckpointRows

LEMMA StagesOn ==
  ASSUME NEW run, NEW found, RunTyped(run, found), NEW s \in Stages, run.groups # <<>>
  PROVE  /\ [run EXCEPT !.stage = s] = [stage |-> s, groups |-> run.groups, built |-> run.built]
         /\ RunTyped([stage |-> s, groups |-> run.groups, built |-> run.built], found)
BY DEF RunTyped

LEMMA ThroughMoves ==
  ASSUME CheckpointRows, NEW w \in Worker, NEW run, RunGoesOn(w, run), NEW X,
         Through \subseteq X, snapshots' \subseteq X, Cleared(run) \subseteq X
  PROVE  Through' \subseteq X
<1>1. \A v \in Worker : worker'[v] = IF v = w THEN run ELSE worker[v]
  BY DEF RunGoesOn, CheckpointRows
<1>2. \A v \in Worker : Cleared(worker'[v]) \subseteq X
  BY <1>1 DEF Through
<1>3. Through' = snapshots' \cup UNION {Cleared(worker'[v]) : v \in Worker}
  BY DEF Through, Cleared
<1> QED
  BY <1>2, <1>3

LEMMA RunsStayTyped ==
  ASSUME CheckpointRows, NEW w \in Worker, NEW run, RunGoesOn(w, run)
  PROVE  DOMAIN worker' = Worker /\ \A v \in Worker : RunTyped(worker'[v], requests)
<1>1. DOMAIN worker' = Worker /\ \A v \in Worker : worker'[v] = IF v = w THEN run ELSE worker[v]
  BY DEF RunGoesOn, CheckpointRows
<1> QED
  BY <1>1 DEF RunGoesOn, CheckpointRows

LEMMA RunMoves ==
  ASSUME CheckpointInv, NEW w \in Worker, NEW run, RunGoesOn(w, run), UNCHANGED storedVars,
         Cleared(run) \subseteq Through
  PROVE  CheckpointInv'
<1>1. UNCHANGED <<requests, snapshots, chain, since>>
  BY DEF storedVars
<1>2. Through' \subseteq Through
  BY <1>1, ThroughMoves DEF CheckpointInv, Through
<1>3. AloneThrough'
  BY <1>2 DEF CheckpointInv, AloneThrough, SameInstant
<1>4. CheckpointRows'
  <2>1. DOMAIN worker' = Worker /\ \A v \in Worker : RunTyped(worker'[v], requests)
    BY RunsStayTyped DEF CheckpointInv
  <2> QED
    BY <1>1, <2>1 DEF CheckpointInv, CheckpointRows
<1> QED
  BY <1>1, <1>3, <1>4 DEF CheckpointInv, ReportFollowsChain

\* The rest of the group is given up, or the next request of it is up.
LEMMA GroupGivenUp ==
  ASSUME CheckpointRows, NEW w \in Worker, worker[w].groups # <<>>, NextGroup(w)
  PROVE  \E run : RunGoesOn(w, run) /\ Cleared(run) = {}
<1> DEFINE g == worker[w].groups
           next == [stage |-> "group", groups |-> Tail(g), built |-> Absent]
<1>1. ListedIn(g, requests) /\ g # <<>>
  BY RunTypedAsIs DEF RunTyped
<1>2. CASE Len(g) = 1
  <2>1. worker' = [worker EXCEPT ![w] = Resting]
    BY <1>2 DEF NextGroup
  <2>2. RunTyped(Resting, requests) /\ Cleared(Resting) = {}
    BY DEF RunTyped, Resting, Stages, ListedIn, Cleared
  <2> QED
    BY <2>1, <2>2 DEF RunGoesOn
<1>3. CASE Len(g) # 1
  <2>1. worker' = [worker EXCEPT ![w] = next]
    BY <1>3 DEF NextGroup
  <2>2. ListedIn(Tail(g), requests) /\ Tail(g) # <<>>
    BY <1>1, <1>3, ListsRest
  <2>3. RunTyped(next, requests) /\ Cleared(next) = {}
    BY <2>2 DEF RunTyped, Stages, Cleared
  <2> QED
    BY <2>1, <2>3 DEF RunGoesOn
<1> QED
  BY <1>2, <1>3

LEMMA RequestDone ==
  ASSUME CheckpointRows, NEW w \in Worker, worker[w].stage \in {"replay", "report", "persist"}, NextRequest(w)
  PROVE  \E run : RunGoesOn(w, run) /\ Cleared(run) \subseteq Cleared(worker[w])
<1> DEFINE g == worker[w].groups
           rest == <<Tail(Head(g))>> \o Tail(g)
           next == [stage |-> "replay", groups |-> rest, built |-> Absent]
<1>1. ListedIn(g, requests) /\ g # <<>>
  BY RunTypedAsIs DEF RunTyped
<1>2. CASE Len(Head(g)) = 1
  <2>1. NextGroup(w)
    BY <1>2 DEF NextRequest
  <2> QED
    BY <1>1, <2>1, GroupGivenUp
<1>3. CASE Len(Head(g)) # 1
  <2>1. worker' = [worker EXCEPT ![w] = next]
    BY <1>3 DEF NextRequest
  <2>2. ListedIn(rest, requests) /\ rest # <<>> /\ Head(rest) = Tail(Head(g)) /\ ToSet(Tail(Head(g))) \subseteq ToSet(Head(g))
    BY <1>1, <1>3, ListsRest
  <2>3. Cleared(worker[w]) = ToSet(Head(g))
    BY DEF Cleared
  <2> HIDE DEF rest
  <2>4. RunTyped(next, requests)
    BY <2>2 DEF RunTyped, Stages
  <2>5. Cleared(next) \subseteq Cleared(worker[w])
    BY <2>2, <2>3 DEF Cleared
  <2> QED
    BY <2>1, <2>4, <2>5 DEF RunGoesOn
<1> QED
  BY <1>2, <1>3

\* The request that is up is one of those the run found alone.
LEMMA UpIsCleared ==
  ASSUME CheckpointRows, NEW w \in Worker, worker[w].stage \in {"replay", "report", "persist"}
  PROVE  /\ Cleared(worker[w]) = ToSet(Head(worker[w].groups)) /\ Cleared(worker[w]) \subseteq Through
         /\ Up(w) \in Cleared(worker[w]) /\ Up(w) \in requests
         /\ worker[w].groups # <<>>
<1>1. ListedIn(worker[w].groups, requests) /\ worker[w].groups # <<>>
  BY RunTypedAsIs DEF RunTyped
<1>2. Cleared(worker[w]) = ToSet(Head(worker[w].groups)) /\ Cleared(worker[w]) \subseteq Through
  BY DEF Cleared, Through
<1>3. Head(Head(worker[w].groups)) \in requests /\ Head(Head(worker[w].groups)) \in ToSet(Head(worker[w].groups))
  BY <1>1, ListsRest
<1> QED
  BY <1>1, <1>2, <1>3 DEF Up

LEMMA ProceedsTo ==
  ASSUME CheckpointRows, NEW w \in Worker, NEW s \in Stages, worker[w].groups # <<>>, Proceed(w, s)
  PROVE  \E run : RunGoesOn(w, run) /\ run.stage = s /\ run.groups = worker[w].groups
<1> DEFINE run == [stage |-> s, groups |-> worker[w].groups, built |-> worker[w].built]
<1>1. RunTyped(worker[w], requests)
  BY RunTypedAsIs
<1>2. [worker[w] EXCEPT !.stage = s] = run /\ RunTyped(run, requests)
  BY <1>1, StagesOn
<1>3. worker' = [worker EXCEPT ![w] = run]
  BY <1>2 DEF Proceed
<1> QED
  BY <1>2, <1>3 DEF RunGoesOn

-----------------------------------------------------------------------------
(* The actions.                                                            *)

LEMMA RecordKeeps ==
  ASSUME CheckpointInv, NEW p \in Payment, RecordPayment(p)
  PROVE  CheckpointInv'
<1>1. requests' = requests \cup {p} /\ UNCHANGED <<snapshots, chain, since, worker>>
  BY DEF RecordPayment
<1>2. IsFiniteSet(requests')
  BY <1>1, FS_AddElement DEF CheckpointInv, CheckpointRows
<1>3. \A w \in Worker : RunTyped(worker[w], requests')
  <2>1. ASSUME NEW w \in Worker
        PROVE  RunTyped(worker[w], requests')
    <3>1. RunTyped(worker[w], requests)
      BY RunTypedAsIs DEF CheckpointInv
    <3>2. ListedIn(worker[w].groups, requests')
      BY <1>1, <3>1, ListGrows DEF RunTyped
    <3> QED
      BY <3>1, <3>2 DEF RunTyped
  <2> QED
    BY <2>1
<1>4. CheckpointRows'
  BY <1>1, <1>2, <1>3 DEF CheckpointInv, CheckpointRows
<1>5. AloneThrough' /\ ReportFollowsChain'
  BY <1>1 DEF CheckpointInv, AloneThrough, Through, Cleared, SameInstant, ReportFollowsChain
<1> QED
  BY <1>4, <1>5 DEF CheckpointInv

LEMMA DiscoverKeeps ==
  ASSUME CheckpointInv, NEW w \in Worker, DiscoverPending(w)
  PROVE  CheckpointInv'
<1>0. PICK D \in Discovered : \E g \in Groups(D) :
        worker' = [worker EXCEPT ![w] = [stage |-> "group", groups |-> g, built |-> Absent]]
  BY DEF DiscoverPending
<1>1. PICK g \in Groups(D) : worker' = [worker EXCEPT ![w] = [stage |-> "group", groups |-> g, built |-> Absent]]
  BY <1>0
<1> DEFINE run == [stage |-> "group", groups |-> g, built |-> Absent]
<1>2. ListedIn(g, requests) /\ g # <<>>
  BY GroupsListed DEF CheckpointInv, DiscoverPending
<1>3. RunTyped(run, requests) /\ Cleared(run) = {}
  BY <1>2 DEF RunTyped, Stages, Cleared
<1>4. worker' = [worker EXCEPT ![w] = run]
  BY <1>1
<1> HIDE DEF run
<1>5. UNCHANGED storedVars /\ RunGoesOn(w, run) /\ Cleared(run) \subseteq Through
  BY <1>3, <1>4 DEF DiscoverPending, RunGoesOn
<1> QED
  BY <1>5, RunMoves

\* A run that finds its group alone is the last to have looked: whoever found
\* the other of two requests alone did so before this one was recorded, or
\* would have seen it.
LEMMA CheckKeeps ==
  ASSUME CheckpointInv, NEW w \in Worker, CheckGroup(w)
  PROVE  CheckpointInv'
<1> DEFINE group == Head(worker[w].groups)
<1>1. /\ CheckpointRows /\ worker[w].stage = "group" /\ worker[w].groups # <<>>
      /\ UNCHANGED storedVars
      /\ group \in Seq(requests) \ {<<>>} /\ ToSet(group) \subseteq requests
  <2>1. ListedIn(worker[w].groups, requests) /\ worker[w].groups # <<>>
    BY RunTypedAsIs DEF CheckpointInv, CheckGroup, RunTyped
  <2> QED
    BY <2>1, ListsRest DEF CheckpointInv, CheckGroup
<1>2. CASE Blocked(group)
  <2>1. NextGroup(w)
    BY <1>2 DEF CheckGroup
  <2>2. PICK run : RunGoesOn(w, run) /\ Cleared(run) = {}
    BY <1>1, <2>1, GroupGivenUp
  <2> QED
    BY <1>1, <2>2, RunMoves
<1>3. CASE ~Blocked(group)
  <2>1. Proceed(w, "replay") /\ "replay" \in Stages
    BY <1>3 DEF CheckGroup, Stages
  <2>2. PICK run : RunGoesOn(w, run) /\ run.stage = "replay" /\ run.groups = worker[w].groups
    BY <1>1, <2>1, ProceedsTo
  <2>3. Cleared(run) = ToSet(group)
    BY <2>2 DEF Cleared
  <2>4. UNCHANGED <<requests, snapshots, chain, since>>
    BY <1>1 DEF storedVars
  <2>5. Through' \subseteq Through \cup ToSet(group)
    <3> DEFINE X == Through \cup ToSet(group)
    <3>1. Through \subseteq X /\ snapshots' \subseteq X /\ Cleared(run) \subseteq X
      BY <2>3, <2>4 DEF Through
    <3> HIDE DEF X
    <3>2. Through' \subseteq X
      BY <1>1, <2>2, <3>1, ThroughMoves
    <3> QED
      BY <3>2 DEF X
  <2>6. Through \subseteq requests
    <3>1. ASSUME NEW v \in Worker
          PROVE  Cleared(worker[v]) \subseteq requests
      <4>1. CASE worker[v].stage \in {"replay", "report", "persist"}
        <5>1. ListedIn(worker[v].groups, requests) /\ worker[v].groups # <<>>
          BY <1>1, <4>1, RunTypedAsIs DEF RunTyped
        <5>2. ToSet(Head(worker[v].groups)) \subseteq requests
          BY <5>1, ListsRest
        <5> QED
          BY <5>2 DEF Cleared
      <4>2. CASE worker[v].stage \notin {"replay", "report", "persist"}
        BY <4>2 DEF Cleared
      <4> QED
        BY <4>1, <4>2
    <3> QED
      BY <1>1, <3>1 DEF Through, CheckpointRows
  <2>7. ASSUME NEW p \in ToSet(group), NEW q \in requests
        PROVE  ~SameInstant(p, q) /\ ~SameInstant(q, p)
    BY <1>3 DEF Blocked, SameInstant
  <2>8. \A p, q \in Through : ~SameInstant(p, q)
    BY DEF CheckpointInv, AloneThrough
  <2>9. ASSUME NEW p \in Through', NEW q \in Through'
        PROVE  ~SameInstant(p, q)
    <3>1. CASE p \in ToSet(group) \/ q \in ToSet(group)
      BY <1>1, <2>5, <2>6, <2>7, <3>1
    <3>2. CASE p \in Through /\ q \in Through
      BY <2>8, <3>2
    <3> QED
      BY <2>5, <3>1, <3>2
  <2>10. AloneThrough'
    BY <2>9 DEF AloneThrough, SameInstant
  <2>11. CheckpointRows'
    <3>1. DOMAIN worker' = Worker /\ \A v \in Worker : RunTyped(worker'[v], requests)
      BY <1>1, <2>2, RunsStayTyped
    <3> QED
      BY <1>1, <2>4, <3>1 DEF CheckpointRows
  <2> QED
    BY <2>4, <2>10, <2>11 DEF CheckpointInv, ReportFollowsChain
<1> QED
  BY <1>2, <1>3

\* A step that stores nothing.
LEMMA RequestDoneKeeps ==
  ASSUME CheckpointInv, NEW w \in Worker, worker[w].stage \in {"replay", "report", "persist"},
         UNCHANGED storedVars, NextRequest(w)
  PROVE  CheckpointInv'
<1>1. CheckpointRows
  BY DEF CheckpointInv
<1>2. PICK run : RunGoesOn(w, run) /\ Cleared(run) \subseteq Cleared(worker[w])
  BY <1>1, RequestDone
<1>3. Cleared(run) \subseteq Through
  BY <1>1, <1>2, UpIsCleared
<1> QED
  BY <1>2, <1>3, RunMoves

LEMMA GroupGivenUpKeeps ==
  ASSUME CheckpointInv, NEW w \in Worker, worker[w].stage \in {"replay", "report", "persist"},
         UNCHANGED storedVars, NextGroup(w)
  PROVE  CheckpointInv'
<1>1. CheckpointRows /\ worker[w].groups # <<>>
  BY UpIsCleared DEF CheckpointInv
<1>2. PICK run : RunGoesOn(w, run) /\ Cleared(run) = {}
  BY <1>1, GroupGivenUp
<1> QED
  BY <1>2, RunMoves

LEMMA ReplayKeeps ==
  ASSUME CheckpointInv, NEW w \in Worker, ReplayBeforeLive(w)
  PROVE  CheckpointInv'
<1>1. worker[w].stage = "replay" /\ UNCHANGED storedVars
  BY DEF ReplayBeforeLive
<1>2. CASE Up(w) \in snapshots
  BY <1>1, <1>2, RequestDoneKeeps DEF ReplayBeforeLive
<1>3. CASE Up(w) \notin snapshots
  <2>1. Proceed(w, "report") /\ "report" \in Stages
    BY <1>3 DEF ReplayBeforeLive, Stages
  <2>2. /\ CheckpointRows /\ worker[w].groups # <<>>
        /\ Cleared(worker[w]) = ToSet(Head(worker[w].groups)) /\ Cleared(worker[w]) \subseteq Through
    BY <1>1, UpIsCleared DEF CheckpointInv
  <2>3. PICK run : RunGoesOn(w, run) /\ run.stage = "report" /\ run.groups = worker[w].groups
    BY <2>1, <2>2, ProceedsTo
  <2>4. Cleared(run) \subseteq Through
    BY <2>2, <2>3 DEF Cleared
  <2> QED
    BY <1>1, <2>3, <2>4, RunMoves
<1> QED
  BY <1>2, <1>3

LEMMA ReportKeeps ==
  ASSUME CheckpointInv, NEW w \in Worker, BuildReport(w)
  PROVE  CheckpointInv'
<1>1. worker[w].stage = "report" /\ UNCHANGED storedVars
  BY DEF BuildReport
<1>2. CASE Up(w) \in Failing
  BY <1>1, <1>2, GroupGivenUpKeeps DEF BuildReport
<1>3. CASE Up(w) \notin Failing
  <2> DEFINE run == [stage |-> "persist", groups |-> worker[w].groups, built |-> LatestBefore(Up(w))]
  <2>1. worker' = [worker EXCEPT ![w] = run]
    BY <1>3 DEF BuildReport
  <2>2. /\ CheckpointRows /\ worker[w].groups # <<>> /\ RunTyped(worker[w], requests)
        /\ Cleared(worker[w]) = ToSet(Head(worker[w].groups)) /\ Cleared(worker[w]) \subseteq Through
    BY <1>1, UpIsCleared, RunTypedAsIs DEF CheckpointInv
  <2>3. LatestBefore(Up(w)) \in Payment \cup {Absent}
    BY <2>2, LatestTyped
  <2>4. RunTyped(run, requests)
    BY <2>2, <2>3 DEF RunTyped, Stages
  <2>5. Cleared(run) \subseteq Through
    BY <2>2 DEF Cleared
  <2> HIDE DEF run
  <2>6. RunGoesOn(w, run)
    BY <2>1, <2>4 DEF RunGoesOn
  <2> QED
    BY <1>1, <2>5, <2>6, RunMoves
<1> QED
  BY <1>2, <1>3

\* What is stored was found alone, and its predecessor is the one its report
\* was built from.
LEMMA StoreKeeps ==
  ASSUME CheckpointInv, NEW w \in Worker, StoreSnapshot(w)
  PROVE  CheckpointInv'
<1> DEFINE p == Up(w)
<1>1. /\ worker[w].stage = "persist" /\ p \notin snapshots /\ LatestBefore(p) = worker[w].built
      /\ snapshots' = snapshots \cup {p} /\ requests' = requests /\ NextRequest(w)
      /\ chain' = [chain EXCEPT ![p] = LatestBefore(p)]
      /\ since' = [since EXCEPT ![p] = worker[w].built]
  BY DEF StoreSnapshot, ChainUnmoved
<1>2. /\ CheckpointRows /\ Cleared(worker[w]) \subseteq Through /\ p \in Cleared(worker[w]) /\ p \in requests
  BY <1>1, UpIsCleared DEF CheckpointInv
<1>3. p \in Payment /\ LatestBefore(p) \in Payment \cup {Absent}
  BY <1>2, LatestTyped DEF CheckpointRows
<1>4. PICK run : RunGoesOn(w, run) /\ Cleared(run) \subseteq Cleared(worker[w])
  BY <1>1, <1>2, RequestDone
<1> HIDE DEF p
<1>5. Through' \subseteq Through
  <2>1. snapshots' \subseteq Through /\ Cleared(run) \subseteq Through
    BY <1>1, <1>2, <1>4 DEF Through
  <2> QED
    BY <1>2, <1>4, <2>1, ThroughMoves
<1>6. AloneThrough'
  BY <1>5 DEF CheckpointInv, AloneThrough, SameInstant
<1>7. chain' \in [Payment -> Payment \cup {Absent}] /\ since' \in [Payment -> Payment \cup {Absent}]
  BY <1>1, <1>2, <1>3 DEF CheckpointRows
<1>8. CheckpointRows'
  <2>1. DOMAIN worker' = Worker /\ \A v \in Worker : RunTyped(worker'[v], requests)
    BY <1>2, <1>4, RunsStayTyped
  <2> QED
    BY <1>1, <1>2, <1>7, <2>1 DEF CheckpointRows
<1>9. ReportFollowsChain'
  <2>1. ASSUME NEW q \in snapshots'
        PROVE  since'[q] = chain'[q]
    <3>1. chain \in [Payment -> Payment \cup {Absent}] /\ since \in [Payment -> Payment \cup {Absent}]
      BY <1>2 DEF CheckpointRows
    <3>2. CASE q = p
      BY <1>1, <1>3, <3>1, <3>2
    <3>3. CASE q # p
      BY <1>1, <3>1, <3>3 DEF CheckpointInv, ReportFollowsChain
    <3> QED
      BY <3>2, <3>3
  <2> QED
    BY <2>1 DEF ReportFollowsChain
<1> QED
  BY <1>6, <1>8, <1>9 DEF CheckpointInv

LEMMA RestKeeps ==
  ASSUME CheckpointInv, NEW w \in Worker, ProcessorFails(w) \/ StartAgain(w)
  PROVE  CheckpointInv'
<1> DEFINE failed == [stage |-> "failed", groups |-> <<>>, built |-> Absent]
<1>1. UNCHANGED storedVars /\ worker' \in {[worker EXCEPT ![w] = failed], [worker EXCEPT ![w] = Resting]}
  BY DEF ProcessorFails, StartAgain, Resting
<1>2. RunTyped(failed, requests) /\ Cleared(failed) = {} /\ RunTyped(Resting, requests) /\ Cleared(Resting) = {}
  BY DEF RunTyped, Stages, Resting, ListedIn, Cleared
<1> HIDE DEF failed
<1>3. \E run : RunGoesOn(w, run) /\ Cleared(run) = {}
  BY <1>1, <1>2 DEF RunGoesOn
<1> QED
  BY <1>1, <1>3, RunMoves

-----------------------------------------------------------------------------
LEMMA StartsInLine == CheckpointInit => CheckpointInv
<1> SUFFICES ASSUME CheckpointInit PROVE CheckpointInv
  OBVIOUS
<1>1. /\ requests = {} /\ snapshots = {} /\ worker = [w \in Worker |-> Resting]
      /\ chain = [p \in Payment |-> Absent] /\ since = [p \in Payment |-> Absent]
  BY DEF CheckpointInit
<1>2. RunTyped(Resting, {}) /\ Cleared(Resting) = {}
  BY DEF RunTyped, Stages, Resting, ListedIn, Cleared
<1>3. CheckpointRows
  BY <1>1, <1>2, FS_EmptySet DEF CheckpointRows
<1>4. Through = {}
  BY <1>1, <1>2 DEF Through
<1> QED
  BY <1>1, <1>3, <1>4 DEF CheckpointInv, AloneThrough, ReportFollowsChain

LEMMA StepStaysInLine == CheckpointInv /\ [CheckpointNext]_checkpointVars => CheckpointInv'
<1> SUFFICES ASSUME CheckpointInv, [CheckpointNext]_checkpointVars
             PROVE  CheckpointInv'
  OBVIOUS
<1>1. ASSUME NEW p \in Payment, RecordPayment(p)
      PROVE  CheckpointInv'
  BY <1>1, RecordKeeps
<1>2. ASSUME NEW w \in Worker, ProcessorStep(w)
      PROVE  CheckpointInv'
  <2>1. CASE DiscoverPending(w)
    BY <2>1, DiscoverKeeps
  <2>2. CASE CheckGroup(w)
    BY <2>2, CheckKeeps
  <2>3. CASE ReplayBeforeLive(w)
    BY <2>3, ReplayKeeps
  <2>4. CASE BuildReport(w)
    BY <2>4, ReportKeeps
  <2>5. CASE ObserveSnapshot(w)
    BY <2>5, RequestDoneKeeps DEF ObserveSnapshot
  <2>6. CASE PredecessorChanged(w)
    BY <2>6, GroupGivenUpKeeps DEF PredecessorChanged
  <2>7. CASE StoreSnapshot(w)
    BY <2>7, StoreKeeps
  <2>8. CASE ProcessorFails(w) \/ StartAgain(w)
    BY <2>8, RestKeeps
  <2> QED
    BY <1>2, <2>1, <2>2, <2>3, <2>4, <2>5, <2>6, <2>7, <2>8 DEF ProcessorStep
<1>3. CASE UNCHANGED checkpointVars
  BY <1>3 DEF checkpointVars, CheckpointInv, CheckpointRows, AloneThrough, Through, Cleared, SameInstant,
              ReportFollowsChain
<1> QED
  BY <1>1, <1>2, <1>3 DEF CheckpointNext

LEMMA InvInLine == CheckpointInv => CheckpointTypeOK /\ ReportsInLine
<1> SUFFICES ASSUME CheckpointInv PROVE CheckpointTypeOK /\ ReportsInLine
  OBVIOUS
<1>1. ASSUME NEW w \in Worker
      PROVE  /\ worker[w].stage \in Stages /\ worker[w].built \in Payment \cup {Absent}
             /\ worker[w].groups \in Seq(Seq(Payment))
  <2>1. RunTyped(worker[w], requests) /\ requests \subseteq Payment
    BY RunTypedAsIs DEF CheckpointInv, CheckpointRows
  <2>2. ListedIn(worker[w].groups, Payment)
    BY <2>1, ListGrows DEF RunTyped
  <2>3. worker[w].groups \in Seq(Seq(Payment) \ {<<>>})
    BY <2>2 DEF ListedIn
  <2>4. \A i \in 1..Len(worker[w].groups) : worker[w].groups[i] \in Seq(Payment)
    BY <2>3
  <2> QED
    BY <2>1, <2>3, <2>4 DEF RunTyped
<1>2. CheckpointTypeOK
  BY <1>1 DEF CheckpointInv, CheckpointRows, CheckpointTypeOK, Stages
<1>3. ReportsInLine
  BY DEF CheckpointInv, AloneThrough, Through, ReportsInLine, CollisionsUnresolved
<1> QED
  BY <1>2, <1>3

\* CheckpointTypeOK: the outbox, the snapshots, their chain and the runs keep
\* their types; a run only works through lists of payments.
THEOREM CheckpointsTyped == CheckpointSpec => []CheckpointTypeOK
<1>1. CheckpointSpec => []CheckpointInv
  BY StartsInLine, StepStaysInLine, PTL DEF CheckpointSpec
<1> QED
  BY <1>1, InvInLine, PTL

\* ReportsInLine: whatever other runs store meanwhile, the report of a snapshot
\* covers the time since the snapshot it follows, and of two payments of one
\* instant at most one has a snapshot.
THEOREM ReportsStayInLine == CheckpointSpec => []ReportsInLine
<1>1. CheckpointSpec => []CheckpointInv
  BY StartsInLine, StepStaysInLine, PTL DEF CheckpointSpec
<1> QED
  BY <1>1, InvInLine, PTL
=============================================================================
