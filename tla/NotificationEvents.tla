------------------------- MODULE NotificationEvents --------------------------
(***************************************************************************)
(* How src/notifications/events.ts turns the day's credit card statements  *)
(* and spending into stored notification events, before an hourly run      *)
(* delivers any, under the insert guard of the notification_events table.  *)
(* One user, one day; hours are local.  The transactions of a run that     *)
(* materialise events follow each other and nothing interleaves with them  *)
(* but the user paying or reopening a statement.                           *)
(***************************************************************************)
EXTENDS Naturals

CONSTANTS
    Today, Tomorrow,     \* the statements due today and tomorrow
    OverBudget, NoSpend, \* what the spending of the day shows
    Hour                 \* the local hours runs are scheduled for

VARIABLES
    statements,    \* the statements that are OPEN
    events,        \* the stored events
    phase,         \* the transaction the run executes next
    hour,          \* the hour of the run
    ended          \* the hours of the runs that ended, and how

eventVars == <<statements, events, phase, hour, ended>>

Type == {"CREDIT_CARD_DUE", "CREDIT_CARD_DUE_SOON", "BUDGET_THRESHOLD", "NO_SPEND_CHECK"}
User == "user"

\* istanbulLocalHourToUtcInstant(localDate, ...) of the four materialisers.
ScheduledHour == [t \in Type |-> IF t \in {"CREDIT_CARD_DUE", "BUDGET_THRESHOLD"} THEN 10 ELSE 22]

\* trg_fn_guard_notification_event_insert: one type is known, and its instant
\* is 12:00 local of the due date.
GuardAccepts(type, scheduledHour) == type = "CREDIT_CARD_DUE" /\ scheduledHour = 12

EventsInit ==
    /\ statements \in SUBSET (Today \cup Tomorrow)
    /\ events = {}
    /\ phase = "idle" /\ hour = 0 /\ ended = {}

StartScheduler(h) ==
    /\ phase = "idle" /\ h > hour
    /\ phase' = "due" /\ hour' = h
    /\ UNCHANGED <<statements, events, ended>>

Eligible(type, subjects) == {s \in subjects \cap statements : <<type, s>> \notin events}

\* A rejected insert fails the transaction, and its exception ends the run.
Materialize(type, subjects, at, next) ==
    LET new == {<<type, s>> : s \in Eligible(type, subjects)}
    IN  /\ phase = at
        /\ IF new = {} \/ GuardAccepts(type, ScheduledHour[type])
           THEN /\ events' = events \cup new /\ phase' = next
                /\ UNCHANGED ended
           ELSE /\ phase' = "idle" /\ ended' = ended \cup {<<hour, "failed">>}
                /\ UNCHANGED events
        /\ UNCHANGED <<statements, hour>>

\* The same insert inside a try block: the exception is swallowed, and the
\* commit of the failed transaction stores nothing.
MaterializeQuietly(type, holds, at, next) ==
    /\ phase = at
    /\ events' = IF holds /\ GuardAccepts(type, ScheduledHour[type])
                 THEN events \cup {<<type, User>>} ELSE events
    /\ phase' = next
    /\ UNCHANGED <<statements, hour, ended>>

MaterializeDue == Materialize("CREDIT_CARD_DUE", Today, "due", "due_soon")
MaterializeDueSoon == Materialize("CREDIT_CARD_DUE_SOON", Tomorrow, "due_soon", "budget")
MaterializeBudgetThreshold ==
    MaterializeQuietly("BUDGET_THRESHOLD", OverBudget, "budget", "no_spend")
MaterializeNoSpendCheck ==
    MaterializeQuietly("NO_SPEND_CHECK", hour >= 22 /\ NoSpend, "no_spend", "deliver")

\* The delivery that follows is NotificationDispatch.
Deliver ==
    /\ phase = "deliver"
    /\ phase' = "idle" /\ ended' = ended \cup {<<hour, "delivered">>}
    /\ UNCHANGED <<statements, events, hour>>

PayOrReopen(s) ==
    /\ statements' = IF s \in statements THEN statements \ {s} ELSE statements \cup {s}
    /\ UNCHANGED <<events, phase, hour, ended>>

EventsNext ==
    \/ \E h \in Hour : StartScheduler(h)
    \/ MaterializeDue \/ MaterializeDueSoon \/ MaterializeBudgetThreshold
    \/ MaterializeNoSpendCheck \/ Deliver
    \/ \E s \in Today \cup Tomorrow : PayOrReopen(s)
EventsSpec == EventsInit /\ [][EventsNext]_eventVars

\* docs/FRONTEND_PRODUCT_UX_SPEC.md, notification schedule: a statement is
\* announced on its due date at 10:00.  A run of that hour or a later one that
\* met the open statement leaves its event behind.
AnnouncedOnDueDate ==
    [][\A s \in Today :
         /\ phase = "due" /\ phase' # "due" /\ hour >= 10 /\ s \in statements
         => <<"CREDIT_CARD_DUE", s>> \in events']_eventVars
=============================================================================
