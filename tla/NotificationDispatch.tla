------------------------ MODULE NotificationDispatch ------------------------
(***************************************************************************)
(* The hourly notification runs of src/notifications: how a stored event   *)
(* is delivered to the user's registered devices.  A run lists the events  *)
(* of the day and, for each, the active subscriptions; per pair it         *)
(* reserves a dispatch in one transaction, calls the push service outside  *)
(* any transaction, and records the result in a second one.  Runs overlap, *)
(* arrive late, arrive twice and may be cut off after any step.            *)
(*                                                                         *)
(* A transaction of a run is one step: it holds the delivery's row from    *)
(* its first statement on, and the subscription's before it reads it.  A   *)
(* statement that moves between the plan and the guard of the insert makes *)
(* the transaction fail; StatementMovesMeanwhile is that failure.          *)
(***************************************************************************)
EXTENDS Naturals, Sequences, FiniteSets, SequencesExt

CONSTANTS
    Run,            \* invocations of the scheduler
    SlotOf,         \* the hour each was scheduled for
    DueEvent,       \* stored CREDIT_CARD_DUE events of the day
    Device,         \* the user's push subscriptions
    MaxAttempts,    \* MAX_DELIVERY_ATTEMPTS
    MaxRevision,    \* bound on the revisions the user causes per subscription
    NoPair

Delivery == DueEvent \X Device

ASSUME DispatchAssumption ==
    /\ SlotOf \in [Run -> Nat] /\ MaxAttempts \in Nat \ {0} /\ MaxRevision \in Nat \ {0}
    /\ NoPair \notin Delivery

VARIABLES
    open,         \* the events whose credit card statement is OPEN
    device,       \* the latest revision of each subscription
    dispatches,   \* the dispatch chain of each delivery
    attempts,     \* the attempt chain of each delivery
    scheduler,    \* where each run is
    pushes,       \* the calls the push service received, in order
    gone          \* the revisions it answered 404 or 410 for

dispatchVars == <<open, device, dispatches, attempts, scheduler, pushes, gone>>

Outcome == {"SUCCESS", "RETRYABLE", "REJECTED", "GONE", "TERMINAL", "CONFIG"}
Final == {"SUCCESS", "TERMINAL", "SUPPRESSED"}
AttemptStatus == Final \cup {"RETRYABLE"}
AttemptOf(outcome) == CASE outcome = "SUCCESS" -> "SUCCESS"
                       [] outcome \in {"GONE", "TERMINAL"} -> "TERMINAL"
                       [] OTHER -> "RETRYABLE"
\* classifyPushResponseStatus: after 401 or 403, and when the transport's own
\* configuration is refused, the run stops once the result is recorded.
AbortsRun == {"REJECTED", "CONFIG"}

DispatchTypeOK ==
    /\ open \subseteq DueEvent
    /\ device \in [Device -> [no : 1..(MaxRevision + 1), active : BOOLEAN, reason : {"none", "user", "gone"}]]
    /\ \A x \in Delivery :
          /\ dispatches[x] \in Seq([slot : Nat, revision : 1..(MaxRevision + 1)])
          /\ attempts[x] \in Seq([status : AttemptStatus, dispatch : Nat])
          /\ \A i \in DOMAIN attempts[x] : attempts[x][i].dispatch \in 0..Len(dispatches[x])
    /\ scheduler \in [Run -> [stage : {"idle", "scanning", "reserved", "answered", "ended"},
                              events : SUBSET DueEvent, todo : SUBSET Delivery,
                              at : Delivery \cup {NoPair}, dispatch : Nat, outcome : Outcome]]
    /\ pushes \in Seq([delivery : Delivery, dispatch : Nat, slot : Nat, outcome : Outcome])
    /\ gone \subseteq Device \X Nat

-----------------------------------------------------------------------------
(* Reading a delivery's history.                                           *)

Known(x) == attempts[x] # <<>> \/ dispatches[x] # <<>>
Unresolved(x) == {n \in DOMAIN dispatches[x] :
                    \A i \in DOMAIN attempts[x] : attempts[x][i].dispatch # n}
\* The guard of the attempt chain: only a retryable failure is followed.
Appendable(x) == attempts[x] # <<>> => Last(attempts[x]).status = "RETRYABLE"
Concluded(x) == \E i \in DOMAIN attempts[x] : attempts[x][i].status \in Final

\* resolveStaleDispatchReservations: reservations of any other hour.
StaleDispatches(x, slot) == {n \in Unresolved(x) : dispatches[x][n].slot # slot}
\* In the order of their numbers.
Nth(S, i) == CHOOSE n \in S : Cardinality({m \in S : m < n}) = i - 1
SettledAs(x, slot, status) ==
    attempts[x] \o [i \in 1..Cardinality(StaleDispatches(x, slot)) |->
        [status |-> status, dispatch |-> Nth(StaleDispatches(x, slot), i)]]
SettledForRetry(x, slot) == SettledAs(x, slot, "RETRYABLE")
SettledAsDelivered(x, slot) == SettledAs(x, slot, "SUCCESS")
SettledHistory(x, slot) == SettledAs(x, slot, "TERMINAL")

\* planDeliveryAttempt over the history h.
Plan(x, h) ==
    IF \/ \E i \in DOMAIN h : h[i].status = "SUCCESS"
       \/ h # <<>> /\ Last(h).status \in Final THEN "SKIP"
    ELSE IF Len(h) >= MaxAttempts THEN "SKIP"
    ELSE IF x[1] \notin open THEN "SUPPRESS"
    ELSE "SEND"

Listed(d) == device[d].active
Undelivered(e) == {x \in Delivery : x[1] = e /\ Listed(x[2]) /\ ~Concluded(x)}

-----------------------------------------------------------------------------
DispatchInit ==
    /\ open = DueEvent
    /\ device = [d \in Device |-> [no |-> 1, active |-> TRUE, reason |-> "none"]]
    /\ dispatches = [x \in Delivery |-> <<>>]
    /\ attempts = [x \in Delivery |-> <<>>]
    /\ scheduler = [r \in Run |-> [stage |-> "idle", events |-> {}, todo |-> {}, at |-> NoPair,
                                   dispatch |-> 0, outcome |-> "CONFIG"]]
    /\ pushes = <<>>
    /\ gone = {}

Idle == [stage |-> "ended", events |-> {}, todo |-> {}, at |-> NoPair, dispatch |-> 0, outcome |-> "CONFIG"]
End(r) == scheduler' = [scheduler EXCEPT ![r] = Idle]
ScanAgain(r, x) == scheduler' = [scheduler EXCEPT ![r].stage = "scanning", ![r].at = NoPair]
Scan(r, x) == scheduler' = [scheduler EXCEPT ![r].stage = "scanning", ![r].todo = @ \ {x},
                                             ![r].at = NoPair, ![r].dispatch = 0, ![r].outcome = "CONFIG"]

ListEvents(r) ==
    /\ scheduler[r].stage = "idle"
    /\ scheduler' = [scheduler EXCEPT ![r].stage = "scanning",
                                      ![r].events = {e \in DueEvent : Undelivered(e) # {}}]
    /\ UNCHANGED <<open, device, dispatches, attempts, pushes, gone>>

ListSubscriptions(r, e) ==
    /\ scheduler[r].stage = "scanning" /\ scheduler[r].todo = {} /\ e \in scheduler[r].events
    /\ scheduler' = [scheduler EXCEPT ![r].events = @ \ {e}, ![r].todo = Undelivered(e)]
    /\ UNCHANGED <<open, device, dispatches, attempts, pushes, gone>>

EndRun(r) ==
    /\ scheduler[r].stage = "scanning" /\ scheduler[r].events = {} /\ scheduler[r].todo = {}
    /\ End(r)
    /\ UNCHANGED <<open, device, dispatches, attempts, pushes, gone>>

\* The Worker is cut off, or a step outside the model throws: the run stops
\* and whatever it reserved stays without a result.
CutOff(r) ==
    /\ scheduler[r].stage \in {"scanning", "reserved", "answered"}
    /\ End(r)
    /\ UNCHANGED <<open, device, dispatches, attempts, pushes, gone>>

-----------------------------------------------------------------------------
(* Transaction A, reserveInTransaction, for the pair x.                    *)

Reserving(r, x) == scheduler[r].stage = "scanning" /\ x \in scheduler[r].todo
\* The guards that reject the transaction before there is anything to plan:
\* a new delivery needs an active subscription, a stale dispatch an open chain.
Startable(r, x) == /\ ~Known(x) => Listed(x[2])
                   /\ StaleDispatches(x, SlotOf[r]) # {} => Appendable(x)
PlanOf(r, x) == Plan(x, SettledHistory(x, SlotOf[r]))
InFlight(r, x) == Unresolved(x) \ StaleDispatches(x, SlotOf[r])
TakenUnanswered(r, x) == \E n \in Unresolved(x) : dispatches[x][n].slot = SlotOf[r]
Taken(r, x) == \E n \in DOMAIN dispatches[x] : dispatches[x][n].slot = SlotOf[r]

ReserveNothing(r, x) ==
    /\ Reserving(r, x) /\ Startable(r, x)
    /\ \/ PlanOf(r, x) = "SKIP"
       \/ PlanOf(r, x) = "SEND" /\ Known(x) /\ ~Listed(x[2])
       \/ PlanOf(r, x) = "SEND" /\ Listed(x[2]) /\ InFlight(r, x) = {} /\ Taken(r, x)
    /\ attempts' = [attempts EXCEPT ![x] = SettledHistory(x, SlotOf[r])]
    /\ Scan(r, x)
    /\ UNCHANGED <<open, device, dispatches, pushes, gone>>

Suppress(r, x) ==
    /\ Reserving(r, x) /\ Startable(r, x) /\ PlanOf(r, x) = "SUPPRESS"
    /\ attempts' = [attempts EXCEPT ![x] =
                       Append(SettledHistory(x, SlotOf[r]), [status |-> "SUPPRESSED", dispatch |-> 0])]
    /\ Scan(r, x)
    /\ UNCHANGED <<open, device, dispatches, pushes, gone>>

ReserveDispatch(r, x) ==
    /\ Reserving(r, x) /\ Startable(r, x) /\ PlanOf(r, x) = "SEND"
    /\ Listed(x[2]) /\ InFlight(r, x) = {} /\ ~Taken(r, x)
    /\ attempts' = [attempts EXCEPT ![x] = SettledHistory(x, SlotOf[r])]
    /\ dispatches' = [dispatches EXCEPT ![x] = Append(@, [slot |-> SlotOf[r], revision |-> device[x[2]].no])]
    /\ scheduler' = [scheduler EXCEPT ![r].stage = "reserved", ![r].todo = @ \ {x}, ![r].at = x,
                                      ![r].dispatch = Len(dispatches[x]) + 1]
    /\ UNCHANGED <<open, device, pushes, gone>>

\* The insert guards raise: nothing is stored and the run ends.  A dispatch of
\* the same hour without a result is the guard's case, not the insert's.
ReservationFails(r, x) ==
    /\ Reserving(r, x)
    /\ \/ ~Startable(r, x)
       \/ PlanOf(r, x) = "SEND" /\ Listed(x[2]) /\ InFlight(r, x) # {}
    /\ End(r)
    /\ UNCHANGED <<open, device, dispatches, attempts, pushes, gone>>

StatementMoves(e) == open' = IF e \in open THEN open \ {e} ELSE open \cup {e}
StatementMovesMeanwhile(r, x) ==
    /\ Reserving(r, x) /\ Startable(r, x) /\ PlanOf(r, x) \in {"SEND", "SUPPRESS"}
    /\ StatementMoves(x[1])
    /\ End(r)
    /\ UNCHANGED <<device, dispatches, attempts, pushes, gone>>

-----------------------------------------------------------------------------
(* The push, and transaction B, finalizeInTransaction.                     *)

Send(r) ==
    /\ scheduler[r].stage = "reserved"
    /\ \E outcome \in Outcome :
          LET x == scheduler[r].at
              d == dispatches[x][scheduler[r].dispatch]
          IN  /\ scheduler' = [scheduler EXCEPT ![r].stage = "answered", ![r].outcome = outcome]
              /\ pushes' = IF outcome = "CONFIG" THEN pushes
                           ELSE Append(pushes, [delivery |-> x, dispatch |-> scheduler[r].dispatch,
                                                slot |-> d.slot, outcome |-> outcome])
              /\ gone' = IF outcome = "GONE" THEN gone \cup {<<x[2], d.revision>>} ELSE gone
    /\ UNCHANGED <<open, device, dispatches, attempts>>

Recordable(r) == Appendable(scheduler[r].at) /\ scheduler[r].dispatch \in Unresolved(scheduler[r].at)

StillActive(d, revision) == device[d].active
\* disablePushSubscriptionForEndpointGoneIfStillLatest.
StillLatest(d, revision) == device[d].no = revision
Retire(d, revision) ==
    device' = IF StillLatest(d, revision)
              THEN [device EXCEPT ![d] = [no |-> @.no + 1, active |-> FALSE, reason |-> "gone"]]
              ELSE device

Finalize(r) ==
    LET x == scheduler[r].at
        outcome == scheduler[r].outcome
    IN  /\ scheduler[r].stage = "answered" /\ Recordable(r)
        /\ attempts' = [attempts EXCEPT ![x] =
                           Append(@, [status |-> AttemptOf(outcome), dispatch |-> scheduler[r].dispatch])]
        /\ IF outcome = "GONE" THEN Retire(x[2], dispatches[x][scheduler[r].dispatch].revision)
                               ELSE UNCHANGED device
        /\ IF outcome \in AbortsRun THEN End(r) ELSE Scan(r, x)
        /\ UNCHANGED <<open, dispatches, pushes, gone>>

\* Another run settled the dispatch, or suppressed the delivery, meanwhile.
FinalizeFails(r) ==
    /\ scheduler[r].stage = "answered" /\ ~Recordable(r)
    /\ End(r)
    /\ UNCHANGED <<open, device, dispatches, attempts, pushes, gone>>

-----------------------------------------------------------------------------
(* The user: registering again and disabling a subscription, and paying or *)
(* reopening a statement.                                                  *)

Register(d) ==
    /\ device[d].no < MaxRevision
    /\ device' = [device EXCEPT ![d] = [no |-> @.no + 1, active |-> TRUE, reason |-> "none"]]
    /\ UNCHANGED <<open, dispatches, attempts, scheduler, pushes, gone>>

Disable(d) ==
    /\ device[d].active /\ device[d].no < MaxRevision
    /\ device' = [device EXCEPT ![d] = [no |-> @.no + 1, active |-> FALSE, reason |-> "user"]]
    /\ UNCHANGED <<open, dispatches, attempts, scheduler, pushes, gone>>

MoveStatement(e) ==
    /\ StatementMoves(e)
    /\ UNCHANGED <<device, dispatches, attempts, scheduler, pushes, gone>>

RunStep(r) ==
    \/ ListEvents(r) \/ EndRun(r) \/ Send(r) \/ Finalize(r) \/ FinalizeFails(r)
    \/ \E e \in DueEvent : ListSubscriptions(r, e)
    \/ \E x \in Delivery : \/ ReserveNothing(r, x) \/ Suppress(r, x) \/ ReserveDispatch(r, x)
                           \/ ReservationFails(r, x) \/ StatementMovesMeanwhile(r, x)
UserStep ==
    \/ \E d \in Device : Register(d) \/ Disable(d)
    \/ \E e \in DueEvent : MoveStatement(e)

DispatchNext == (\E r \in Run : RunStep(r) \/ CutOff(r)) \/ UserStep
DispatchSpec == DispatchInit /\ [][DispatchNext]_dispatchVars
DispatchFairness == \A r \in Run : WF_dispatchVars(RunStep(r))

-----------------------------------------------------------------------------
(* Properties.                                                             *)

\* However many runs overlap, repeat or stop half way, the push service
\* accepts a notification for one event and device at most once: the
\* reservation, its stale settlement and the attempt chain together.
AcceptedAtMostOnce ==
    \A i, j \in DOMAIN pushes :
        /\ i # j /\ pushes[i].delivery = pushes[j].delivery
        => ~(pushes[i].outcome = "SUCCESS" /\ pushes[j].outcome = "SUCCESS")

\* Within one hour a device is called at most once for an event, whatever the
\* answer was: a failed call is not repeated before the next hour.
CalledOncePerHour ==
    \A i, j \in DOMAIN pushes :
        /\ i # j /\ pushes[i].delivery = pushes[j].delivery
        => pushes[i].slot # pushes[j].slot

\* A delivery recorded as successful was accepted by the push service under
\* the very dispatch the record is bound to.
SuccessIsReal ==
    \A x \in Delivery : \A i \in DOMAIN attempts[x] :
        attempts[x][i].status = "SUCCESS"
        => \E j \in DOMAIN pushes : /\ pushes[j].delivery = x
                                    /\ pushes[j].dispatch = attempts[x][i].dispatch
                                    /\ pushes[j].outcome = "SUCCESS"

\* A subscription is retired as gone only when the revision that was its
\* latest is one the push service answered 404 or 410 for: a device that
\* registered again while the call was out keeps its new endpoint.
LiveEndpointKept ==
    \A d \in Device : device[d].reason = "gone" => <<d, device[d].no - 1>> \in gone

\* Every run that started ends: no guard, lock or race leaves it waiting.
RunsEnd == []<>(\A r \in Run : scheduler[r].stage \in {"idle", "ended"})

\* Overlapping, repeated and broken-off runs of src/notifications together
\* push once: one acceptance per event and device, one call per hour.
PushedOnce == AcceptedAtMostOnce /\ CalledOncePerHour

\* What transaction B writes down happened: successes and dead endpoints are
\* what the push service answered for that very dispatch and revision.
RecordsAreReal == SuccessIsReal /\ LiveEndpointKept
=============================================================================
