----------------------------- MODULE PlanProofs -----------------------------
(***************************************************************************)
(* Proofs about budget plans and the long-term tasks that plans and        *)
(* closes fund, and about the reconciliation of a card's statements,       *)
(* which like a plan is a chain of revisions.                              *)
(***************************************************************************)
EXTENDS BudgetPlans, LongTermTasks, StatementReconciliation, Sums

-----------------------------------------------------------------------------
(***************************************************************************)
(* Proofs about BudgetPlans, for any requests and any history of incomes.  *)
(* The invariant PlanInv says of every snapshot what holds of the database *)
(* itself, that it has whole chains of what was true by then, and ties the *)
(* requests in progress to the rows they hold.  Whole chains are what      *)
(* makes one number enough: if the number after the latest one of a        *)
(* snapshot is free, nothing was stored since.                             *)
(***************************************************************************)

-----------------------------------------------------------------------------
(* The invariant.                                                          *)

Shaped(r) ==
    /\ r = [plan |-> r.plan, no |-> r.no, op |-> r.op, key |-> r.key, why |-> r.why,
            reference |-> r.reference]
    /\ r.plan \in Budget /\ r.no \in Nat \ {0} /\ r.op \in {"create", "refresh", "void"}
Whole(revisions) ==
    \A r \in revisions :
        /\ Shaped(r)
        /\ \A k \in 1..r.no : \E s \in RevisionsOf(revisions, r.plan) : s.no = k
        /\ \E s \in RevisionsOf(revisions, r.plan) :
              \A t \in RevisionsOf(revisions, r.plan) : t.no <= s.no
Known(revisions, i) ==
    \A r \in revisions : r.plan.version = "V1" => \E j \in 1..i : Incomes[j] = r.reference
Sound(v, revisions, upto) ==
    /\ v = [moment |-> v.moment, revisions |-> v.revisions, found |-> v.found]
    /\ v.moment \in 1..upto /\ v.revisions \subseteq revisions
    /\ Whole(v.revisions) /\ Known(v.revisions, v.moment)
    /\ v.found = [q \in DOMAIN v.found |-> v.found[q]] /\ DOMAIN v.found \subseteq ReferencePart
    /\ \A q \in DOMAIN v.found : v.found[q] = Incomes[v.moment][q]

Asking == \A c \in Planner : planStep[c] # "idle" => intent[c] \in Intents[c]
Viewing == view = [c \in Planner |-> view[c]] /\ \A c \in Planner : Sound(view[c], planned, moment)
Holding ==
    \A c \in Planner :
        planStep[c] = "reading" /\ intent[c].op \in {"refresh", "close"} =>
            planHolder[intent[c].plan] = c
Basing ==
    \A c \in Planner :
        planStep[c] = "reading" /\ intent[c].op = "refresh" =>
            InUse(intent[c].plan, view[c].revisions)

Existing ==
    \A c \in Planner :
        planStep[c] \in {"looked", "waiting"} /\ intent[c].op # "create" =>
            RevisionsOf(planned, intent[c].plan) # {}

PlanInv ==
    /\ PlanTypeOK
    /\ intent = [c \in Planner |-> intent[c]]
    /\ Asking
    /\ Viewing
    /\ Holding
    /\ Basing
    /\ Existing
    /\ Whole(planned)
    /\ FromOneMoment
    /\ NeverOlder
    /\ OneChain
    /\ ClosesOnLatest

-----------------------------------------------------------------------------
(* Chains.                                                                 *)

LEMMA LatestIsLast ==
    ASSUME NEW revisions, NEW p, Whole(revisions), RevisionsOf(revisions, p) # {}
    PROVE  /\ LatestOf(revisions, p) \in RevisionsOf(revisions, p)
           /\ \A s \in RevisionsOf(revisions, p) : s.no <= LatestOf(revisions, p).no
<1>1. PICK r \in RevisionsOf(revisions, p) : TRUE
  OBVIOUS
<1>2. r \in revisions /\ r.plan = p
  BY <1>1 DEF RevisionsOf
<1>3. \E s \in RevisionsOf(revisions, p) : \A t \in RevisionsOf(revisions, p) : t.no <= s.no
  BY <1>2 DEF Whole
<1> QED
  BY <1>3 DEF LatestOf

\* A revision whose number is free and follows another one's keeps the chain.
LEMMA Appending ==
    ASSUME Whole(planned), OneChain, NEW n, planned' = planned \cup {n}, Shaped(n),
           \A r \in planned : r.key # n.key,
           \A r \in RevisionsOf(planned, n.plan) : r.no # n.no,
           n.op = "create" <=> n.no = 1,
           n.no > 1 => \E s \in RevisionsOf(planned, n.plan) : s.no = n.no - 1 /\ s.op # "void"
    PROVE  /\ Whole(planned') /\ OneChain'
           /\ \A r \in RevisionsOf(planned, n.plan) : r.no < n.no
<1>1. \A r \in planned : Shaped(r) /\ r.no \in Nat \ {0}
  BY DEF Whole, Shaped
<1>2. n.no \in Nat \ {0}
  BY DEF Shaped
<1>3. \A r \in RevisionsOf(planned, n.plan) : r.no < n.no
  <2> SUFFICES ASSUME NEW r \in RevisionsOf(planned, n.plan), n.no <= r.no PROVE FALSE
    BY <1>1, <1>2 DEF RevisionsOf
  <2>1. r \in planned /\ r.plan = n.plan
    BY DEF RevisionsOf
  <2>2. n.no \in 1..r.no
    BY <1>1, <1>2, <2>1
  <2>3. \E s \in RevisionsOf(planned, n.plan) : s.no = n.no
    BY <2>1, <2>2 DEF Whole
  <2> QED
    BY <2>3
<1>4. \A k \in 1..n.no : \E s \in RevisionsOf(planned', n.plan) : s.no = k
  <2> SUFFICES ASSUME NEW k \in 1..n.no PROVE \E s \in RevisionsOf(planned', n.plan) : s.no = k
    OBVIOUS
  <2>1. CASE k = n.no
    BY <2>1 DEF RevisionsOf
  <2>2. CASE k # n.no
    <3>1. n.no > 1 /\ k \in 1..(n.no - 1)
      BY <1>2, <2>2
    <3>2. PICK s \in RevisionsOf(planned, n.plan) : s.no = n.no - 1
      BY <3>1
    <3>3. s \in planned /\ s.plan = n.plan
      BY DEF RevisionsOf
    <3>4. \E t \in RevisionsOf(planned, n.plan) : t.no = k
      BY <3>1, <3>2, <3>3 DEF Whole
    <3> QED
      BY <3>4 DEF RevisionsOf
  <2> QED
    BY <2>1, <2>2
<1>5. \A t \in RevisionsOf(planned', n.plan) : t.no <= n.no
  BY <1>1, <1>2, <1>3 DEF RevisionsOf
<1>6. n \in RevisionsOf(planned', n.plan)
  BY DEF RevisionsOf
<1>7. Whole(planned')
  <2> SUFFICES ASSUME NEW r \in planned'
               PROVE  /\ Shaped(r)
                      /\ \A k \in 1..r.no : \E s \in RevisionsOf(planned', r.plan) : s.no = k
                      /\ \E s \in RevisionsOf(planned', r.plan) :
                            \A t \in RevisionsOf(planned', r.plan) : t.no <= s.no
    BY DEF Whole
  <2>1. CASE r = n
    BY <2>1, <1>4, <1>5, <1>6
  <2>2. CASE r \in planned /\ r.plan = n.plan
    <3>1. r.no < n.no /\ r.no \in Nat \ {0}
      BY <2>2, <1>1, <1>3 DEF RevisionsOf
    <3>2. \A k \in 1..r.no : k \in 1..n.no
      BY <3>1, <1>2
    <3> QED
      BY <2>2, <3>2, <1>1, <1>4, <1>5, <1>6
  <2>3. CASE r \in planned /\ r.plan # n.plan
    <3>1. RevisionsOf(planned', r.plan) = RevisionsOf(planned, r.plan)
      BY <2>3 DEF RevisionsOf
    <3> QED
      BY <2>3, <3>1 DEF Whole
  <2> QED
    BY <2>1, <2>2, <2>3
<1>8. \A r, s \in planned' : r.key = s.key \/ (r.plan = s.plan /\ r.no = s.no) => r = s
  <2>1. \A r, s \in planned : r.key = s.key \/ (r.plan = s.plan /\ r.no = s.no) => r = s
    BY DEF OneChain
  <2>2. \A r \in planned : r.key # n.key /\ ~(r.plan = n.plan /\ r.no = n.no)
    BY DEF RevisionsOf
  <2> QED
    BY <2>1, <2>2
<1>9. \A r \in planned' : /\ r.op = "create" <=> r.no = 1
                          /\ r.no > 1 => \E s \in RevisionsOf(planned', r.plan) :
                                             s.no = r.no - 1 /\ s.op # "void"
  BY DEF OneChain, RevisionsOf
<1> QED
  BY <1>3, <1>7, <1>8, <1>9 DEF OneChain

-----------------------------------------------------------------------------
(* Snapshots.                                                              *)

LEMMA MomentsCount == PlanTypeOK => moment \in Nat /\ 1 <= moment /\ moment <= Len(Incomes)
BY PlanAssumption DEF PlanTypeOK

LEMMA SoundGrows ==
    ASSUME NEW v, NEW s, NEW t, NEW m \in Nat, NEW n \in Nat,
           Sound(v, s, m), s \subseteq t, m <= n
    PROVE  Sound(v, t, n)
BY DEF Sound

LEMMA NothingIsSound ==
    ASSUME NEW s, NEW m \in Nat, 1 <= m
    PROVE  Sound(NothingSeen, s, m)
<1>1. DOMAIN NothingSeen.found = {} /\ NothingSeen.found = [q \in {} |-> NothingSeen.found[q]]
  BY DEF NothingSeen
<1> QED
  BY <1>1 DEF Sound, NothingSeen, Whole, Known

\* A refresh whose next number is free has the whole chain in its snapshot.
LEMMA SnapshotIsWhole ==
    ASSUME Whole(planned), OneChain, NEW v, NEW m, Sound(v, planned, m), NEW p,
           RevisionsOf(v.revisions, p) # {},
           \A r \in RevisionsOf(planned, p) : r.no # LatestOf(v.revisions, p).no + 1
    PROVE  RevisionsOf(planned, p) = RevisionsOf(v.revisions, p)
<1> DEFINE last == LatestOf(v.revisions, p)
<1>1. last \in RevisionsOf(v.revisions, p)
  BY LatestIsLast DEF Sound
<1>2. last \in planned /\ last.plan = p /\ last \in v.revisions /\ last.no \in Nat \ {0}
  BY <1>1 DEF RevisionsOf, Sound, Whole, Shaped
<1> HIDE DEF last
<1>3. ASSUME NEW r \in RevisionsOf(planned, p) PROVE r \in RevisionsOf(v.revisions, p)
  <2>1. r \in planned /\ r.plan = p /\ r.no \in Nat \ {0}
    BY <1>3 DEF RevisionsOf, Whole, Shaped
  <2>2. r.no <= last.no
    <3> SUFFICES ASSUME last.no < r.no PROVE FALSE
      BY <1>2, <2>1
    <3>1. last.no + 1 \in 1..r.no
      BY <1>2, <2>1
    <3>2. \E s \in RevisionsOf(planned, p) : s.no = last.no + 1
      BY <2>1, <3>1 DEF Whole
    <3> QED
      BY <3>2 DEF last
  <2>3. r.no \in 1..last.no
    BY <1>2, <2>1, <2>2
  <2>4. PICK s \in RevisionsOf(v.revisions, p) : s.no = r.no
    BY <1>2, <2>3 DEF Sound, Whole
  <2>5. s \in planned /\ s.plan = p
    BY <2>4 DEF RevisionsOf, Sound
  <2>6. s = r
    BY <2>1, <2>4, <2>5 DEF OneChain
  <2> QED
    BY <2>4, <2>6
<1>4. RevisionsOf(v.revisions, p) \subseteq RevisionsOf(planned, p)
  BY DEF RevisionsOf, Sound
<1> QED
  BY <1>3, <1>4

-----------------------------------------------------------------------------
(* What all steps have in common.                                          *)

\* What is stored stays, and more is true of it the later it is.
LEMMA StoredStays ==
    ASSUME PlanInv, planned' = planned, moment' \in Nat, moment <= moment'
    PROVE  Whole(planned') /\ FromOneMoment' /\ NeverOlder' /\ OneChain'
<1>1. moment \in Nat /\ 1..moment \subseteq 1..moment'
  BY MomentsCount DEF PlanInv
<1>2. Whole(planned') /\ OneChain'
  BY DEF PlanInv, OneChain
<1>3. FromOneMoment'
  BY <1>1 DEF PlanInv, FromOneMoment
<1>4. NeverOlder'
  <2> SUFFICES ASSUME NEW r \in planned, NEW s \in planned,
                      r.plan = s.plan, r.plan.version = "V1", r.no < s.no
               PROVE  \E i \in 1..moment' : \E j \in i..moment' :
                          Incomes[i] = r.reference /\ Incomes[j] = s.reference
    BY DEF NeverOlder
  <2>1. PICK i \in 1..moment : \E j \in i..moment :
                          Incomes[i] = r.reference /\ Incomes[j] = s.reference
    BY DEF PlanInv, NeverOlder
  <2>2. PICK j \in i..moment : Incomes[i] = r.reference /\ Incomes[j] = s.reference
    BY <2>1
  <2>3. i \in 1..moment' /\ j \in i..moment'
    BY <1>1, <2>1, <2>2
  <2> QED
    BY <2>2, <2>3
<1> QED
  BY <1>2, <1>3, <1>4

\* A request that is decided leaves nothing behind but what it stored.
LEMMA DecidedKeeps ==
    ASSUME PlanInv, NEW c \in Planner, NEW w \in Intents[c],
           NEW answer \in {"stored", "replayed", "conflict", "refused"}, Decided(c, answer),
           intent' = [intent EXCEPT ![c] = w], moment' = moment, planned \subseteq planned',
           \A s \in closedOn' : s.plan \in Budget /\ s.no \in Nat,
           Whole(planned'), FromOneMoment', NeverOlder', OneChain',
           \A d \in Planner \ {c} : planStep[d] = "reading" /\ intent[d].op = "close" =>
               RevisionsOf(planned', intent[d].plan) = RevisionsOf(planned, intent[d].plan)
    PROVE  PlanInv'
<1> USE DEF PlanInv
<1>1. moment \in Nat /\ 1 <= moment
  BY MomentsCount
<1>2. /\ intent'[c] = w /\ planStep'[c] = "ended" /\ view'[c] = NothingSeen
      /\ \A d \in Planner \ {c} : /\ intent'[d] = intent[d] /\ planStep'[d] = planStep[d]
                                  /\ view'[d] = view[d]
      /\ intent' = [d \in Planner |-> intent'[d]] /\ view' = [d \in Planner |-> view'[d]]
  BY DEF Decided, PlanTypeOK, Viewing
<1>3. \A d \in Planner : Sound(view'[d], planned', moment')
  <2> TAKE d \in Planner
  <2>1. CASE d = c
    BY <1>1, <1>2, <2>1, NothingIsSound
  <2>2. CASE d # c
    <3>1. Sound(view[d], planned, moment)
      BY DEF Viewing
    <3> QED
      BY SMTT(30), <1>1, <1>2, <2>2, <3>1, SoundGrows
  <2> QED
    BY <2>1, <2>2
<1>4. Viewing'
  BY <1>2, <1>3 DEF Viewing
<1>5. Asking'
  BY <1>2 DEF Asking
<1>6. Holding'
  <2> SUFFICES ASSUME NEW d \in Planner, planStep'[d] = "reading", intent'[d].op \in {"refresh", "close"}
               PROVE  planHolder'[intent'[d].plan] = d
    BY DEF Holding
  <2>1. d # c /\ planHolder[intent[d].plan] = d
    BY <1>2 DEF Holding
  <2>2. intent[d].plan \in Budget
    BY <1>2, <2>1 DEF Asking, Budget
  <2> QED
    BY <1>2, <2>1, <2>2 DEF Decided
<1>7. Basing'
  BY <1>2 DEF Basing
<1>10. Existing'
  BY <1>2 DEF Existing, RevisionsOf
<1>8. ClosesOnLatest'
  <2> SUFFICES ASSUME NEW d \in Planner, planStep'[d] = "reading", intent'[d].op = "close"
               PROVE  /\ InUse(intent'[d].plan, planned')
                      /\ LatestOf(planned', intent'[d].plan).no = intent'[d].expected
    BY DEF ClosesOnLatest
  <2>1. /\ d # c /\ InUse(intent[d].plan, planned)
        /\ LatestOf(planned, intent[d].plan).no = intent[d].expected
    BY <1>2 DEF ClosesOnLatest
  <2>2. RevisionsOf(planned', intent[d].plan) = RevisionsOf(planned, intent[d].plan)
    BY <1>2, <2>1
  <2> QED
    BY <1>2, <2>1, <2>2 DEF InUse, LatestOf
<1>9. PlanTypeOK'
  <2>1. \A r \in planned' : /\ r.plan \in Budget /\ r.no \in Nat \ {0}
                            /\ r.op \in {"create", "refresh", "void"}
    BY DEF Whole, Shaped
  <2>2. \A d \in Planner : /\ intent'[d] \in Intents[d] \cup {Unplanned}
                           /\ view'[d].moment \in 1..moment' /\ view'[d].revisions \subseteq planned'
                           /\ DOMAIN view'[d].found \subseteq ReferencePart
    BY <1>2, <1>3 DEF PlanTypeOK, Sound
  <2>3. /\ planStep' \in [Planner -> {"idle", "looked", "waiting", "reading", "ended"}]
        /\ decision' \in [Planner -> {"stored", "replayed", "conflict", "refused", Unheard}]
        /\ planHolder' \in [Budget -> Planner \cup {NoPlanner}]
    BY DEF PlanTypeOK, Decided
  <2> QED
    BY <2>1, <2>2, <2>3 DEF PlanTypeOK
<1> QED
  BY <1>2, <1>4, <1>5, <1>6, <1>7, <1>8, <1>9, <1>10

\* A request that goes on, and may take a row that is free.
LEMMA GoingOnKeeps ==
    ASSUME PlanInv, NEW c \in Planner, NEW w \in Intents[c], NEW v,
           NEW to \in {"looked", "waiting", "reading"},
           UNCHANGED <<moment, planned, closedOn, decision>>,
           intent' = [intent EXCEPT ![c] = w], planStep' = [planStep EXCEPT ![c] = to],
           view' = [view EXCEPT ![c] = v], Sound(v, planned, moment),
           planHolder' \in [Budget -> Planner \cup {NoPlanner}],
           \A p \in Budget : planHolder[p] \in Planner \ {c} => planHolder'[p] = planHolder[p],
           to = "reading" /\ w.op \in {"refresh", "close"} => planHolder'[w.plan] = c,
           to = "reading" /\ w.op = "refresh" => InUse(w.plan, v.revisions),
           to = "reading" /\ w.op = "close" => InUse(w.plan, planned)
                                             /\ LatestOf(planned, w.plan).no = w.expected,
           to # "reading" /\ w.op # "create" => RevisionsOf(planned, w.plan) # {}
    PROVE  PlanInv'
<1> USE DEF PlanInv
<1>1. moment \in Nat /\ 1 <= moment
  BY MomentsCount
<1>2. /\ intent'[c] = w /\ planStep'[c] = to /\ view'[c] = v
      /\ \A d \in Planner \ {c} : /\ intent'[d] = intent[d] /\ planStep'[d] = planStep[d]
                                  /\ view'[d] = view[d]
      /\ intent' = [d \in Planner |-> intent'[d]] /\ view' = [d \in Planner |-> view'[d]]
  BY DEF PlanTypeOK, Viewing
<1>3. \A d \in Planner : Sound(view'[d], planned', moment')
  BY <1>2 DEF Viewing
<1>4. Viewing'
  BY <1>2, <1>3 DEF Viewing
<1>5. Asking'
  BY <1>2 DEF Asking
<1>6. Holding'
  <2> SUFFICES ASSUME NEW d \in Planner, planStep'[d] = "reading", intent'[d].op \in {"refresh", "close"}
               PROVE  planHolder'[intent'[d].plan] = d
    BY DEF Holding
  <2>1. CASE d = c
    BY <1>2, <2>1
  <2>2. CASE d # c
    <3>1. planHolder[intent[d].plan] = d /\ intent[d] \in Intents[d]
      BY <1>2, <2>2 DEF Holding, Asking
    <3>2. intent[d].plan \in Budget
      BY <3>1 DEF Budget
    <3> QED
      BY <1>2, <2>2, <3>1, <3>2
  <2> QED
    BY <2>1, <2>2
<1>7. Basing'
  BY <1>2 DEF Basing
<1>8. ClosesOnLatest'
  BY <1>2 DEF ClosesOnLatest
<1>9. PlanTypeOK'
  <2>1. \A d \in Planner : /\ intent'[d] \in Intents[d] \cup {Unplanned}
                           /\ view'[d].moment \in 1..moment' /\ view'[d].revisions \subseteq planned'
                           /\ DOMAIN view'[d].found \subseteq ReferencePart
    BY <1>2, <1>3 DEF PlanTypeOK, Sound
  <2>2. planStep' \in [Planner -> {"idle", "looked", "waiting", "reading", "ended"}]
    BY DEF PlanTypeOK
  <2> QED
    BY <2>1, <2>2 DEF PlanTypeOK
<1>10. Whole(planned') /\ FromOneMoment' /\ NeverOlder' /\ OneChain'
  BY <1>1, StoredStays
<1>11. Existing'
  BY <1>2 DEF Existing
<1> QED
  BY <1>2, <1>4, <1>5, <1>6, <1>7, <1>8, <1>9, <1>10, <1>11

\* A request that is decided without having stored anything.
LEMMA EndingKeeps ==
    ASSUME PlanInv, NEW c \in Planner, NEW w \in Intents[c],
           NEW answer \in {"stored", "replayed", "conflict", "refused"}, Decided(c, answer),
           intent' = [intent EXCEPT ![c] = w], UNCHANGED <<moment, planned, closedOn>>
    PROVE  PlanInv'
<1>1. moment \in Nat
  BY MomentsCount DEF PlanInv
<1>2. Whole(planned') /\ FromOneMoment' /\ NeverOlder' /\ OneChain'
  BY <1>1, StoredStays
<1>3. \A s \in closedOn' : s.plan \in Budget /\ s.no \in Nat
  BY DEF PlanInv, PlanTypeOK
<1> QED
  BY <1>2, <1>3, DecidedKeeps

\* A request in progress is one of those there are.
LEMMA AskedIsIntent ==
    ASSUME PlanInv, NEW c \in Planner, planStep[c] # "idle"
    PROVE  /\ intent[c] \in Intents[c] /\ intent[c].plan \in Budget
           /\ intent = [intent EXCEPT ![c] = intent[c]]
<1>1. intent[c] \in Intents[c]
  BY DEF PlanInv, Asking
<1>2. intent[c].plan \in Budget
  BY <1>1 DEF Budget
<1>3. intent = [intent EXCEPT ![c] = intent[c]]
  <2>1. intent = [d \in Planner |-> intent[d]]
    BY DEF PlanInv
  <2> QED
    BY <2>1
<1> QED
  BY <1>1, <1>2, <1>3

-----------------------------------------------------------------------------
(* Every step keeps the invariant.                                         *)

LEMMA RecallAnswers ==
    ASSUME NEW w, NEW revisions
    PROVE  Recall(w, revisions) \in {"stored", "replayed", "conflict", "refused"}
BY DEF Recall

LEMMA IntendKeeps ==
    ASSUME PlanInv, NEW c \in Planner, NEW w \in Intents[c], Intend(c, w)
    PROVE  PlanInv'
<1>1. CASE Decided(c, Recall(w, planned))
  BY <1>1, RecallAnswers, EndingKeeps DEF Intend
<1>2. CASE ProceedTo(c, "looked") /\ UNCHANGED <<view, decision, planHolder>>
  <2>1. view = [view EXCEPT ![c] = view[c]] /\ Sound(view[c], planned, moment)
    BY DEF PlanInv, Viewing
  <2>2. planHolder' \in [Budget -> Planner \cup {NoPlanner}]
    BY <1>2 DEF PlanInv, PlanTypeOK
  <2> QED
    BY <1>2, <2>1, <2>2, GoingOnKeeps DEF Intend, ProceedTo
<1> QED
  BY <1>1, <1>2 DEF Intend

LEMMA BeginPlanningKeeps ==
    ASSUME PlanInv, NEW c \in Planner, BeginPlanning(c)
    PROVE  PlanInv'
<1> DEFINE w == intent[c]
           v == [moment |-> moment, revisions |-> planned, found |-> <<>>]
           to == IF w.op = "create" THEN "reading" ELSE "waiting"
<1>1. w \in Intents[c] /\ intent' = [intent EXCEPT ![c] = w]
  BY AskedIsIntent DEF BeginPlanning
<1>2. CASE \E answer \in {"stored", "replayed", "conflict", "refused"} : Decided(c, answer)
  BY <1>1, <1>2, EndingKeeps DEF BeginPlanning
<1>3. CASE view' = [view EXCEPT ![c] = v] /\ ProceedTo(c, to) /\ UNCHANGED <<decision, planHolder>>
  <2>1. Sound(v, planned, moment)
    <3>1. moment \in 1..moment
      BY MomentsCount DEF PlanInv
    <3>2. Whole(planned) /\ Known(planned, moment)
      BY DEF PlanInv, FromOneMoment, Known
    <3>3. DOMAIN v.found = {} /\ v.found = [q \in {} |-> v.found[q]]
      OBVIOUS
    <3> QED
      BY <3>1, <3>2, <3>3 DEF Sound
  <2>2. planHolder' \in [Budget -> Planner \cup {NoPlanner}]
    BY <1>3 DEF PlanInv, PlanTypeOK
  <2>3. to \in {"looked", "waiting", "reading"} /\ (to = "reading" => w.op = "create")
    OBVIOUS
  <2>4. w.op # "create" => RevisionsOf(planned, w.plan) # {}
    BY DEF BeginPlanning, PlanInv, Existing
  <2> HIDE DEF w, v, to
  <2> QED
    BY <1>1, <1>3, <2>1, <2>2, <2>3, <2>4, GoingOnKeeps DEF BeginPlanning, ProceedTo
<1> QED
  BY <1>2, <1>3 DEF BeginPlanning

LEMMA LockForRefreshKeeps ==
    ASSUME PlanInv, NEW c \in Planner, LockForRefresh(c)
    PROVE  PlanInv'
<1> DEFINE w == intent[c]
<1>1. w \in Intents[c] /\ w.plan \in Budget /\ intent' = [intent EXCEPT ![c] = w]
  BY AskedIsIntent DEF LockForRefresh
<1>2. CASE \E answer \in {"stored", "replayed", "conflict", "refused"} : Decided(c, answer)
  BY <1>1, <1>2, EndingKeeps DEF LockForRefresh
<1>3. CASE /\ InUse(w.plan, view[c].revisions) /\ planHolder' = [planHolder EXCEPT ![w.plan] = c]
           /\ ProceedTo(c, "reading") /\ UNCHANGED <<view, decision>>
  <2>1. view' = [view EXCEPT ![c] = view[c]] /\ Sound(view[c], planned, moment)
    BY <1>3 DEF PlanInv, Viewing
  <2>2. planHolder' \in [Budget -> Planner \cup {NoPlanner}] /\ planHolder'[w.plan] = c
    BY <1>1, <1>3 DEF PlanInv, PlanTypeOK
  <2>3. \A p \in Budget : planHolder[p] \in Planner \ {c} => planHolder'[p] = planHolder[p]
    BY <1>1, <1>3, PlanAssumption DEF PlanInv, PlanTypeOK, LockForRefresh
  <2>4. w.op = "refresh"
    BY DEF LockForRefresh
  <2> HIDE DEF w
  <2> QED
    BY <1>1, <1>3, <2>1, <2>2, <2>3, <2>4, GoingOnKeeps DEF LockForRefresh, ProceedTo
<1> QED
  BY <1>2, <1>3, RecallAnswers DEF LockForRefresh

LEMMA ReadReferenceKeeps ==
    ASSUME PlanInv, NEW c \in Planner, NEW part \in ReferencePart, ReadReference(c, part)
    PROVE  PlanInv'
<1> DEFINE w == intent[c]
           seen == view[c]
           found == [q \in DOMAIN seen.found \cup {part} |->
                        IF q = part THEN View(c)[part] ELSE seen.found[q]]
           v == [moment |-> seen.moment, revisions |-> seen.revisions, found |-> found]
<1>1. w \in Intents[c] /\ w.plan \in Budget /\ intent' = [intent EXCEPT ![c] = w]
  BY AskedIsIntent DEF ReadReference
<1>2. Sound(seen, planned, moment)
  BY DEF PlanInv, Viewing
<1>3. seen = [moment |-> seen.moment, revisions |-> seen.revisions, found |-> seen.found]
  BY <1>2 DEF Sound
<1>4. [seen EXCEPT !.found = found] = v
  BY <1>3
<1>5. view' = [view EXCEPT ![c] = v]
  BY <1>4 DEF ReadReference
<1>6. v.moment = seen.moment /\ v.revisions = seen.revisions /\ v.found = found
  OBVIOUS
<1>7. DOMAIN found = DOMAIN seen.found \cup {part}
      /\ \A q \in DOMAIN found : found[q] = Incomes[seen.moment][q]
  BY <1>2 DEF Sound, View
<1>8. Sound(v, planned, moment)
  BY <1>2, <1>6, <1>7 DEF Sound
<1>9. planStep' = [planStep EXCEPT ![c] = "reading"]
  BY DEF ReadReference, PlanInv, PlanTypeOK
<1>10. planHolder' \in [Budget -> Planner \cup {NoPlanner}]
  BY DEF ReadReference, PlanInv, PlanTypeOK
<1>11. /\ w.op # "close"
       /\ w.op = "refresh" => planHolder'[w.plan] = c /\ InUse(w.plan, v.revisions)
  BY <1>6 DEF ReadReference, PlanInv, Holding, Basing
<1>12. UNCHANGED <<moment, planned, closedOn, decision, planHolder>>
  BY DEF ReadReference
<1> HIDE DEF w, v
<1> QED
  BY <1>1, <1>5, <1>8, <1>9, <1>10, <1>11, <1>12, GoingOnKeeps

\* A revision that follows the latest one, and rests on incomes no older.
LEMMA StoringKeeps ==
    ASSUME PlanInv, NEW c \in Planner, NEW w \in Intents[c], Decided(c, "stored"),
           intent' = [intent EXCEPT ![c] = w], UNCHANGED <<moment, closedOn>>,
           NEW n, planned' = planned \cup {n}, Shaped(n),
           \A r \in planned : r.key # n.key,
           \A r \in RevisionsOf(planned, n.plan) : r.no # n.no,
           n.op = "create" <=> n.no = 1,
           n.no > 1 => \E s \in RevisionsOf(planned, n.plan) : s.no = n.no - 1 /\ s.op # "void",
           n.plan.version = "V1" =>
               /\ \E j \in 1..moment : Incomes[j] = n.reference
               /\ \A r \in RevisionsOf(planned, n.plan) : \E i \in 1..moment : \E j \in i..moment :
                     Incomes[i] = r.reference /\ Incomes[j] = n.reference,
           \A d \in Planner \ {c} : planStep[d] = "reading" /\ intent[d].op = "close" =>
               intent[d].plan # n.plan
    PROVE  PlanInv'
<1>1. Whole(planned) /\ OneChain
  BY DEF PlanInv
<1>2. /\ Whole(planned') /\ OneChain'
      /\ \A r \in RevisionsOf(planned, n.plan) : r.no < n.no
  BY <1>1, Appending
<1>3. FromOneMoment'
  BY DEF PlanInv, FromOneMoment
<1>4. NeverOlder'
  <2> SUFFICES ASSUME NEW r \in planned', NEW s \in planned',
                      r.plan = s.plan, r.plan.version = "V1", r.no < s.no
               PROVE  \E i \in 1..moment : \E j \in i..moment :
                          Incomes[i] = r.reference /\ Incomes[j] = s.reference
    BY DEF NeverOlder
  <2>1. CASE r \in planned /\ s \in planned
    BY <2>1 DEF PlanInv, NeverOlder
  <2>2. CASE r \in planned /\ s = n
    BY <2>2 DEF RevisionsOf
  <2>3. CASE r = n
    <3>1. s \in RevisionsOf(planned, n.plan) \/ s = n
      BY <2>3 DEF RevisionsOf
    <3>2. n.no \in Nat /\ s.no \in Nat
      BY <1>2 DEF Whole, Shaped
    <3> QED
      BY <1>2, <2>3, <3>1, <3>2
  <2> QED
    BY <2>1, <2>2, <2>3
<1>5. \A s \in closedOn' : s.plan \in Budget /\ s.no \in Nat
  BY DEF PlanInv, PlanTypeOK
<1>6. \A d \in Planner \ {c} : planStep[d] = "reading" /\ intent[d].op = "close" =>
          RevisionsOf(planned', intent[d].plan) = RevisionsOf(planned, intent[d].plan)
  BY DEF RevisionsOf
<1> QED
  BY <1>2, <1>3, <1>4, <1>5, <1>6, DecidedKeeps

LEMMA StorePlanKeeps ==
    ASSUME PlanInv, NEW c \in Planner, StorePlan(c)
    PROVE  PlanInv'
<1> DEFINE w == intent[c]
           v == view[c]
           p == w.plan
           no == IF w.op = "create" THEN 1 ELSE LatestOf(v.revisions, p).no + 1
           n == [plan |-> p, no |-> no, op |-> w.op, key |-> w.key, why |-> w.why,
                 reference |-> Reference(c)]
<1>1. w \in Intents[c] /\ p \in Budget /\ intent' = [intent EXCEPT ![c] = w]
  BY AskedIsIntent DEF StorePlan
<1>2. CASE \E answer \in {"conflict", "refused"} : Decided(c, answer) /\ UNCHANGED planned
  BY <1>1, <1>2, EndingKeeps DEF StorePlan
<1>3. CASE Unclaimed(w, no) /\ planned' = planned \cup {n} /\ Decided(c, "stored")
  <2>1. /\ UNCHANGED <<moment, closedOn>> /\ planStep[c] = "reading" /\ w.op \in {"create", "refresh"}
        /\ p.version = "V1" => DOMAIN v.found = ReferencePart
    BY DEF StorePlan
  <2>2. Whole(planned) /\ OneChain /\ Sound(v, planned, moment) /\ moment \in Nat
    BY MomentsCount DEF PlanInv, Viewing
  <2>3. \A r \in planned : r.key # w.key
    BY <1>3 DEF Unclaimed, KeyFree, KeyTaken
  <2>4. \A r \in RevisionsOf(planned, p) : r.no # no
    BY <1>3 DEF Unclaimed
  <2>5. w.op = "create" => no = 1 /\ RevisionsOf(planned, p) = {}
    <3> SUFFICES ASSUME w.op = "create", NEW r \in RevisionsOf(planned, p) PROVE FALSE
      OBVIOUS
    <3>1. r \in planned /\ r.plan = p /\ r.no \in Nat \ {0}
      BY <2>2 DEF RevisionsOf, Whole, Shaped
    <3>2. 1 \in 1..r.no
      BY <3>1
    <3>3. \E s \in RevisionsOf(planned, p) : s.no = 1
      BY <2>2, <3>1, <3>2 DEF Whole
    <3> QED
      BY <2>4, <3>3
  <2>6. w.op = "refresh" =>
            /\ no = LatestOf(v.revisions, p).no + 1 /\ planHolder[p] = c /\ InUse(p, v.revisions)
            /\ RevisionsOf(planned, p) = RevisionsOf(v.revisions, p)
    <3> SUFFICES ASSUME w.op = "refresh"
                 PROVE  /\ no = LatestOf(v.revisions, p).no + 1 /\ planHolder[p] = c
                        /\ InUse(p, v.revisions)
                        /\ RevisionsOf(planned, p) = RevisionsOf(v.revisions, p)
      OBVIOUS
    <3>1. InUse(p, v.revisions) /\ planHolder[p] = c
      BY <2>1 DEF PlanInv, Basing, Holding
    <3>2. no = LatestOf(v.revisions, p).no + 1
      OBVIOUS
    <3>3. RevisionsOf(v.revisions, p) # {}
      BY <3>1 DEF InUse
    <3>4. RevisionsOf(planned, p) = RevisionsOf(v.revisions, p)
      BY <2>2, <2>4, <3>2, <3>3, SnapshotIsWhole
    <3> QED
      BY <3>1, <3>2, <3>4
  <2>7. /\ no \in Nat \ {0} /\ (w.op = "create" <=> no = 1)
        /\ no > 1 => \E s \in RevisionsOf(planned, p) : s.no = no - 1 /\ s.op # "void"
    <3>1. CASE w.op = "create"
      BY <2>5, <3>1
    <3>2. CASE w.op = "refresh"
      <4> DEFINE last == LatestOf(v.revisions, p)
      <4>1. last \in RevisionsOf(planned, p) /\ last.op # "void" /\ no = last.no + 1
        BY <2>2, <2>6, <3>2, LatestIsLast DEF Sound, InUse
      <4>2. last.no \in Nat \ {0}
        BY <2>2, <4>1 DEF RevisionsOf, Whole, Shaped
      <4> HIDE DEF last, no
      <4> QED
        BY <3>2, <4>1, <4>2
    <3> QED
      BY <2>1, <3>1, <3>2
  <2>8. Shaped(n)
    BY <1>1, <2>1, <2>7 DEF Shaped
  <2>9. ASSUME p.version = "V1"
        PROVE  /\ \E j \in 1..moment : Incomes[j] = n.reference
               /\ \A r \in RevisionsOf(planned, p) : \E i \in 1..moment : \E j \in i..moment :
                     Incomes[i] = r.reference /\ Incomes[j] = n.reference
    <3>1. v.moment \in 1..moment /\ v.moment \in DOMAIN Incomes
      BY <2>2, MomentsCount, PlanAssumption DEF Sound, PlanInv
    <3>2. Incomes[v.moment] \in [ReferencePart -> Nat]
      BY <3>1, PlanAssumption
    <3>3. Incomes[v.moment] = n.reference
      BY <2>1, <2>2, <2>9, <3>2 DEF Sound, Reference
    <3>4. ASSUME NEW r \in RevisionsOf(planned, p)
          PROVE  \E i \in 1..moment : \E j \in i..moment :
                     Incomes[i] = r.reference /\ Incomes[j] = n.reference
      <4>1. w.op = "refresh" /\ r \in v.revisions /\ r.plan = p
        BY <2>1, <2>5, <2>6, <3>4 DEF RevisionsOf
      <4>2. PICK i \in 1..v.moment : Incomes[i] = r.reference
        BY <2>2, <2>9, <4>1 DEF Sound, Known
      <4>3. i \in 1..moment /\ v.moment \in i..moment
        BY <2>2, <3>1, <4>2
      <4> QED
        BY <3>3, <4>2, <4>3
    <3> QED
      BY <3>1, <3>3, <3>4
  <2>10. ASSUME NEW d \in Planner \ {c}, planStep[d] = "reading", intent[d].op = "close"
         PROVE  intent[d].plan # p
    <3>1. planHolder[intent[d].plan] = d /\ RevisionsOf(planned, intent[d].plan) # {}
      BY <2>10 DEF PlanInv, Holding, ClosesOnLatest, InUse
    <3> QED
      BY <2>1, <2>5, <2>6, <3>1
  <2>11. n.plan = p /\ n.no = no /\ n.op = w.op /\ n.key = w.key
    OBVIOUS
  <2> HIDE DEF w, v, no, n, p
  <2>12. /\ \A r \in planned : r.key # n.key
         /\ \A r \in RevisionsOf(planned, n.plan) : r.no # n.no
         /\ n.op = "create" <=> n.no = 1
         /\ n.no > 1 => \E s \in RevisionsOf(planned, n.plan) : s.no = n.no - 1 /\ s.op # "void"
    BY <2>3, <2>4, <2>7, <2>11
  <2>13. n.plan.version = "V1" =>
             /\ \E j \in 1..moment : Incomes[j] = n.reference
             /\ \A r \in RevisionsOf(planned, n.plan) : \E i \in 1..moment : \E j \in i..moment :
                   Incomes[i] = r.reference /\ Incomes[j] = n.reference
    BY <2>9, <2>11
  <2>14. \A d \in Planner \ {c} : planStep[d] = "reading" /\ intent[d].op = "close" =>
             intent[d].plan # n.plan
    BY <2>10, <2>11
  <2> QED
    BY <1>1, <1>3, <2>1, <2>8, <2>12, <2>13, <2>14, StoringKeeps
<1> QED
  BY <1>2, <1>3 DEF StorePlan

LEMMA Voided ==
    ASSUME NEW r, NEW k, NEW y, Shaped(r)
    PROVE  [r EXCEPT !.no = @ + 1, !.op = "void", !.key = k, !.why = y] =
               [plan |-> r.plan, no |-> r.no + 1, op |-> "void", key |-> k, why |-> y,
                reference |-> r.reference]
<1> DEFINE f == [plan |-> r.plan, no |-> r.no, op |-> r.op, key |-> r.key, why |-> r.why,
                 reference |-> r.reference]
           g == [plan |-> r.plan, no |-> r.no + 1, op |-> "void", key |-> k, why |-> y,
                 reference |-> r.reference]
           h == [r EXCEPT !.no = @ + 1, !.op = "void", !.key = k, !.why = y]
<1>1. DOMAIN r = {"plan", "no", "op", "key", "why", "reference"}
  <2>1. r = f
    BY DEF Shaped
  <2>2. DOMAIN f = {"plan", "no", "op", "key", "why", "reference"}
    OBVIOUS
  <2> HIDE DEF f
  <2> QED
    BY <2>1, <2>2
<1>2. h = [x \in DOMAIN r |-> h[x]] /\ DOMAIN h = DOMAIN r
  OBVIOUS
<1>3. h.plan = g.plan /\ h.no = g.no /\ h.op = g.op /\ h.key = g.key /\ h.why = g.why
      /\ h.reference = g.reference
  BY <1>1
<1>4. DOMAIN g = DOMAIN r /\ g = [x \in DOMAIN g |-> g[x]]
  BY <1>1
<1> HIDE DEF f, g, h
<1>5. \A x \in DOMAIN r : h[x] = g[x]
  BY <1>1, <1>3
<1>6. h = g
  BY <1>2, <1>4, <1>5
<1> QED
  BY <1>6 DEF g, h

LEMMA VoidPlanKeeps ==
    ASSUME PlanInv, NEW c \in Planner, VoidPlan(c)
    PROVE  PlanInv'
<1> DEFINE w == intent[c]
           p == w.plan
           last == LatestOf(planned, p)
           n == [plan |-> last.plan, no |-> last.no + 1, op |-> "void", key |-> w.key,
                 why |-> w.why, reference |-> last.reference]
<1>1. w \in Intents[c] /\ p \in Budget /\ intent' = [intent EXCEPT ![c] = w]
  BY AskedIsIntent DEF VoidPlan
<1>2. CASE \E answer \in {"replayed", "conflict", "refused", "stored"} : Decided(c, answer) /\ UNCHANGED planned
  BY <1>1, <1>2, EndingKeeps DEF VoidPlan
<1>3. CASE /\ ~KeyTaken(w) /\ last.op # "void" /\ Decided(c, "stored")
           /\ planned' = planned \cup {[last EXCEPT !.no = @ + 1, !.op = "void",
                                                    !.key = w.key, !.why = w.why]}
  <2>1. UNCHANGED <<moment, closedOn>> /\ planHolder[p] = NoPlanner
    BY DEF VoidPlan
  <2>2. Whole(planned) /\ OneChain /\ moment \in Nat /\ NeverOlder /\ FromOneMoment
    BY MomentsCount DEF PlanInv
  <2>3. \A r \in planned : r.key # w.key
    BY <1>3 DEF KeyTaken
  <2>4. RevisionsOf(planned, p) # {}
    BY DEF PlanInv, Existing, VoidPlan
  <2>5. /\ last \in RevisionsOf(planned, p)
        /\ \A s \in RevisionsOf(planned, p) : s.no <= last.no
    BY <2>2, <2>4, LatestIsLast
  <2>6. last \in planned /\ last.plan = p /\ Shaped(last) /\ last.no \in Nat \ {0}
    BY <2>2, <2>5 DEF RevisionsOf, Whole, Shaped
  <2>7. /\ n.plan = p /\ n.no = last.no + 1 /\ n.op = "void" /\ n.key = w.key
        /\ n.reference = last.reference
    BY <2>6
  <2>8. planned' = planned \cup {n}
    <3>1. [last EXCEPT !.no = @ + 1, !.op = "void", !.key = w.key, !.why = w.why] = n
      <4> HIDE DEF last, w, p
      <4> QED
        BY <2>6, Voided
    <3> QED
      BY <1>3, <3>1
  <2>9. Shaped(n)
    <3> HIDE DEF last, w
    <3> QED
      BY <2>6 DEF Shaped
  <2>10. /\ \A r \in planned : r.key # n.key
         /\ \A r \in RevisionsOf(planned, n.plan) : r.no # n.no
         /\ n.op = "create" <=> n.no = 1
         /\ n.no > 1 => \E s \in RevisionsOf(planned, n.plan) : s.no = n.no - 1 /\ s.op # "void"
    <3>1. \A r \in RevisionsOf(planned, p) : r.no \in Nat
      BY <2>2 DEF RevisionsOf, Whole, Shaped
    <3> HIDE DEF last, n, w, p
    <3> QED
      BY <1>3, <2>3, <2>5, <2>6, <2>7, <3>1
  <2>11. n.plan.version = "V1" =>
             /\ \E j \in 1..moment : Incomes[j] = n.reference
             /\ \A r \in RevisionsOf(planned, n.plan) : \E i \in 1..moment : \E j \in i..moment :
                   Incomes[i] = r.reference /\ Incomes[j] = n.reference
    <3> HIDE DEF last, n, w, p
    <3> SUFFICES ASSUME p.version = "V1"
                 PROVE  /\ \E j \in 1..moment : Incomes[j] = last.reference
                        /\ \A r \in RevisionsOf(planned, p) : \E i \in 1..moment : \E j \in i..moment :
                              Incomes[i] = r.reference /\ Incomes[j] = last.reference
      BY <2>7
    <3>1. PICK k \in 1..moment : Incomes[k] = last.reference
      BY <2>2, <2>6 DEF FromOneMoment
    <3>2. ASSUME NEW r \in RevisionsOf(planned, p)
          PROVE  \E i \in 1..moment : \E j \in i..moment :
                     Incomes[i] = r.reference /\ Incomes[j] = last.reference
      <4>1. r \in planned /\ r.plan = p /\ r.no \in Nat
        BY <2>2, <3>2 DEF RevisionsOf, Whole, Shaped
      <4>2. CASE r.no < last.no
        BY <2>2, <2>6, <4>1, <4>2 DEF NeverOlder
      <4>3. CASE r.no = last.no
        <5>1. r = last
          BY <2>2, <2>6, <4>1, <4>3 DEF OneChain
        <5>2. k \in k..moment
          BY <2>2, <3>1
        <5> QED
          BY <3>1, <5>1, <5>2
      <4> QED
        BY <2>5, <2>6, <4>1, <4>2, <4>3
    <3> QED
      BY <3>1, <3>2
  <2>12. \A d \in Planner \ {c} : planStep[d] = "reading" /\ intent[d].op = "close" =>
             intent[d].plan # n.plan
    BY <2>1, <2>7, PlanAssumption DEF PlanInv, Holding
  <2> HIDE DEF last, n, w, p
  <2> QED
    BY <1>1, <1>3, <2>1, <2>8, <2>9, <2>10, <2>11, <2>12, StoringKeeps
<1> QED
  BY <1>2, <1>3, RecallAnswers DEF VoidPlan

LEMMA LockForCloseKeeps ==
    ASSUME PlanInv, NEW c \in Planner, LockForClose(c)
    PROVE  PlanInv'
<1> DEFINE w == intent[c]
<1>1. w \in Intents[c] /\ w.plan \in Budget /\ intent' = [intent EXCEPT ![c] = w]
  BY AskedIsIntent DEF LockForClose
<1>2. CASE Decided(c, "refused")
  BY <1>1, <1>2, EndingKeeps DEF LockForClose
<1>3. CASE /\ InUse(w.plan, planned) /\ LatestOf(planned, w.plan).no = w.expected
           /\ KeepsRow(c, w.plan) /\ ProceedTo(c, "reading") /\ UNCHANGED <<view, decision>>
  <2>1. view' = [view EXCEPT ![c] = view[c]] /\ Sound(view[c], planned, moment)
    BY <1>3 DEF PlanInv, Viewing
  <2>2. planHolder' \in [Budget -> Planner \cup {NoPlanner}] /\ planHolder'[w.plan] = c
    BY <1>1, <1>3 DEF PlanInv, PlanTypeOK, KeepsRow
  <2>3. \A p \in Budget : planHolder[p] \in Planner \ {c} => planHolder'[p] = planHolder[p]
    BY <1>1, <1>3, PlanAssumption DEF PlanInv, PlanTypeOK, LockForClose, KeepsRow
  <2>4. w.op = "close" /\ UNCHANGED <<moment, planned, closedOn>>
    BY DEF LockForClose
  <2>5. planStep' = [planStep EXCEPT ![c] = "reading"] /\ UNCHANGED decision
    BY <1>3 DEF ProceedTo
  <2>6. InUse(w.plan, planned) /\ LatestOf(planned, w.plan).no = w.expected
    BY <1>3
  <2> DEFINE v == view[c]
  <2>7. view' = [view EXCEPT ![c] = v] /\ Sound(v, planned, moment)
    BY <2>1
  <2> HIDE DEF w, v
  <2> QED
    BY <1>1, <2>7, <2>2, <2>3, <2>4, <2>5, <2>6, GoingOnKeeps
<1> QED
  BY <1>2, <1>3 DEF LockForClose

LEMMA RestOnPlanKeeps ==
    ASSUME PlanInv, NEW c \in Planner, RestOnPlan(c)
    PROVE  PlanInv'
<1> DEFINE w == intent[c]
<1>1. w \in Intents[c] /\ w.plan \in Budget /\ intent' = [intent EXCEPT ![c] = w]
  BY AskedIsIntent DEF RestOnPlan
<1>2. w.expected \in Nat
  <2>1. InUse(w.plan, planned) /\ LatestOf(planned, w.plan).no = w.expected
    BY DEF PlanInv, ClosesOnLatest, RestOnPlan
  <2>2. LatestOf(planned, w.plan) \in planned
    BY <2>1, LatestIsLast DEF PlanInv, InUse, RevisionsOf
  <2> QED
    BY <2>1, <2>2 DEF PlanInv, Whole, Shaped
<1>3. \A s \in closedOn' : s.plan \in Budget /\ s.no \in Nat
  BY <1>1, <1>2 DEF PlanInv, PlanTypeOK, RestOnPlan
<1>4. moment \in Nat /\ planned' = planned /\ moment' = moment
  BY MomentsCount DEF PlanInv, RestOnPlan
<1>5. Whole(planned') /\ FromOneMoment' /\ NeverOlder' /\ OneChain'
  BY <1>4, StoredStays
<1> HIDE DEF w
<1> QED
  BY <1>1, <1>3, <1>4, <1>5, DecidedKeeps DEF RestOnPlan

LEMMA LosePlannerKeeps ==
    ASSUME PlanInv, NEW c \in Planner, LosePlanner(c)
    PROVE  PlanInv'
<1>1. intent[c] \in Intents[c] /\ intent' = [intent EXCEPT ![c] = intent[c]]
  BY AskedIsIntent DEF LosePlanner
<1> QED
  BY <1>1, EndingKeeps DEF LosePlanner

\* Later incomes change no snapshot.
LEMMA IncomeChangesKeep ==
    ASSUME PlanInv, IncomeChanges
    PROVE  PlanInv'
<1> USE DEF PlanInv
<1>1. moment \in Nat /\ 1 <= moment /\ moment' \in DOMAIN Incomes /\ moment' = moment + 1
  BY MomentsCount, PlanAssumption DEF IncomeChanges
<1>2. Whole(planned') /\ FromOneMoment' /\ NeverOlder' /\ OneChain'
  BY <1>1, StoredStays DEF IncomeChanges
<1>3. \A c \in Planner : Sound(view[c], planned, moment')
  BY <1>1, SoundGrows DEF Viewing
<1>4. Viewing'
  BY <1>3 DEF Viewing, IncomeChanges
<1>5. Asking' /\ Holding' /\ Basing' /\ Existing' /\ ClosesOnLatest'
  BY DEF Asking, Holding, Basing, Existing, ClosesOnLatest, IncomeChanges
<1>6. PlanTypeOK'
  BY <1>1 DEF PlanTypeOK, IncomeChanges
<1> QED
  BY <1>2, <1>4, <1>5, <1>6 DEF IncomeChanges

LEMMA UnchangedKeeps ==
    ASSUME PlanInv, UNCHANGED planVars
    PROVE  PlanInv'
<1> USE DEF PlanInv, planVars
<1>1. moment \in Nat
  BY MomentsCount
<1>2. Whole(planned') /\ FromOneMoment' /\ NeverOlder' /\ OneChain'
  BY <1>1, StoredStays
<1>3. Asking' /\ Holding' /\ Basing' /\ Existing' /\ ClosesOnLatest' /\ Viewing' /\ PlanTypeOK'
  BY DEF Asking, Holding, Basing, Existing, ClosesOnLatest, Viewing, PlanTypeOK
<1> QED
  BY <1>2, <1>3

LEMMA InitHolds == PlanInit => PlanInv
<1> SUFFICES ASSUME PlanInit PROVE PlanInv
  OBVIOUS
<1> USE DEF PlanInit
<1>1. moment = 1 /\ 1 \in DOMAIN Incomes
  BY PlanAssumption
<1>2. Viewing
  BY NothingIsSound DEF Viewing
<1>3. Whole(planned) /\ FromOneMoment /\ NeverOlder /\ OneChain
  BY DEF Whole, FromOneMoment, NeverOlder, OneChain
<1>4. Asking /\ Holding /\ Basing /\ Existing /\ ClosesOnLatest
  BY DEF Asking, Holding, Basing, Existing, ClosesOnLatest
<1>5. PlanTypeOK
  BY <1>1 DEF PlanTypeOK, NothingSeen
<1> QED
  BY <1>2, <1>3, <1>4, <1>5 DEF PlanInv

LEMMA StepKeeps == PlanInv /\ [PlanNext]_planVars => PlanInv'
<1> SUFFICES ASSUME PlanInv, [PlanNext]_planVars PROVE PlanInv'
  OBVIOUS
<1>1. CASE IncomeChanges
  BY <1>1, IncomeChangesKeep
<1>2. ASSUME NEW c \in Planner, NEW w \in Intents[c], Intend(c, w) PROVE PlanInv'
  BY <1>2, IntendKeeps
<1>3. ASSUME NEW c \in Planner,
             \/ BeginPlanning(c) \/ LockForRefresh(c) \/ StorePlan(c) \/ VoidPlan(c)
             \/ LockForClose(c) \/ RestOnPlan(c) \/ LosePlanner(c)
      PROVE PlanInv'
  BY <1>3, BeginPlanningKeeps, LockForRefreshKeeps, StorePlanKeeps, VoidPlanKeeps, LockForCloseKeeps,
     RestOnPlanKeeps, LosePlannerKeeps
<1>4. ASSUME NEW c \in Planner, NEW part \in ReferencePart, ReadReference(c, part) PROVE PlanInv'
  BY <1>4, ReadReferenceKeeps
<1>5. CASE UNCHANGED planVars
  BY <1>5, UnchangedKeeps
<1> QED
  BY <1>1, <1>2, <1>3, <1>4, <1>5 DEF PlanNext

-----------------------------------------------------------------------------
(* The theorems.                                                           *)

\* Every step of every request keeps the invariant above.
THEOREM PlanInvariance == PlanSpec => []PlanInv
<1>1. PlanInit => PlanInv
  BY InitHolds
<1>2. PlanInv /\ [PlanNext]_planVars => PlanInv'
  BY StepKeeps
<1> QED
  BY <1>1, <1>2, PTL DEF PlanSpec

\* Type correctness: every stored revision has the fields of a row of
\* monthly_budget_plan_revisions, and a plan's row is held by one request.
THEOREM Types == PlanSpec => []PlanTypeOK
<1>1. PlanInv => PlanTypeOK
  BY DEF PlanInv
<1> QED
  BY <1>1, PlanInvariance, PTL

\* Whatever waits for whom and however the incomes change, a plan was computed
\* from one moment and never from an older one than before, its revisions are
\* one chain, and a close rests on the end of it.
THEOREM PlansFollow == PlanSpec => []PlansInStep
<1>1. PlanInv => PlansInStep
  BY DEF PlanInv, PlansInStep
<1> QED
  BY <1>1, PlanInvariance, PTL

-----------------------------------------------------------------------------
(***************************************************************************)
(* LongTermTasks, for any number of requests and any amounts. Bucket,      *)
(* ledger account and journal entries are what the tasks say: the          *)
(* earmarked money is the sum of the PENDING tasks, and the account lacks  *)
(* that of the SENT ones. A request creates at most one task and a         *)
(* correction, sending, reopening or cancellation changes one, so each     *)
(* step changes one summand of each sum (SumChanges); a request that is    *)
(* only looked up, replayed or refused leaves the sums alone.              *)
(***************************************************************************)

\* Only a stored request has created a task.
TasksStored ==
    \A c \in Sender : /\ ruling[c] = Awaited => task[c] = NoTask
                      /\ instruction[c] = NoInstruction => ruling[c] = Awaited

LongTermInv == LongTermTypeOK /\ TasksStored /\ TasksAccounted

-----------------------------------------------------------------------------
(* Sums over the tasks.                                                    *)

Amounts(status) == [c \in Sender |-> IF task[c].status = status THEN task[c].amount ELSE 0]

LEMMA TaskTyped ==
    ASSUME LongTermTypeOK, NEW c \in Sender
    PROVE  /\ task[c].status \in {"none", "PENDING", "SENT", "CANCELLED"}
           /\ task[c].no \in Nat /\ task[c].amount \in Nat
BY DEF LongTermTypeOK

\* The sums are natural, and a task with a status is in the sum of it.
LEMMA TaskSums ==
    ASSUME LongTermTypeOK, NEW status
    PROVE  /\ SumOfTasks(status) \in Nat
           /\ \A c \in Sender : task[c].status = status => task[c].amount <= SumOfTasks(status)
<1> DEFINE f == Amounts(status)
<1>1. IsFiniteSet(Sender) /\ \A c \in Sender : f[c] \in Nat
  BY TaskTyped, LongTermAssumption DEF Amounts
<1>2. \A c \in Sender : task[c].status = status => f[c] = task[c].amount
  BY DEF Amounts
<1>3. SumOfTasks(status) = SumFunctionOnSet(f, Sender)
  BY DEF SumOfTasks, Amounts
<1> HIDE DEF f
<1> QED
  BY <1>1, <1>2, <1>3, SumNatural

\* One task gets a revision, and the sums change by what it says.
LEMMA TaskRevised ==
    ASSUME LongTermTypeOK, NEW c \in Sender, DOMAIN task' = Sender,
           task'[c].amount \in Nat, \A d \in Sender \ {c} : task'[d] = task[d], NEW status
    PROVE  SumOfTasks(status)' = SumOfTasks(status) - (IF task[c].status = status THEN task[c].amount ELSE 0)
                                                    + (IF task'[c].status = status THEN task'[c].amount ELSE 0)
<1> DEFINE f == Amounts(status)
           g == [d \in Sender |-> IF task'[d].status = status THEN task'[d].amount ELSE 0]
<1>1. /\ f[c] = IF task[c].status = status THEN task[c].amount ELSE 0
      /\ g[c] = IF task'[c].status = status THEN task'[c].amount ELSE 0
  BY DEF Amounts
<1>2. f[c] \in Int /\ g[c] \in Int
  BY <1>1, TaskTyped
<1>3. \A d \in Sender \ {c} : f[d] \in Int /\ g[d] = f[d]
  BY TaskTyped DEF Amounts
<1>4. SumOfTasks(status) = SumFunctionOnSet(f, Sender) /\ SumOfTasks(status)' = SumFunctionOnSet(g, Sender)
  BY DEF SumOfTasks, Amounts
<1>5. IsFiniteSet(Sender)
  BY LongTermAssumption
<1> HIDE DEF f, g
<1>6. SumFunctionOnSet(g, Sender) = SumFunctionOnSet(f, Sender) + (g[c] - f[c])
  <2>1. f[c] \in Int
    BY <1>2
  <2>2. g[c] \in Int
    BY <1>2
  <2>3. \A y \in Sender \ {c} : f[y] \in Int /\ g[y] = f[y]
    BY <1>3
  <2> QED
    BY ONLY <1>5, <2>1, <2>2, <2>3, SumChanges
<1>7. SumFunctionOnSet(f, Sender) \in Int
  BY <1>4, TaskSums
<1> DEFINE old == IF task[c].status = status THEN task[c].amount ELSE 0
           new == IF task'[c].status = status THEN task'[c].amount ELSE 0
<1>8. f[c] = old /\ g[c] = new
  BY <1>1
<1> HIDE DEF old, new
<1>9. SumOfTasks(status)' = SumOfTasks(status) - old + new
  BY <1>2, <1>4, <1>6, <1>7, <1>8
<1> QED
  BY <1>9 DEF old, new

-----------------------------------------------------------------------------
(* Steps.                                                                  *)

LEMMA RulingKeeps ==
    ASSUME LongTermInv, NEW c \in Sender, ruling[c] = Awaited, instruction[c] # NoInstruction, UNCHANGED instruction,
           NEW answer \in {"stored", "replayed", "conflict", "refused"}, ruling' = [ruling EXCEPT ![c] = answer]
    PROVE  /\ ruling' \in [Sender -> {"stored", "replayed", "conflict", "refused", Awaited}]
           /\ DOMAIN instruction' = Sender /\ \A d \in Sender : instruction'[d] \in Instructions[d] \cup {NoInstruction}
           /\ ruling'[c] # Awaited /\ \A d \in Sender \ {c} : ruling'[d] = ruling[d]
           /\ \A d \in Sender : instruction'[d] = NoInstruction => ruling'[d] = Awaited
BY LongTermAssumption DEF LongTermInv, LongTermTypeOK, TasksStored

\* A request that is not carried out changes its answer alone.
LEMMA UnmovedKeeps ==
    ASSUME LongTermInv, UNCHANGED moneyVars, \A c \in Sender : ruling'[c] = Awaited => ruling[c] = Awaited,
           \A c \in Sender : instruction'[c] = NoInstruction => ruling'[c] = Awaited,
           ruling' \in [Sender -> {"stored", "replayed", "conflict", "refused", Awaited}],
           DOMAIN instruction' = Sender, \A d \in Sender : instruction'[d] \in Instructions[d] \cup {NoInstruction}
    PROVE  LongTermInv'
BY DEF LongTermInv, LongTermTypeOK, TasksStored, TasksAccounted, PendingIsEarmarked, SentOnce, SumOfTasks, moneyVars

\* A request that is not carried out changes no money.
LEMMA MutateKeeps ==
    ASSUME LongTermInv, NEW c \in Sender, instruction[c].op # "none", ruling[c] = Awaited, UNCHANGED instruction,
           NEW answer \in {"replayed", "conflict", "refused"}, ruling' = [ruling EXCEPT ![c] = answer],
           UNCHANGED moneyVars
    PROVE  LongTermInv'
<1>1. instruction[c] # NoInstruction
  BY DEF NoInstruction
<1> QED
  BY <1>1, RulingKeeps, UnmovedKeeps

LEMMA FindKeeps ==
    ASSUME LongTermInv, NEW c \in Sender, NEW q \in Instructions[c], FindRevision(c, q)
    PROVE  LongTermInv'
<1>1. q # NoInstruction
  BY LongTermAssumption DEF NoInstruction
<1>2. ruling[c] = Awaited /\ UNCHANGED moneyVars
  BY DEF LongTermInv, TasksStored, FindRevision
<1>3. /\ ruling' \in [Sender -> {"stored", "replayed", "conflict", "refused", Awaited}]
      /\ DOMAIN instruction' = Sender /\ \A d \in Sender : instruction'[d] \in Instructions[d] \cup {NoInstruction}
      /\ instruction'[c] = q /\ \A d \in Sender \ {c} : instruction'[d] = instruction[d] /\ ruling'[d] = ruling[d]
  BY DEF LongTermInv, LongTermTypeOK, FindRevision, ReplayOf
<1> QED
  BY <1>1, <1>2, <1>3, UnmovedKeeps DEF LongTermInv, TasksStored

LEMMA AllocateKeeps ==
    ASSUME LongTermInv, NEW c \in Sender, AllocateLongTerm(c)
    PROVE  LongTermInv'
<1> DEFINE q == instruction[c]
<1>1. q.op = "allocate" /\ ruling[c] = Awaited /\ UNCHANGED instruction
  BY DEF AllocateLongTerm, Mutate
<1>2. q # NoInstruction /\ q \in Instructions[c]
  BY <1>1 DEF NoInstruction, LongTermInv, LongTermTypeOK
<1>3. CASE ~(EarlierRevision(q) = {} /\ Earmarkable(q.amount))
  <2>1. \E answer \in {"replayed", "conflict", "refused"} : ruling' = [ruling EXCEPT ![c] = answer] /\ UNCHANGED moneyVars
    BY <1>3 DEF AllocateLongTerm, Mutate, ReplayOf
  <2> QED
    BY <1>1, <2>1, MutateKeeps
<1>4. CASE EarlierRevision(q) = {} /\ Earmarkable(q.amount)
  <2>1. /\ ruling' = [ruling EXCEPT ![c] = "stored"]
        /\ task' = [task EXCEPT ![c] = [status |-> "PENDING", no |-> 1, amount |-> q.amount]]
        /\ pending' = pending + q.amount /\ UNCHANGED <<ledger, elsewhere, posted>>
    BY <1>4 DEF AllocateLongTerm, Mutate
  <2>2. q.amount \in Nat /\ pending + q.amount <= ledger
    BY <1>1, <1>2, <1>4, LongTermAssumption DEF Earmarkable
  <2>3. /\ ruling' \in [Sender -> {"stored", "replayed", "conflict", "refused", Awaited}]
        /\ DOMAIN instruction' = Sender /\ \A d \in Sender : instruction'[d] \in Instructions[d] \cup {NoInstruction}
        /\ ruling'[c] # Awaited /\ \A d \in Sender \ {c} : ruling'[d] = ruling[d]
        /\ \A d \in Sender : instruction'[d] = NoInstruction => ruling'[d] = Awaited
    BY <1>1, <1>2, <2>1, RulingKeeps
  <2> HIDE DEF q
  <2>4. /\ task' \in [Sender -> [status : {"none", "PENDING", "SENT", "CANCELLED"}, no : Nat, amount : Nat]]
        /\ task'[c].status = "PENDING" /\ task'[c].amount = q.amount
        /\ task[c].status = "none" /\ \A d \in Sender \ {c} : task'[d] = task[d]
    BY <1>1, <2>1, <2>2 DEF LongTermInv, LongTermTypeOK, TasksStored, NoTask
  <2>5. SumOfTasks("PENDING")' = SumOfTasks("PENDING") + q.amount /\ SumOfTasks("SENT")' = SumOfTasks("SENT")
    <3>1. DOMAIN task' = Sender /\ task'[c].amount \in Nat
      BY <2>2, <2>4
    <3>2. /\ SumOfTasks("PENDING")' = SumOfTasks("PENDING") - (IF task[c].status = "PENDING" THEN task[c].amount ELSE 0)
                                         + (IF task'[c].status = "PENDING" THEN task'[c].amount ELSE 0)
          /\ SumOfTasks("SENT")' = SumOfTasks("SENT") - (IF task[c].status = "SENT" THEN task[c].amount ELSE 0)
                                         + (IF task'[c].status = "SENT" THEN task'[c].amount ELSE 0)
      BY <2>4, <3>1, TaskRevised DEF LongTermInv
    <3>3. SumOfTasks("PENDING") \in Nat /\ SumOfTasks("SENT") \in Nat
      BY TaskSums DEF LongTermInv
    <3> QED
      BY <2>2, <2>4, <3>2, <3>3
  <2>6. LongTermTypeOK'
    BY <2>1, <2>2, <2>3, <2>4 DEF LongTermInv, LongTermTypeOK
  <2>7. TasksStored'
    BY <2>3, <2>4 DEF LongTermInv, TasksStored
  <2>8. PendingIsEarmarked'
    BY <2>1, <2>2, <2>5 DEF LongTermInv, TasksAccounted, PendingIsEarmarked
  <2>9. SentOnce'
    BY <2>1, <2>4, <2>5 DEF LongTermInv, TasksAccounted, SentOnce
  <2> QED
    BY <2>6, <2>7, <2>8, <2>9 DEF LongTermInv, TasksAccounted
<1> QED
  BY <1>3, <1>4

\* The revision of an earlier task, and its money and journal entries with it.
LEMMA RevisionKeeps ==
    ASSUME LongTermInv, NEW c \in Sender, instruction[c].op # "none", ruling[c] = Awaited, UNCHANGED instruction,
           ruling' = [ruling EXCEPT ![c] = "stored"],
           NEW t \in Sender, NEW old \in {"PENDING", "SENT"}, task[t].status = old,
           NEW new \in {"PENDING", "SENT", "CANCELLED"}, old # new, Becoming(t, new),
           pending' = pending - (IF old = "PENDING" THEN task[t].amount ELSE 0) + (IF new = "PENDING" THEN task[t].amount ELSE 0),
           ledger' = ledger + (IF old = "SENT" THEN task[t].amount ELSE 0) - (IF new = "SENT" THEN task[t].amount ELSE 0),
           posted' = [posted EXCEPT ![t] = IF new = "SENT" THEN 1 ELSE 0],
           old = "SENT" => new = "PENDING",
           UNCHANGED elsewhere
    PROVE  LongTermInv'
<1>1. instruction[c] # NoInstruction
  BY DEF NoInstruction
<1>2. /\ ruling' \in [Sender -> {"stored", "replayed", "conflict", "refused", Awaited}]
      /\ DOMAIN instruction' = Sender /\ \A d \in Sender : instruction'[d] \in Instructions[d] \cup {NoInstruction}
      /\ ruling'[c] # Awaited /\ \A d \in Sender \ {c} : ruling'[d] = ruling[d]
      /\ \A d \in Sender : instruction'[d] = NoInstruction => ruling'[d] = Awaited
  BY <1>1, RulingKeeps
<1>3. ruling[t] # Awaited
  BY DEF LongTermInv, TasksStored, NoTask
<1> DEFINE n == task[t].amount
<1>4. n \in Nat /\ pending \in Nat /\ ledger \in Nat /\ elsewhere \in Int /\ Deposited \in Nat
  BY TaskTyped, LongTermAssumption DEF LongTermInv, LongTermTypeOK
<1>5. /\ task' \in [Sender -> [status : {"none", "PENDING", "SENT", "CANCELLED"}, no : Nat, amount : Nat]]
      /\ task'[t].status = new /\ task'[t].amount = n /\ \A d \in Sender \ {t} : task'[d] = task[d]
  BY DEF LongTermInv, LongTermTypeOK, Becoming
<1> HIDE DEF n
<1>6. /\ SumOfTasks("PENDING")' = SumOfTasks("PENDING") - (IF old = "PENDING" THEN n ELSE 0) + (IF new = "PENDING" THEN n ELSE 0)
      /\ SumOfTasks("SENT")' = SumOfTasks("SENT") - (IF old = "SENT" THEN n ELSE 0) + (IF new = "SENT" THEN n ELSE 0)
  <2>1. DOMAIN task' = Sender /\ task'[t].amount \in Nat
    BY <1>4, <1>5
  <2> QED
    BY <1>5, <2>1, TaskRevised DEF LongTermInv, n
<1>7. /\ SumOfTasks("PENDING") \in Nat /\ SumOfTasks("SENT") \in Nat
      /\ pending = SumOfTasks("PENDING") /\ pending <= ledger /\ ledger = Deposited + elsewhere - SumOfTasks("SENT")
      /\ old = "PENDING" => n <= pending
  BY TaskSums DEF LongTermInv, TasksAccounted, PendingIsEarmarked, SentOnce, n
<1>8. /\ pending' = SumOfTasks("PENDING")' /\ pending' <= ledger' /\ pending' \in Nat /\ ledger' \in Nat
      /\ ledger' = Deposited + elsewhere - SumOfTasks("SENT")'
  <2>1. CASE old = "SENT"
    BY <1>4, <1>6, <1>7, <2>1 DEF n
  <2>2. CASE old = "PENDING" /\ new = "SENT"
    BY <1>4, <1>6, <1>7, <2>2 DEF n
  <2>3. CASE old = "PENDING" /\ new = "CANCELLED"
    BY <1>4, <1>6, <1>7, <2>3 DEF n
  <2> QED
    BY <2>1, <2>2, <2>3
<1>9. \A d \in Sender : posted[d] \in Nat /\ posted[d] = IF task[d].status = "SENT" THEN 1 ELSE 0
  BY DEF LongTermInv, LongTermTypeOK, TasksAccounted, SentOnce
<1>10. posted' \in [Sender -> Nat] /\ \A d \in Sender : posted'[d] = IF task'[d].status = "SENT" THEN 1 ELSE 0
  <2>1. DOMAIN posted = Sender /\ DOMAIN posted' = Sender /\ \A d \in Sender \ {t} : posted'[d] = posted[d]
    BY DEF LongTermInv, LongTermTypeOK
  <2>3. posted'[t] = IF new = "SENT" THEN 1 ELSE 0
    BY <2>1
  <2>4. \A d \in Sender : posted'[d] \in Nat /\ posted'[d] = IF task'[d].status = "SENT" THEN 1 ELSE 0
    BY <1>5, <1>9, <2>1, <2>3
  <2>5. posted' = [d \in Sender |-> posted'[d]]
    BY DEF LongTermInv, LongTermTypeOK
  <2> QED
    BY <2>4, <2>5
<1>11. LongTermTypeOK'
  BY <1>2, <1>5, <1>8, <1>10 DEF LongTermInv, LongTermTypeOK
<1>12. TasksStored'
  BY <1>2, <1>3, <1>5 DEF LongTermInv, TasksStored
<1> QED
  BY <1>8, <1>10, <1>11, <1>12 DEF LongTermInv, TasksAccounted, PendingIsEarmarked, SentOnce

LEMMA TaskStepKeeps ==
    ASSUME LongTermInv, NEW c \in Sender, MarkSent(c) \/ ReopenTask(c) \/ CancelTask(c)
    PROVE  LongTermInv'
<1> DEFINE q == instruction[c]
           t == q.task
           n == task[t].amount
<1>1. q.op \in {"send", "reopen", "cancel"} /\ ruling[c] = Awaited /\ UNCHANGED instruction
  BY DEF MarkSent, ReopenTask, CancelTask, Mutate
<1>2. q.op # "none" /\ q \in Instructions[c]
  BY <1>1 DEF NoInstruction, LongTermInv, LongTermTypeOK
<1>3. t \in Sender
  BY <1>1, <1>2, LongTermAssumption
<1>4. /\ n \in Nat /\ pending \in Nat /\ ledger \in Nat /\ posted \in [Sender -> Nat]
      /\ posted[t] = IF task[t].status = "SENT" THEN 1 ELSE 0
  BY <1>3, TaskTyped DEF LongTermInv, LongTermTypeOK, TasksAccounted, SentOnce
<1>5. CASE \E answer \in {"replayed", "conflict", "refused"} : ruling' = [ruling EXCEPT ![c] = answer] /\ UNCHANGED moneyVars
  BY <1>1, <1>2, <1>5, MutateKeeps
<1>6. CASE ~\E answer \in {"replayed", "conflict", "refused"} : ruling' = [ruling EXCEPT ![c] = answer] /\ UNCHANGED moneyVars
  <2>1. CASE MarkSent(c)
    <3>1. /\ ruling' = [ruling EXCEPT ![c] = "stored"] /\ task[t].status = "PENDING" /\ Becoming(t, "SENT")
          /\ pending' = pending - n /\ ledger' = ledger - n /\ posted' = [posted EXCEPT ![t] = @ + 1] /\ UNCHANGED elsewhere
      BY <1>6, <2>1 DEF MarkSent, Mutate, ReplayOf, Is
    <3>2. posted' = [posted EXCEPT ![t] = 1]
      <4>1. posted[t] + 1 = 1
        BY <1>4, <3>1
      <4> QED
        BY <3>1, <4>1
    <3>3. /\ pending' = pending - n + 0
          /\ ledger' = ledger + 0 - n
      BY <1>4, <3>1
    <3> QED
      BY <1>1, <1>2, <1>3, <1>4, <3>1, <3>2, <3>3, RevisionKeeps
  <2>2. CASE ReopenTask(c)
    <3>1. /\ ruling' = [ruling EXCEPT ![c] = "stored"] /\ task[t].status = "SENT" /\ Becoming(t, "PENDING")
          /\ pending' = pending + n /\ ledger' = ledger + n /\ posted' = [posted EXCEPT ![t] = @ - 1] /\ UNCHANGED elsewhere
      BY <1>6, <2>2 DEF ReopenTask, Mutate, ReplayOf, Is
    <3>2. posted' = [posted EXCEPT ![t] = 0]
      BY <1>4, <3>1
    <3>3. /\ pending' = pending - 0 + n
          /\ ledger' = ledger + n - 0
      BY <1>4, <3>1
    <3> QED
      BY <1>1, <1>2, <1>3, <1>4, <3>1, <3>2, <3>3, RevisionKeeps
  <2>3. CASE CancelTask(c)
    <3>1. /\ ruling' = [ruling EXCEPT ![c] = "stored"] /\ task[t].status = "PENDING" /\ Becoming(t, "CANCELLED")
          /\ pending' = pending - n /\ UNCHANGED <<ledger, posted, elsewhere>>
      BY <1>6, <2>3 DEF CancelTask, Mutate, ReplayOf, Is
    <3>2. posted' = [posted EXCEPT ![t] = 0]
      BY <1>3, <1>4, <3>1
    <3>3. /\ pending' = pending - n + 0
          /\ ledger' = ledger + 0 - 0
      BY <1>4, <3>1
    <3> QED
      BY <1>1, <1>2, <1>3, <1>4, <3>1, <3>2, <3>3, RevisionKeeps
  <2> QED
    BY <2>1, <2>2, <2>3
<1> QED
  BY <1>5, <1>6

LEMMA ElsewhereKeeps ==
    ASSUME LongTermInv, NEW amount \in Movement, MoveElsewhere(amount)
    PROVE  LongTermInv'
<1>1. /\ ledger' = ledger + amount /\ elsewhere' = elsewhere + amount /\ ledger + amount >= pending
      /\ UNCHANGED <<pending, task, posted, instruction, ruling>> /\ amount \in Int
  BY LongTermAssumption DEF MoveElsewhere, Stays
<1>2. \A status : SumOfTasks(status)' = SumOfTasks(status) /\ SumOfTasks(status) \in Nat
  BY <1>1, TaskSums DEF SumOfTasks, LongTermInv
<1>3. Deposited \in Nat
  BY LongTermAssumption
<1> QED
  BY <1>1, <1>2, <1>3 DEF LongTermInv, LongTermTypeOK, TasksStored, TasksAccounted, PendingIsEarmarked, SentOnce

-----------------------------------------------------------------------------
(* The theorems.                                                           *)

LEMMA TasksStart == LongTermInit => LongTermInv
<1> SUFFICES ASSUME LongTermInit PROVE LongTermInv
  OBVIOUS
<1>1. LongTermTypeOK /\ TasksStored
  BY LongTermAssumption DEF LongTermInit, LongTermTypeOK, TasksStored, NoTask
<1>2. ASSUME NEW status \in {"PENDING", "SENT"}
      PROVE  SumOfTasks(status) = 0
  <2> DEFINE f == Amounts(status)
  <2>1. IsFiniteSet(Sender) /\ \A c \in Sender : f[c] = 0
    BY LongTermAssumption DEF Amounts, LongTermInit, NoTask
  <2>2. SumOfTasks(status) = SumFunctionOnSet(f, Sender)
    BY DEF SumOfTasks, Amounts
  <2> HIDE DEF f
  <2> QED
    BY <2>1, <2>2, SumZero
<1>3. TasksAccounted
  BY <1>2, LongTermAssumption DEF LongTermInit, TasksAccounted, PendingIsEarmarked, SentOnce, NoTask
<1> QED
  BY <1>1, <1>3 DEF LongTermInv

LEMMA TasksKept == LongTermInv /\ [LongTermNext]_longTermVars => LongTermInv'
<1> SUFFICES ASSUME LongTermInv, [LongTermNext]_longTermVars PROVE LongTermInv'
  OBVIOUS
<1>1. ASSUME NEW c \in Sender, NEW q \in Instructions[c], FindRevision(c, q)
      PROVE  LongTermInv'
  BY <1>1, FindKeeps
<1>2. ASSUME NEW c \in Sender, AllocateLongTerm(c)
      PROVE  LongTermInv'
  BY <1>2, AllocateKeeps
<1>3. ASSUME NEW c \in Sender, MarkSent(c) \/ ReopenTask(c) \/ CancelTask(c)
      PROVE  LongTermInv'
  BY <1>3, TaskStepKeeps
<1>4. ASSUME NEW amount \in Movement, MoveElsewhere(amount)
      PROVE  LongTermInv'
  BY <1>4, ElsewhereKeeps
<1>5. CASE UNCHANGED longTermVars
  BY <1>5, UnmovedKeeps DEF longTermVars, moneyVars, LongTermInv, LongTermTypeOK, TasksStored
<1> QED
  BY <1>1, <1>2, <1>3, <1>4, <1>5 DEF LongTermNext

\* Bucket, ledger account and journal entries are what the tasks say, whatever
\* is allocated, sent, reopened and cancelled in whatever order and retried.
THEOREM TasksStayAccounted == LongTermSpec => []TasksAccounted
<1>1. LongTermInv => TasksAccounted
  BY DEF LongTermInv
<1> QED
  BY TasksStart, TasksKept, <1>1, PTL DEF LongTermSpec

\* The types: neither the account nor what is earmarked on it ever goes below
\* zero.
THEOREM LongTermTypeCorrect == LongTermSpec => []LongTermTypeOK
<1>1. LongTermInv => LongTermTypeOK
  BY DEF LongTermInv
<1> QED
  BY TasksStart, TasksKept, <1>1, PTL DEF LongTermSpec

-----------------------------------------------------------------------------
(***************************************************************************)
(* StatementReconciliation, for any requests, statements, purchases and    *)
(* splits. Statements and splits are chains that only grow (Grown), so     *)
(* what was true of a revision stays true of it. The invariant says of     *)
(* every request what its transaction may rely on (GripStands): the        *)
(* statement it locked, the last revision of the chain, which a void may   *)
(* still follow until the row is written, and, once it is written, its     *)
(* key, and what it cites. No two hold one statement or write one key      *)
(* (HeldApart), from which the next revision is nobody else's. What a      *)
(* reader has seen was so at some time since it began (SeenAtItsTime),     *)
(* and the reads that follow do not change that.                           *)
(***************************************************************************)

\* A revision is what its request asked for.
EntriesAsked ==
    \A e \in entries :
        /\ submitted[e.by] # NoSubmission /\ submitted[e.by].bill = e.bill /\ submitted[e.by].parts = e.parts
        /\ e.op # "VOID" => e.parts # <<>>
\* One revision of a statement is the last.
SomeIsLast == \A s \in Invoice : EntriesOf(s) # {} => \E e \in EntriesOf(s) : \A f \in EntriesOf(s) : f.no <= e.no

OneRowPerKey == \A e, f \in entries : submitted[e.by].key = submitted[f.by].key => e = f
Told ==
    \A c \in Reconciler : finding[c] \in {"stored", "replayed"} =>
        \E e \in entries : /\ submitted[e.by].key = submitted[c].key
                           /\ e.bill = submitted[c].bill /\ e.parts = submitted[c].parts
EntriesInStep ==
    ChainsWhole /\ EntriesAddUp /\ EvidenceReal /\ EntriesAsked /\ SomeIsLast /\ OneRowPerKey

\* The parts were owed as they say.
PartsReal(parts) ==
    \A k \in DOMAIN parts : LET p == parts[k].charge IN
        p # Nowhere => \E n \in 0..Len(divided[p]) : OwedBy(divided[p], n, parts[k])

\* Who holds a statement has the revision it saw, which the parts make up.
BillStands(c) ==
    LET q == submitted[c] IN
    /\ q.op = "reconcile" /\ finding[c] = NoFinding
    /\ grip[c].of = Len(invoiced[q.bill]) /\ LatestInvoice(q.bill).status # "VOID"
    /\ PartsTotal(q.parts) = LatestInvoice(q.bill).amount
\* Who has read the chain has its last revision, unless that was voided since.
ChainStands(c) ==
    LET last == LastEntry(submitted[c].bill) IN
    /\ grip[c].no = submitted[c].expected
    /\ \/ last.no = grip[c].no /\ last.op # "VOID"
       \/ grip[c].at = "read" /\ last.op = "VOID" /\ last.no = grip[c].no + 1
\* Who has written has it, and its key, and what it cites.
WritingStands(c) ==
    LET q == submitted[c] IN
    UnderKey(q.key) = {} /\ PartsReal(q.parts) /\ (grip[c].no = 0 => AllEvidenced(q.parts))
GripStands(c) ==
    /\ grip[c].at # "nothing" => BillStands(c)
    /\ grip[c].at \in {"read", "written"} => ChainStands(c)
    /\ grip[c].at = "written" => WritingStands(c)
\* No two hold one statement, and no two write one key.
HeldApart ==
    \A c, d \in Reconciler : c # d /\ grip[c].at # "nothing" /\ grip[d].at # "nothing" =>
        /\ submitted[c].bill # submitted[d].bill
        /\ grip[c].at = "written" /\ grip[d].at = "written" => submitted[c].key # submitted[d].key
GripsInStep == HeldApart /\ \A c \in Reconciler : GripStands(c)

\* What a reader has seen so far.
Seen == [at : {"read", "checking", "RECONCILED"}, entry : EntryRow, since : Nat \ {0}, of : Nat, next : Nat \ {0},
         from : [Charge -> Nat]]
SeenAtItsTime ==
    LET e == glance.entry IN
    /\ glance \in Seen /\ e \in entries /\ e.op # "VOID" /\ glance.since <= Len(invoiced[e.bill])
    /\ \A p \in Charge : glance.from[p] <= Len(divided[p])
    /\ glance.next <= Len(e.parts)
    /\ glance.at # "read" =>
          /\ glance.of \in glance.since..Len(invoiced[e.bill])
          /\ invoiced[e.bill][glance.of].status # "VOID" /\ invoiced[e.bill][glance.of].amount = e.amount
    /\ \A k \in DOMAIN e.parts : LET p == e.parts[k].charge IN
          (k < glance.next \/ glance.at = "RECONCILED") /\ p # Nowhere =>
              \E n \in glance.from[p]..Len(divided[p]) : OwedBy(divided[p], n, e.parts[k])
GlanceInStep == glance.at \in {"read", "checking", "RECONCILED"} => SeenAtItsTime

ReconciliationInv == ReconciliationTypeOK /\ EntriesInStep /\ Told /\ GripsInStep /\ GlanceInStep

-----------------------------------------------------------------------------
(* Requests, the chain and what grows.                                     *)

LEMMA RequestFits ==
  ASSUME NEW c \in Reconciler, NEW q \in Submissions[c]
  PROVE  /\ q # NoSubmission /\ q.op \in {"reconcile", "void"} /\ q.bill \in Invoice /\ q.expected \in Nat
         /\ q.parts \in Seq(Part) /\ (q.op = "void" => q.parts = <<>>) /\ (q.op = "reconcile" => q.parts # <<>>)
<1>1. /\ q.op \in {"reconcile", "void"} /\ q.bill \in Invoice /\ q.expected \in Nat
      /\ IF q.op = "void" THEN q.parts = <<>> ELSE q.parts \in Seq(Part) \ {<<>>}
  BY ReconciliationAssumption
<1>2. NoSubmission.op = "none"
  BY DEF NoSubmission
<1>3. <<>> \in Seq(Part)
  OBVIOUS
<1> QED
  BY <1>1, <1>2, <1>3

LEMMA RequestAsked ==
  ASSUME ReconciliationTypeOK, NEW c \in Reconciler, submitted[c].op \in {"reconcile", "void"}
  PROVE  submitted[c] \in Submissions[c]
<1>1. submitted[c] \in Submissions[c] \cup {NoSubmission}
  BY DEF ReconciliationTypeOK
<1>2. NoSubmission.op = "none"
  BY DEF NoSubmission
<1> QED
  BY <1>1, <1>2

LEMMA LastIs ==
  ASSUME ReconciliationTypeOK, SomeIsLast, NEW s \in Invoice
  PROVE  /\ EntriesOf(s) = {} => LastEntry(s) = NoEntry
         /\ EntriesOf(s) # {} => /\ LastEntry(s) \in entries /\ LastEntry(s).bill = s
                                /\ LastEntry(s).no >= 1 /\ LastEntry(s).op # "NONE"
         /\ LastEntry(s).no \in Nat /\ \A f \in EntriesOf(s) : f.no <= LastEntry(s).no
<1>1. CASE EntriesOf(s) = {}
  <2>1. LastEntry(s) = NoEntry
    BY <1>1 DEF LastEntry
  <2>2. NoEntry.no = 0
    BY DEF NoEntry
  <2> QED
    BY <1>1, <2>1, <2>2
<1>2. CASE EntriesOf(s) # {}
  <2>1. LastEntry(s) \in EntriesOf(s) /\ \A f \in EntriesOf(s) : f.no <= LastEntry(s).no
    BY <1>2 DEF LastEntry, SomeIsLast
  <2>2. LastEntry(s) \in entries /\ LastEntry(s).bill = s
    BY <2>1 DEF EntriesOf
  <2>3. LastEntry(s) \in EntryRow
    BY <2>2 DEF ReconciliationTypeOK
  <2>4. LastEntry(s).no >= 1 /\ LastEntry(s).no \in Nat /\ LastEntry(s).op # "NONE"
    BY <2>3 DEF EntryRow
  <2> QED
    BY <1>2, <2>1, <2>2, <2>4
<1> QED
  BY <1>1, <1>2

\* A revision that is numbered after the last becomes the last.
LEMMA LastAfter ==
  ASSUME ReconciliationTypeOK, SomeIsLast, NEW e \in EntryRow, entries' = entries \cup {e},
         e.no = LastEntry(e.bill).no + 1
  PROVE  /\ LastEntry(e.bill)' = e /\ EntriesOf(e.bill)' = EntriesOf(e.bill) \cup {e}
         /\ \A s \in Invoice \ {e.bill} : LastEntry(s)' = LastEntry(s) /\ EntriesOf(s)' = EntriesOf(s)
         /\ SomeIsLast'
         /\ \A f \in EntriesOf(e.bill) : f.no < e.no
<1>1. e.bill \in Invoice /\ e.no \in Nat /\ \A f \in EntriesOf(e.bill) : f.no \in Nat
  BY DEF EntryRow, ReconciliationTypeOK, EntriesOf
<1>2. \A f \in EntriesOf(e.bill) : f.no < e.no
  BY <1>1, LastIs
<1>3. EntriesOf(e.bill)' = EntriesOf(e.bill) \cup {e}
  BY DEF EntriesOf
<1>4. ASSUME NEW s \in Invoice, s # e.bill
      PROVE  EntriesOf(s)' = EntriesOf(s) /\ LastEntry(s)' = LastEntry(s)
  <2>1. EntriesOf(s)' = EntriesOf(s)
    BY <1>4 DEF EntriesOf
  <2> QED
    BY <2>1 DEF LastEntry
<1>5. \A f \in EntriesOf(e.bill)' : f.no <= e.no
  BY <1>1, <1>2, <1>3
<1>6. \A g \in EntriesOf(e.bill)' : (\A f \in EntriesOf(e.bill)' : f.no <= g.no) => g = e
  <2> SUFFICES ASSUME NEW g \in EntriesOf(e.bill)', \A f \in EntriesOf(e.bill)' : f.no <= g.no, g # e
               PROVE  FALSE
    OBVIOUS
  <2>1. g.no < e.no /\ e.no <= g.no /\ g.no \in Nat
    BY <1>1, <1>2, <1>3
  <2> QED
    BY <1>1, <2>1
<1>7. LastEntry(e.bill)' = e
  BY <1>3, <1>5, <1>6 DEF LastEntry
<1>8. SomeIsLast'
  <2> SUFFICES ASSUME NEW s \in Invoice, EntriesOf(s)' # {}
               PROVE  \E g \in EntriesOf(s)' : \A f \in EntriesOf(s)' : f.no <= g.no
    BY DEF SomeIsLast
  <2>1. CASE s = e.bill
    BY <1>3, <1>5, <2>1
  <2>2. CASE s # e.bill
    BY <1>4, <2>2 DEF SomeIsLast
  <2> QED
    BY <2>1, <2>2
<1> QED
  BY <1>2, <1>3, <1>4, <1>7, <1>8

\* Statements and splits only get further revisions.
Grown ==
    /\ \A s \in Invoice : /\ Len(invoiced'[s]) >= Len(invoiced[s]) /\ Len(invoiced'[s]) \in Nat
                          /\ \A n \in DOMAIN invoiced[s] : n \in DOMAIN invoiced'[s] /\ invoiced'[s][n] = invoiced[s][n]
    /\ \A p \in Charge : /\ Len(divided'[p]) >= Len(divided[p]) /\ Len(divided'[p]) \in Nat
                         /\ \A n \in 0..Len(divided[p]), part \in Part :
                               OwedBy(divided[p], n, part) => OwedBy(divided'[p], n, part)

LEMMA SameGrown ==
  ASSUME ReconciliationTypeOK, UNCHANGED <<invoiced, divided>>
  PROVE  Grown
<1>1. \A s \in Invoice : invoiced[s] \in Seq(InvoiceRevision)
  BY DEF ReconciliationTypeOK
<1>2. \A p \in Charge : divided[p] \in Seq(Divisions \cup {Undivided})
  BY DEF ReconciliationTypeOK
<1>3. (\A s \in Invoice : Len(invoiced[s]) \in Nat) /\ \A p \in Charge : Len(divided[p]) \in Nat
  BY <1>1, <1>2
<1> QED
  BY <1>3 DEF Grown

LEMMA OwedStill ==
  ASSUME NEW S, NEW splits \in Seq(S), NEW d \in S, NEW n \in 0..Len(splits), NEW part
  PROVE  OwedBy(Append(splits, d), n, part) <=> OwedBy(splits, n, part)
<1>1. CASE n = 0
  <2>1. ActiveOf(splits, n) = 0 /\ ActiveOf(Append(splits, d), n) = 0
    BY <1>1 DEF ActiveOf
  <2> QED
    BY <2>1 DEF OwedBy
<1>2. CASE n # 0
  <2>1. n \in 1..Len(splits)
    BY <1>2
  <2>2. Append(splits, d)[n] = splits[n]
    BY <2>1
  <2> QED
    BY <2>2 DEF OwedBy, ActiveOf
<1> QED
  BY <1>1, <1>2

LEMMA PartTyped ==
  ASSUME NEW parts \in Seq(Part), NEW k \in DOMAIN parts
  PROVE  parts[k] \in Part /\ (parts[k].charge # Nowhere => parts[k].charge \in Charge)
<1>1. parts[k] \in Part
  OBVIOUS
<1> QED
  BY <1>1 DEF Part

LEMMA RealKept ==
  ASSUME ReconciliationTypeOK, Grown, NEW parts \in Seq(Part), PartsReal(parts)
  PROVE  PartsReal(parts)'
<1> SUFFICES ASSUME NEW k \in DOMAIN parts, parts[k].charge # Nowhere
             PROVE  \E n \in 0..Len(divided'[parts[k].charge]) : OwedBy(divided'[parts[k].charge], n, parts[k])
  BY DEF PartsReal
<1>1. parts[k] \in Part /\ parts[k].charge \in Charge
  BY PartTyped
<1>2. PICK n \in 0..Len(divided[parts[k].charge]) : OwedBy(divided[parts[k].charge], n, parts[k])
  BY <1>1 DEF PartsReal
<1>3. divided[parts[k].charge] \in Seq(Divisions \cup {Undivided})
  BY <1>1 DEF ReconciliationTypeOK
<1>4. Len(divided[parts[k].charge]) \in Nat
  BY <1>3
<1>5. n \in 0..Len(divided'[parts[k].charge])
  BY <1>1, <1>2, <1>4 DEF Grown
<1> QED
  BY <1>1, <1>2, <1>5 DEF Grown

\* Who submitted keeps what was submitted.
SubmittedStays == \A c \in Reconciler : submitted[c] # NoSubmission => submitted'[c] = submitted[c]

LEMMA EntriesKept ==
  ASSUME ReconciliationTypeOK, EntriesInStep, Grown, entries' = entries, SubmittedStays
  PROVE  EntriesInStep'
<1>1. \A e \in entries : /\ e \in EntryRow /\ e.by \in Reconciler /\ e.bill \in Invoice /\ e.parts \in Seq(Part)
                         /\ submitted'[e.by] = submitted[e.by]
  BY DEF ReconciliationTypeOK, EntriesInStep, EntriesAsked, EntryRow, SubmittedStays
<1>2. ChainsWhole'
  BY <1>1 DEF EntriesInStep, ChainsWhole
<1>3. EntriesAddUp'
  <2>1. \A e \in entries : e.of \in DOMAIN invoiced'[e.bill] /\ invoiced'[e.bill][e.of] = invoiced[e.bill][e.of]
    BY <1>1 DEF EntriesInStep, EntriesAddUp, Grown
  <2> QED
    BY <2>1 DEF EntriesInStep, EntriesAddUp
<1>4. EvidenceReal'
  <2>1. ASSUME NEW e \in entries PROVE PartsReal(e.parts)'
    <3>1. PartsReal(e.parts)
      BY DEF EntriesInStep, EvidenceReal, PartsReal
    <3> QED
      BY <1>1, <3>1, RealKept
  <2> QED
    BY <2>1 DEF EvidenceReal, PartsReal
<1>5. EntriesAsked'
  BY <1>1 DEF EntriesInStep, EntriesAsked
<1>6. SomeIsLast'
  BY DEF EntriesInStep, SomeIsLast, EntriesOf
<1>7. OneRowPerKey'
  BY <1>1 DEF EntriesInStep, OneRowPerKey
<1> QED
  BY <1>2, <1>3, <1>4, <1>5, <1>6, <1>7 DEF EntriesInStep

LEMMA GlanceKept ==
  ASSUME ReconciliationTypeOK, GlanceInStep, Grown, entries \subseteq entries', glance' = glance
  PROVE  GlanceInStep'
<1> SUFFICES ASSUME glance.at \in {"read", "checking", "RECONCILED"}
             PROVE  SeenAtItsTime'
  BY DEF GlanceInStep
<1> DEFINE e == glance.entry
<1>1. SeenAtItsTime
  BY DEF GlanceInStep
<1>2. /\ e \in entries /\ e \in entries' /\ e.bill \in Invoice /\ e.parts \in Seq(Part) /\ glance \in Seen
      /\ glance.since \in Nat /\ glance.since # 0 /\ \A p \in Charge : glance.from[p] \in Nat
  BY <1>1 DEF SeenAtItsTime, ReconciliationTypeOK, EntryRow, Seen
<1>3. /\ invoiced[e.bill] \in Seq(InvoiceRevision) /\ Len(invoiced'[e.bill]) >= Len(invoiced[e.bill])
      /\ Len(invoiced'[e.bill]) \in Nat
      /\ \A n \in DOMAIN invoiced[e.bill] : n \in DOMAIN invoiced'[e.bill] /\ invoiced'[e.bill][n] = invoiced[e.bill][n]
  BY <1>2 DEF ReconciliationTypeOK, Grown
<1>4. Len(invoiced[e.bill]) \in Nat /\ DOMAIN invoiced[e.bill] = 1..Len(invoiced[e.bill])
  BY <1>3
<1>5. glance.since <= Len(invoiced'[e.bill])
  BY <1>1, <1>2, <1>3, <1>4 DEF SeenAtItsTime
<1>6. ASSUME NEW p \in Charge
      PROVE  Len(divided[p]) \in Nat /\ Len(divided'[p]) \in Nat /\ Len(divided'[p]) >= Len(divided[p])
  <2>1. divided[p] \in Seq(Divisions \cup {Undivided})
    BY DEF ReconciliationTypeOK
  <2> QED
    BY <2>1 DEF Grown
<1>7. \A p \in Charge : glance.from[p] <= Len(divided'[p])
  BY <1>1, <1>2, <1>6 DEF SeenAtItsTime
<1>8. glance.at # "read" =>
        /\ glance.of \in glance.since..Len(invoiced'[e.bill])
        /\ invoiced'[e.bill][glance.of].status # "VOID" /\ invoiced'[e.bill][glance.of].amount = e.amount
  <2> SUFFICES ASSUME glance.at # "read"
               PROVE  /\ glance.of \in glance.since..Len(invoiced'[e.bill])
                      /\ invoiced'[e.bill][glance.of].status # "VOID" /\ invoiced'[e.bill][glance.of].amount = e.amount
    OBVIOUS
  <2>1. glance.of \in glance.since..Len(invoiced[e.bill]) /\ invoiced[e.bill][glance.of].status # "VOID"
        /\ invoiced[e.bill][glance.of].amount = e.amount
    BY <1>1 DEF SeenAtItsTime
  <2>2. glance.of \in 1..Len(invoiced[e.bill])
    BY <1>2, <1>4, <2>1
  <2>3. glance.of \in glance.since..Len(invoiced'[e.bill])
    BY <1>2, <1>3, <1>4, <2>1
  <2>4. invoiced'[e.bill][glance.of] = invoiced[e.bill][glance.of]
    BY <1>3, <1>4, <2>2
  <2> QED
    BY <2>1, <2>3, <2>4
<1>9. ASSUME NEW k \in DOMAIN e.parts, k < glance.next \/ glance.at = "RECONCILED", e.parts[k].charge # Nowhere
      PROVE  \E n \in glance.from[e.parts[k].charge]..Len(divided'[e.parts[k].charge]) :
                 OwedBy(divided'[e.parts[k].charge], n, e.parts[k])
  <2>1. e.parts[k] \in Part /\ e.parts[k].charge \in Charge
    BY <1>2, <1>9, PartTyped
  <2>2. PICK n \in glance.from[e.parts[k].charge]..Len(divided[e.parts[k].charge]) :
                 OwedBy(divided[e.parts[k].charge], n, e.parts[k])
    BY <1>1, <1>9 DEF SeenAtItsTime
  <2>3. n \in 0..Len(divided[e.parts[k].charge]) /\ n \in glance.from[e.parts[k].charge]..Len(divided'[e.parts[k].charge])
    BY <1>2, <1>6, <2>1, <2>2
  <2> QED
    BY <2>1, <2>2, <2>3 DEF Grown
<1> QED
  BY <1>1, <1>2, <1>5, <1>7, <1>8, <1>9 DEF SeenAtItsTime

-----------------------------------------------------------------------------
(* A step of one request.                                                  *)

LEMMA NothingHeld ==
  ASSUME NEW c \in Reconciler, grip'[c] = NoGrip
  PROVE  GripStands(c)' /\ grip'[c].at = "nothing"
<1>1. NoGrip.at = "nothing"
  BY DEF NoGrip
<1> QED
  BY <1>1 DEF GripStands

\* What who holds a statement has read is not disturbed.
Undisturbed(d) ==
    /\ grip'[d] = grip[d]
    /\ grip[d].at # "nothing" => /\ submitted'[d] = submitted[d] /\ finding'[d] = finding[d]
                                 /\ invoiced'[submitted[d].bill] = invoiced[submitted[d].bill]
    /\ grip[d].at \in {"read", "written"} => ChainStands(d)'
    /\ grip[d].at = "written" =>
          UnderKey(submitted[d].key)' = {} /\ (grip[d].no = 0 => UNCHANGED <<divided, dropped>>)

LEMMA GripKept ==
  ASSUME ReconciliationTypeOK, Grown, NEW d \in Reconciler, GripStands(d), Undisturbed(d)
  PROVE  GripStands(d)'
<1>1. CASE grip[d].at = "nothing"
  BY <1>1 DEF GripStands, Undisturbed
<1>2. CASE grip[d].at # "nothing"
  <2>1. BillStands(d) /\ submitted'[d] = submitted[d] /\ finding'[d] = finding[d] /\ grip'[d] = grip[d]
        /\ invoiced'[submitted[d].bill] = invoiced[submitted[d].bill]
    BY <1>2 DEF GripStands, Undisturbed
  <2>2. BillStands(d)'
    BY <2>1 DEF BillStands, LatestInvoice
  <2>3. ASSUME grip[d].at = "written" PROVE WritingStands(d)'
    <3>1. WritingStands(d) /\ UnderKey(submitted[d].key)' = {}
      BY <2>3 DEF GripStands, Undisturbed
    <3>2. PICK q \in Submissions[d] : q = submitted[d] /\ q = submitted'[d]
      BY <2>1, RequestAsked DEF BillStands
    <3>3. PartsReal(q.parts)'
      BY <3>1, <3>2, RequestFits, RealKept DEF WritingStands
    <3>4. grip[d].no = 0 => AllEvidenced(submitted[d].parts)'
      <4> HAVE grip[d].no = 0
      <4>1. divided' = divided /\ dropped' = dropped /\ AllEvidenced(submitted[d].parts)
        BY <2>3, <3>1 DEF Undisturbed, WritingStands
      <4> QED
        BY <2>1, <4>1 DEF AllEvidenced, Evidenced, Consistent
    <3> QED
      BY <2>1, <3>1, <3>2, <3>3, <3>4 DEF WritingStands
  <2>4. grip[d].at \in {"read", "written"} => ChainStands(d)'
    BY DEF Undisturbed
  <2> QED
    BY <2>1, <2>2, <2>3, <2>4 DEF GripStands
<1> QED
  BY <1>1, <1>2

\* Nothing disturbs it but rows, statements and splits.
LEMMA RowsAlone ==
  ASSUME ReconciliationTypeOK, NEW d \in Reconciler, GripStands(d), grip'[d] = grip[d],
         grip[d].at # "nothing" => submitted'[d] = submitted[d] /\ finding'[d] = finding[d],
         UNCHANGED <<invoiceVars, entries>>, SubmittedStays, EntriesAsked
  PROVE  Undisturbed(d)
<1>1. \A e \in entries : e.by \in Reconciler /\ submitted'[e.by] = submitted[e.by]
  BY DEF EntriesAsked, SubmittedStays, ReconciliationTypeOK, EntryRow
<1>2. ASSUME grip[d].at = "written" PROVE UnderKey(submitted[d].key)' = {}
  <2>1. UnderKey(submitted[d].key) = {} /\ submitted'[d] = submitted[d]
    BY <1>2 DEF GripStands, WritingStands
  <2> QED
    BY <1>1, <2>1 DEF UnderKey
<1>3. ASSUME grip[d].at \in {"read", "written"} PROVE ChainStands(d)'
  <2>1. ChainStands(d) /\ submitted'[d] = submitted[d] /\ grip'[d] = grip[d]
    BY <1>3 DEF GripStands
  <2> QED
    BY <2>1 DEF ChainStands, LastEntry, EntriesOf
<1> QED
  BY <1>2, <1>3 DEF Undisturbed, invoiceVars

LEMMA EndKeeps ==
  ASSUME ReconciliationInv, NEW c \in Reconciler, NEW w \in Findings, w # "stored", EndWith(c, w),
         w = "replayed" => \E e \in UnderKey(submitted[c].key) : SameEntry(e, submitted[c])
  PROVE  ReconciliationInv'
<1>1. /\ ReconciliationTypeOK /\ EntriesInStep /\ Told /\ GlanceInStep
      /\ HeldApart /\ \A d \in Reconciler : GripStands(d)
  BY DEF ReconciliationInv, GripsInStep
<1>2. /\ grip \in [Reconciler -> [at : {"nothing", "locked", "read", "written"}, of : Nat, no : Nat]]
      /\ finding \in [Reconciler -> Findings \cup {NoFinding}]
  BY <1>1 DEF ReconciliationTypeOK
<1>3. /\ UNCHANGED <<invoiced, divided, dropped, entries, submitted, reopening, glance>>
      /\ finding' = [finding EXCEPT ![c] = w] /\ grip' = [grip EXCEPT ![c] = NoGrip]
  BY DEF EndWith, Finish, invoiceVars
<1>4. /\ finding'[c] = w /\ grip'[c] = NoGrip
      /\ \A d \in Reconciler \ {c} : finding'[d] = finding[d] /\ grip'[d] = grip[d]
  BY <1>2, <1>3
<1>5. ReconciliationTypeOK'
  <2>1. NoGrip \in [at : {"nothing", "locked", "read", "written"}, of : Nat, no : Nat]
    BY DEF NoGrip
  <2>2. /\ grip' \in [Reconciler -> [at : {"nothing", "locked", "read", "written"}, of : Nat, no : Nat]]
        /\ finding' \in [Reconciler -> Findings \cup {NoFinding}]
    BY <1>2, <1>3, <2>1
  <2> QED
    BY <1>1, <1>3, <2>2 DEF ReconciliationTypeOK
<1>6. Grown /\ SubmittedStays
  BY <1>1, <1>3, SameGrown DEF SubmittedStays
<1>7. EntriesInStep' /\ GlanceInStep'
  BY <1>1, <1>3, <1>6, EntriesKept, GlanceKept
<1>8. Told'
  <2> SUFFICES ASSUME NEW d \in Reconciler, finding'[d] \in {"stored", "replayed"}
               PROVE  \E e \in entries : /\ submitted[e.by].key = submitted[d].key
                                         /\ e.bill = submitted[d].bill /\ e.parts = submitted[d].parts
    BY <1>3 DEF Told
  <2>1. CASE d = c
    BY <1>4, <2>1 DEF UnderKey, SameEntry
  <2>2. CASE d # c
    BY <1>1, <1>4, <2>2 DEF Told
  <2> QED
    BY <2>1, <2>2
<1>9. \A d \in Reconciler : GripStands(d)'
  <2> TAKE d \in Reconciler
  <2>1. CASE d = c
    BY <1>4, <2>1, NothingHeld
  <2>2. CASE d # c
    <3>1. Undisturbed(d)
      BY <1>1, <1>3, <1>4, <1>6, <2>2, RowsAlone DEF EntriesInStep, invoiceVars
    <3> QED
      BY <1>1, <1>6, <3>1, GripKept
  <2> QED
    BY <2>1, <2>2
<1>10. HeldApart'
  BY <1>1, <1>3, <1>4, NothingHeld DEF HeldApart
<1> QED
  BY <1>5, <1>7, <1>8, <1>9, <1>10 DEF ReconciliationInv, GripsInStep

LEMMA AdvanceKeeps ==
  ASSUME ReconciliationInv, NEW c \in Reconciler,
         NEW h \in [at : {"locked", "read", "written"}, of : Nat, no : Nat], Advance(c, h),
         GripStands(c)', 
         \A d \in Reconciler \ {c} : grip[d].at # "nothing" =>
            /\ submitted[c].bill # submitted[d].bill
            /\ h.at = "written" /\ grip[d].at = "written" => submitted[c].key # submitted[d].key
  PROVE  ReconciliationInv'
<1>1. /\ ReconciliationTypeOK /\ EntriesInStep /\ Told /\ GlanceInStep
      /\ HeldApart /\ \A d \in Reconciler : GripStands(d)
  BY DEF ReconciliationInv, GripsInStep
<1>2. grip \in [Reconciler -> [at : {"nothing", "locked", "read", "written"}, of : Nat, no : Nat]]
  BY <1>1 DEF ReconciliationTypeOK
<1>3. /\ UNCHANGED <<invoiced, divided, dropped, entries, submitted, finding, reopening, glance>>
      /\ grip' = [grip EXCEPT ![c] = h]
  BY DEF Advance, invoiceVars
<1>4. grip'[c] = h /\ \A d \in Reconciler \ {c} : grip'[d] = grip[d]
  BY <1>2, <1>3
<1>5. ReconciliationTypeOK'
  <2>1. grip' \in [Reconciler -> [at : {"nothing", "locked", "read", "written"}, of : Nat, no : Nat]]
    BY <1>2, <1>3
  <2> QED
    BY <1>1, <1>3, <2>1 DEF ReconciliationTypeOK
<1>6. Grown /\ SubmittedStays
  BY <1>1, <1>3, SameGrown DEF SubmittedStays
<1>7. EntriesInStep' /\ GlanceInStep'
  BY <1>1, <1>3, <1>6, EntriesKept, GlanceKept
<1>8. Told'
  BY <1>1, <1>3 DEF Told
<1>9. ASSUME NEW d \in Reconciler, d # c PROVE GripStands(d)'
  <2>1. Undisturbed(d)
    BY <1>1, <1>3, <1>4, <1>6, <1>9, RowsAlone DEF EntriesInStep, invoiceVars
  <2> QED
    BY <1>1, <1>6, <2>1, GripKept
<1>10. HeldApart'
  BY <1>1, <1>3, <1>4 DEF HeldApart
<1> QED
  BY <1>5, <1>7, <1>8, <1>9, <1>10 DEF ReconciliationInv, GripsInStep

LEMMA RepeatFits ==
  ASSUME NEW q, UnderKey(q.key) # {}
  PROVE  /\ RepeatFinding(q) \in Findings /\ RepeatFinding(q) # "stored"
         /\ RepeatFinding(q) = "replayed" => \E e \in UnderKey(q.key) : SameEntry(e, q)
BY DEF RepeatFinding, Findings

LEMMA BeginKeeps ==
  ASSUME ReconciliationInv, NEW c \in Reconciler, BeginReconcile(c)
  PROVE  ReconciliationInv'
<1> DEFINE q == submitted[c]
           s == q.bill
           h == [NoGrip EXCEPT !.at = "locked", !.of = Len(invoiced[s])]
<1>1. /\ ReconciliationTypeOK /\ q.op = "reconcile" /\ finding[c] = NoFinding /\ ~InvoiceHeld(s)
      /\ \/ UnderKey(q.key) # {} /\ EndWith(c, RepeatFinding(q))
         \/ EndWith(c, "refused")
         \/ Advance(c, h) /\ AsSeen(q) /\ PartsTotal(q.parts) = LatestInvoice(s).amount
  BY DEF BeginReconcile, Reached, ReconciliationInv
<1>2. q \in Submissions[c] /\ s \in Invoice
  BY <1>1, RequestAsked, RequestFits
<1>3. CASE UnderKey(q.key) # {} /\ EndWith(c, RepeatFinding(q))
  BY <1>3, RepeatFits, EndKeeps
<1>4. CASE EndWith(c, "refused")
  BY <1>4, EndKeeps DEF Findings
<1>5. CASE Advance(c, h) /\ AsSeen(q) /\ PartsTotal(q.parts) = LatestInvoice(s).amount
  <2>1. Len(invoiced[s]) \in Nat
    <3>1. invoiced[s] \in Seq(InvoiceRevision)
      BY <1>1, <1>2 DEF ReconciliationTypeOK
    <3> QED
      BY <3>1
  <2>2. NoGrip \in [at : {"nothing"}, of : Nat, no : Nat]
    BY DEF NoGrip
  <2>3. h \in [at : {"locked", "read", "written"}, of : Nat, no : Nat] /\ h.at = "locked" /\ h.of = Len(invoiced[s])
    BY <2>1, <2>2
  <2> HIDE DEF h
  <2>4. /\ grip' = [grip EXCEPT ![c] = h] /\ UNCHANGED <<invoiced, submitted, finding>> /\ c \in DOMAIN grip
    BY <1>1, <1>5 DEF Advance, invoiceVars, ReconciliationTypeOK
  <2>5. GripStands(c)'
    <3>1. grip'[c] = h
      BY <2>4
    <3>2. BillStands(c)'
      BY <1>1, <1>5, <2>3, <2>4, <3>1 DEF BillStands, AsSeen, LatestInvoice
    <3> QED
      BY <2>3, <3>1, <3>2 DEF GripStands
  <2>6. \A d \in Reconciler : grip[d].at # "nothing" => s # submitted[d].bill
    BY <1>1 DEF InvoiceHeld
  <2> QED
    BY <1>5, <2>3, <2>5, <2>6, AdvanceKeeps
<1> QED
  BY <1>1, <1>3, <1>4, <1>5

LEMMA ReadKeeps ==
  ASSUME ReconciliationInv, NEW c \in Reconciler, ReadChain(c)
  PROVE  ReconciliationInv'
<1> DEFINE q == submitted[c]
           last == LastEntry(q.bill)
           h == [grip[c] EXCEPT !.at = "read", !.no = last.no]
<1>1. /\ ReconciliationTypeOK /\ SomeIsLast /\ HeldApart /\ GripStands(c)
      /\ q.op = "reconcile" /\ grip[c].at = "locked"
      /\ \/ EndWith(c, "refused")
         \/ Advance(c, h) /\ last.op # "VOID" /\ last.no = q.expected
  BY DEF ReadChain, Reached, ReconciliationInv, EntriesInStep, GripsInStep
<1>2. q \in Submissions[c] /\ q.bill \in Invoice /\ last.no \in Nat
  BY <1>1, RequestAsked, RequestFits, LastIs
<1>3. CASE EndWith(c, "refused")
  BY <1>3, EndKeeps DEF Findings
<1>4. CASE Advance(c, h) /\ last.op # "VOID" /\ last.no = q.expected
  <2>1. grip[c] \in [at : {"nothing", "locked", "read", "written"}, of : Nat, no : Nat]
    BY <1>1 DEF ReconciliationTypeOK
  <2>2. h \in [at : {"locked", "read", "written"}, of : Nat, no : Nat] /\ h.at = "read" /\ h.of = grip[c].of /\ h.no = last.no
    BY <1>2, <2>1
  <2> HIDE DEF h
  <2>3. /\ grip' = [grip EXCEPT ![c] = h] /\ UNCHANGED <<invoiced, entries, submitted, finding>> /\ c \in DOMAIN grip
    BY <1>1, <1>4 DEF Advance, invoiceVars, ReconciliationTypeOK
  <2>4. GripStands(c)'
    <3>1. grip'[c] = h
      BY <2>3
    <3>2. BillStands(c)'
      BY <1>1, <2>2, <2>3, <3>1 DEF GripStands, BillStands, LatestInvoice
    <3>3. ChainStands(c)'
      BY <1>4, <2>2, <2>3, <3>1 DEF ChainStands, LastEntry, EntriesOf
    <3> QED
      BY <2>2, <3>1, <3>2, <3>3 DEF GripStands
  <2> QED
    BY <1>1, <1>4, <2>2, <2>4, AdvanceKeeps DEF HeldApart
<1> QED
  BY <1>1, <1>3, <1>4

LEMMA WriteKeeps ==
  ASSUME ReconciliationInv, NEW c \in Reconciler, WriteEntry(c)
  PROVE  ReconciliationInv'
<1> DEFINE q == submitted[c]
           last == LastEntry(q.bill)
           h == [grip[c] EXCEPT !.at = "written"]
<1>1. /\ ReconciliationTypeOK /\ SomeIsLast /\ HeldApart /\ GripStands(c)
      /\ q.op = "reconcile" /\ grip[c].at = "read" /\ ~KeyHeld(q.key)
      /\ \/ UnderKey(q.key) # {} /\ EndWith(c, RepeatFinding(q))
         \/ EndWith(c, "aborted") \/ EndWith(c, "refused")
         \/ Advance(c, h) /\ UnderKey(q.key) = {} /\ NumberFree(q.bill, grip[c].no + 1) /\ AllEvidenced(q.parts)
  BY DEF WriteEntry, Reached, ReconciliationInv, EntriesInStep, GripsInStep
<1>2. q \in Submissions[c] /\ q.bill \in Invoice /\ q.parts \in Seq(Part)
  BY <1>1, RequestAsked, RequestFits
<1>3. CASE UnderKey(q.key) # {} /\ EndWith(c, RepeatFinding(q))
  BY <1>3, RepeatFits, EndKeeps
<1>4. CASE EndWith(c, "aborted") \/ EndWith(c, "refused")
  BY <1>4, EndKeeps DEF Findings
<1>5. CASE Advance(c, h) /\ UnderKey(q.key) = {} /\ NumberFree(q.bill, grip[c].no + 1) /\ AllEvidenced(q.parts)
  <2>1. grip[c] \in [at : {"nothing", "locked", "read", "written"}, of : Nat, no : Nat]
    BY <1>1 DEF ReconciliationTypeOK
  <2>2. h \in [at : {"locked", "read", "written"}, of : Nat, no : Nat] /\ h.at = "written" /\ h.of = grip[c].of /\ h.no = grip[c].no
    BY <2>1
  <2> HIDE DEF h
  <2>3. /\ grip' = [grip EXCEPT ![c] = h] /\ c \in DOMAIN grip
        /\ UNCHANGED <<invoiced, divided, dropped, entries, submitted, finding>>
    BY <1>1, <1>5 DEF Advance, invoiceVars, ReconciliationTypeOK
  <2>4. PartsReal(q.parts)
    <3> SUFFICES ASSUME NEW k \in DOMAIN q.parts, q.parts[k].charge # Nowhere
                 PROVE  \E n \in 0..Len(divided[q.parts[k].charge]) : OwedBy(divided[q.parts[k].charge], n, q.parts[k])
      BY DEF PartsReal
    <3>1. q.parts[k].charge \in Charge
      BY <1>2, PartTyped
    <3>2. divided[q.parts[k].charge] \in Seq(Divisions \cup {Undivided})
      BY <1>1, <3>1 DEF ReconciliationTypeOK
    <3>3. Len(divided[q.parts[k].charge]) \in 0..Len(divided[q.parts[k].charge])
      BY <3>2
    <3> QED
      BY <1>5, <3>3 DEF AllEvidenced, Evidenced, Consistent
  <2>5. last.no = grip[c].no /\ last.op # "VOID" /\ grip[c].no = q.expected
    <3>1. ChainStands(c)
      BY <1>1 DEF GripStands
    <3>2. ASSUME last.op = "VOID", last.no = grip[c].no + 1 PROVE FALSE
      <4>1. EntriesOf(q.bill) # {}
        BY <1>1, <1>2, <3>2, LastIs DEF NoEntry
      <4>2. last \in EntriesOf(q.bill)
        BY <1>1, <1>2, <4>1, LastIs DEF EntriesOf
      <4> QED
        BY <1>5, <3>2, <4>2 DEF NumberFree
    <3> QED
      BY <3>1, <3>2 DEF ChainStands
  <2>6. GripStands(c)'
    <3>1. grip'[c] = h
      BY <2>3
    <3>2. BillStands(c)'
      BY <1>1, <2>2, <2>3, <3>1 DEF GripStands, BillStands, LatestInvoice
    <3>3. ChainStands(c)'
      BY <2>2, <2>3, <2>5, <3>1 DEF ChainStands, LastEntry, EntriesOf
    <3>4. WritingStands(c)'
      BY <1>5, <2>3, <2>4 DEF WritingStands, UnderKey, PartsReal, AllEvidenced, Evidenced, Consistent
    <3> QED
      BY <2>2, <3>1, <3>2, <3>3, <3>4 DEF GripStands
  <2>7. \A d \in Reconciler \ {c} : grip[d].at # "nothing" =>
            /\ q.bill # submitted[d].bill
            /\ grip[d].at = "written" => q.key # submitted[d].key
    BY <1>1 DEF HeldApart, KeyHeld
  <2> QED
    BY <1>5, <2>2, <2>6, <2>7, AdvanceKeeps
<1> QED
  BY <1>1, <1>3, <1>4, <1>5

\* A row that may be added: it follows the last, is what its request asked
\* for, and nobody who writes disagrees.
Follows(c, e) ==
    LET q    == submitted[c]
        last == LastEntry(q.bill)
    IN  /\ e \in EntryRow /\ e.by = c /\ e.bill = q.bill /\ e.parts = q.parts
        /\ UnderKey(q.key) = {} /\ e.no = last.no + 1 /\ q.expected = last.no /\ last.op # "VOID"
        /\ (e.op = "CREATE") <=> (e.no = 1)
        /\ e.of \in DOMAIN invoiced[e.bill] /\ invoiced[e.bill][e.of].amount = e.amount
        /\ IF e.op = "VOID" THEN last.no > 0 /\ last.of = e.of /\ e.parts = <<>>
           ELSE e.parts # <<>> /\ PartsTotal(e.parts) = e.amount /\ invoiced[e.bill][e.of].status # "VOID"
        /\ PartsReal(e.parts)

LEMMA FollowersKeep ==
  ASSUME ReconciliationTypeOK, EntriesInStep, NEW c \in Reconciler, NEW e, Follows(c, e), submitted[c] \in Submissions[c],
         entries' = entries \cup {e}, UNCHANGED <<invoiceVars, submitted>>
  PROVE  EntriesInStep'
<1> DEFINE q == submitted[c]
           last == LastEntry(q.bill)
<1>1. /\ ChainsWhole /\ EntriesAddUp /\ EvidenceReal /\ EntriesAsked /\ SomeIsLast /\ OneRowPerKey
      /\ UNCHANGED <<invoiced, divided, dropped, submitted>>
  BY DEF EntriesInStep, invoiceVars
<1>2. /\ e \in EntryRow /\ e.by = c /\ e.bill = q.bill /\ e.parts = q.parts /\ e.no = last.no + 1 /\ q.expected = last.no
      /\ last.op # "VOID" /\ ((e.op = "CREATE") <=> (e.no = 1)) /\ UnderKey(q.key) = {}
  BY DEF Follows
<1>3. q.bill \in Invoice /\ q # NoSubmission
  BY RequestFits
<1>4. /\ last.no \in Nat /\ \A f \in EntriesOf(q.bill) : f.no <= last.no
      /\ EntriesOf(q.bill) # {} => last \in entries /\ last.bill = q.bill
      /\ EntriesOf(q.bill) = {} => last = NoEntry
  BY <1>1, <1>3, LastIs
<1>5. /\ SomeIsLast' /\ \A f \in EntriesOf(q.bill) : f.no < e.no
  BY <1>1, <1>2, LastAfter
<1>6. ASSUME last.no > 0 PROVE last \in entries /\ last.bill = e.bill /\ last.no = e.no - 1
  BY <1>2, <1>4, <1>6 DEF NoEntry
<1>7. \A f \in entries : f.no \in Nat
  BY DEF ReconciliationTypeOK, EntryRow
<1>8. ChainsWhole'
  <2> SUFFICES ASSUME NEW f \in entries'
               PROVE  /\ \A g \in entries' : g.bill = f.bill /\ g.no = f.no => g = f
                      /\ submitted[f.by].expected = f.no - 1
                      /\ f.no > 1 => \E g \in entries' : g.bill = f.bill /\ g.no = f.no - 1 /\ g.op # "VOID"
                      /\ (f.op = "CREATE") <=> (f.no = 1)
    BY <1>1 DEF ChainsWhole
  <2>1. \A g \in entries : g.bill = e.bill => g.no # e.no
    BY <1>2, <1>4, <1>5, <1>7 DEF EntriesOf
  <2>2. CASE f \in entries
    <3>1. \A g \in entries' : g.bill = f.bill /\ g.no = f.no => g = f
      BY <1>1, <2>1, <2>2 DEF ChainsWhole
    <3> QED
      BY <1>1, <2>2, <3>1 DEF ChainsWhole
  <2>3. CASE f = e
    <3>1. submitted[f.by].expected = f.no - 1
      BY <1>2, <1>4, <2>3
    <3>2. f.no > 1 => \E g \in entries' : g.bill = f.bill /\ g.no = f.no - 1 /\ g.op # "VOID"
      BY <1>2, <1>4, <1>6, <2>3
    <3>3. \A g \in entries' : g.bill = f.bill /\ g.no = f.no => g = f
      BY <2>1, <2>3
    <3> QED
      BY <1>2, <2>3, <3>1, <3>2, <3>3
  <2> QED
    BY <2>2, <2>3
<1>9. EntriesAddUp'
  <2> SUFFICES ASSUME NEW f \in entries'
               PROVE  /\ f.of \in DOMAIN invoiced[f.bill] /\ invoiced[f.bill][f.of].amount = f.amount
                      /\ IF f.op = "VOID"
                         THEN f.parts = <<>> /\ \E g \in entries' : g.bill = f.bill /\ g.no = f.no - 1 /\ g.of = f.of
                         ELSE PartsTotal(f.parts) = f.amount /\ invoiced[f.bill][f.of].status # "VOID"
    BY <1>1 DEF EntriesAddUp
  <2>1. CASE f \in entries
    BY <1>1, <2>1 DEF EntriesAddUp
  <2>2. CASE f = e
    BY <1>6, <2>2 DEF Follows
  <2> QED
    BY <2>1, <2>2
<1>10. EvidenceReal'
  <2>1. \A f \in entries' : PartsReal(f.parts)
    BY <1>1 DEF EvidenceReal, PartsReal, Follows
  <2> QED
    BY <1>1, <2>1 DEF EvidenceReal, PartsReal
<1>11. EntriesAsked'
  BY <1>1, <1>2, <1>3 DEF EntriesAsked, Follows
<1>12. OneRowPerKey'
  BY <1>1, <1>2 DEF OneRowPerKey, UnderKey
<1> QED
  BY <1>5, <1>8, <1>9, <1>10, <1>11, <1>12 DEF EntriesInStep

LEMMA StoreKeeps ==
  ASSUME ReconciliationInv, NEW c \in Reconciler, submitted[c] \in Submissions[c], NEW e, Follows(c, e), StoreEntry(c, e),
         \A d \in Reconciler \ {c} :
            /\ grip[d].at \in {"read", "written"} /\ submitted[d].bill = e.bill => grip[d].at = "read" /\ e.op = "VOID"
            /\ grip[d].at = "written" => submitted[d].key # submitted[c].key
  PROVE  ReconciliationInv'
<1>1. /\ ReconciliationTypeOK /\ EntriesInStep /\ Told /\ GlanceInStep
      /\ HeldApart /\ \A d \in Reconciler : GripStands(d)
  BY DEF ReconciliationInv, GripsInStep
<1>2. /\ grip \in [Reconciler -> [at : {"nothing", "locked", "read", "written"}, of : Nat, no : Nat]]
      /\ finding \in [Reconciler -> Findings \cup {NoFinding}]
  BY <1>1 DEF ReconciliationTypeOK
<1>3. /\ UNCHANGED <<invoiced, divided, dropped, submitted, reopening, glance>> /\ entries' = entries \cup {e}
      /\ finding' = [finding EXCEPT ![c] = "stored"] /\ grip' = [grip EXCEPT ![c] = NoGrip]
  BY DEF StoreEntry, Finish, invoiceVars
<1>4. /\ finding'[c] = "stored" /\ grip'[c] = NoGrip
      /\ \A d \in Reconciler \ {c} : finding'[d] = finding[d] /\ grip'[d] = grip[d]
  BY <1>2, <1>3
<1>5. /\ e \in EntryRow /\ e.by = c /\ e.bill = submitted[c].bill /\ e.parts = submitted[c].parts
      /\ e.no = LastEntry(e.bill).no + 1 /\ LastEntry(e.bill).op # "VOID"
  BY DEF Follows
<1>6. ReconciliationTypeOK'
  <2>1. NoGrip \in [at : {"nothing", "locked", "read", "written"}, of : Nat, no : Nat]
    BY DEF NoGrip
  <2>2. /\ grip' \in [Reconciler -> [at : {"nothing", "locked", "read", "written"}, of : Nat, no : Nat]]
        /\ finding' \in [Reconciler -> Findings \cup {NoFinding}]
    BY <1>2, <1>3, <2>1 DEF Findings
  <2> QED
    BY <1>1, <1>3, <1>5, <2>2 DEF ReconciliationTypeOK
<1>7. Grown
  BY <1>1, <1>3, SameGrown
<1>8. EntriesInStep' /\ GlanceInStep'
  BY <1>1, <1>3, <1>7, FollowersKeep, GlanceKept DEF invoiceVars
<1>9. Told'
  BY <1>1, <1>3, <1>4, <1>5 DEF Told
<1>10. /\ LastEntry(e.bill)' = e
       /\ \A s \in Invoice \ {e.bill} : LastEntry(s)' = LastEntry(s)
  BY <1>1, <1>3, <1>5, LastAfter DEF EntriesInStep
<1>11. ASSUME NEW d \in Reconciler, d # c
       PROVE  GripStands(d)'
  <2>1. ASSUME grip[d].at \in {"read", "written"} PROVE ChainStands(d)'
    <3>1. ChainStands(d) /\ BillStands(d) /\ grip'[d] = grip[d] /\ submitted'[d] = submitted[d]
      BY <1>1, <1>3, <1>4, <1>11, <2>1 DEF GripStands
    <3>2. submitted[d].bill \in Invoice
      BY <1>1, <3>1, RequestAsked, RequestFits DEF BillStands
    <3>3. CASE submitted[d].bill = e.bill
      <4>1. grip[d].at = "read" /\ e.op = "VOID" /\ LastEntry(e.bill).no = grip[d].no
        BY <1>5, <1>11, <2>1, <3>1, <3>3 DEF ChainStands
      <4> QED
        BY <1>5, <1>10, <3>1, <3>3, <4>1 DEF ChainStands
    <3>4. CASE submitted[d].bill # e.bill
      BY <1>10, <3>1, <3>2, <3>4 DEF ChainStands
    <3> QED
      BY <3>3, <3>4
  <2>2. ASSUME grip[d].at = "written" PROVE UnderKey(submitted[d].key)' = {}
    <3>1. UnderKey(submitted[d].key) = {} /\ submitted[d].key # submitted[c].key
      BY <1>1, <1>11, <2>2 DEF GripStands, WritingStands
    <3> QED
      BY <1>3, <1>5, <3>1 DEF UnderKey
  <2>3. Undisturbed(d)
    BY <1>3, <1>4, <1>11, <2>1, <2>2 DEF Undisturbed
  <2> QED
    BY <1>1, <1>7, <2>3, GripKept
<1>12. HeldApart'
  BY <1>1, <1>3, <1>4, NothingHeld DEF HeldApart
<1> QED
  BY <1>4, <1>6, <1>8, <1>9, <1>11, <1>12, NothingHeld DEF ReconciliationInv, GripsInStep

LEMMA CommitKeeps ==
  ASSUME ReconciliationInv, NEW c \in Reconciler, CommitEntry(c)
  PROVE  ReconciliationInv'
<1> DEFINE q == submitted[c]
           last == LastEntry(q.bill)
<1>1. /\ ReconciliationTypeOK /\ SomeIsLast /\ HeldApart
      /\ q.op = "reconcile" /\ grip[c].at = "written" /\ BillStands(c) /\ ChainStands(c) /\ WritingStands(c)
  BY DEF CommitEntry, Reached, ReconciliationInv, EntriesInStep, GripsInStep, GripStands
<1>2. /\ q \in Submissions[c] /\ q.bill \in Invoice /\ q.parts \in Seq(Part) /\ q.parts # <<>>
  BY <1>1, RequestAsked, RequestFits
<1>3. /\ last.no = grip[c].no /\ last.op # "VOID" /\ grip[c].no = q.expected /\ last.no \in Nat
      /\ UnderKey(q.key) = {} /\ PartsReal(q.parts)
  BY <1>1, <1>2, LastIs DEF ChainStands, WritingStands
<1>4. /\ grip[c].of = Len(invoiced[q.bill]) /\ grip[c].of \in DOMAIN invoiced[q.bill]
      /\ invoiced[q.bill][grip[c].of] \in InvoiceRevision /\ grip[c].of \in Nat
  <2>1. invoiced[q.bill] \in Seq(InvoiceRevision) /\ invoiced[q.bill] # <<>>
    BY <1>1, <1>2 DEF ReconciliationTypeOK
  <2> QED
    BY <1>1, <2>1 DEF BillStands
<1>5. /\ invoiced[q.bill][grip[c].of].amount \in Nat \ {0}
      /\ invoiced[q.bill][grip[c].of].status # "VOID" /\ PartsTotal(q.parts) = invoiced[q.bill][grip[c].of].amount
  BY <1>1, <1>4 DEF BillStands, LatestInvoice, InvoiceRevision
<1>6. PICK e : e = [bill |-> q.bill, no |-> grip[c].no + 1, op |-> IF grip[c].no = 0 THEN "CREATE" ELSE "SUPERSEDE",
                    of |-> grip[c].of, amount |-> invoiced[q.bill][grip[c].of].amount, parts |-> q.parts, by |-> c]
  OBVIOUS
<1>7. /\ e.bill = q.bill /\ e.no = last.no + 1 /\ e.op = (IF last.no = 0 THEN "CREATE" ELSE "SUPERSEDE")
      /\ e.of = grip[c].of /\ e.amount = invoiced[q.bill][grip[c].of].amount /\ e.parts = q.parts /\ e.by = c
  BY <1>3, <1>6
<1>8. e \in EntryRow
  BY <1>2, <1>3, <1>4, <1>5, <1>6 DEF EntryRow
<1>9. Follows(c, e)
  <2>1. (e.op = "CREATE") <=> (e.no = 1)
    BY <1>3, <1>7
  <2>2. e.op # "VOID" /\ e.parts # <<>> /\ PartsReal(e.parts)
    BY <1>2, <1>3, <1>7
  <2> QED
    BY <1>3, <1>4, <1>5, <1>7, <1>8, <2>1, <2>2 DEF Follows
<1>10. StoreEntry(c, e)
  BY <1>6 DEF CommitEntry
<1>11. \A d \in Reconciler \ {c} : grip[d].at # "nothing" =>
         submitted[d].bill # e.bill /\ (grip[d].at = "written" => submitted[d].key # q.key)
  BY <1>1, <1>7 DEF HeldApart
<1> QED
  BY <1>2, <1>9, <1>10, <1>11, StoreKeeps

LEMMA VoidEntryKeeps ==
  ASSUME ReconciliationInv, NEW c \in Reconciler, VoidEntry(c)
  PROVE  ReconciliationInv'
<1> DEFINE q == submitted[c]
           last == LastEntry(q.bill)
           voided == [last EXCEPT !.no = @ + 1, !.op = "VOID", !.parts = <<>>, !.by = c]
<1>1. /\ ReconciliationTypeOK /\ SomeIsLast /\ q.op = "void" /\ ~ChainHeld(q.bill)
      /\ \A d \in Reconciler : GripStands(d)
      /\ \/ EndWith(c, "refused")
         \/ UnderKey(q.key) # {} /\ EndWith(c, RepeatFinding(q))
         \/ /\ EntriesOf(q.bill) # {} /\ UnderKey(q.key) = {} /\ VoidableStill(last, q) /\ ~KeyHeld(q.key)
            /\ StoreEntry(c, voided)
  BY DEF VoidEntry, ReconciliationInv, EntriesInStep, GripsInStep
<1>2. /\ q \in Submissions[c] /\ q.bill \in Invoice /\ q.parts = <<>>
  BY <1>1, RequestAsked, RequestFits
<1>3. CASE UnderKey(q.key) # {} /\ EndWith(c, RepeatFinding(q))
  BY <1>3, RepeatFits, EndKeeps
<1>4. CASE EndWith(c, "refused")
  BY <1>4, EndKeeps DEF Findings
<1>5. CASE /\ EntriesOf(q.bill) # {} /\ UnderKey(q.key) = {} /\ VoidableStill(last, q) /\ ~KeyHeld(q.key)
           /\ StoreEntry(c, voided)
  <2>1. /\ last \in entries /\ last.bill = q.bill /\ last.no \in Nat /\ last.no >= 1
        /\ last.op # "VOID" /\ last.no = q.expected
    BY <1>1, <1>2, <1>5, LastIs DEF VoidableStill
  <2>2. last \in EntryRow
    BY <1>1, <2>1 DEF ReconciliationTypeOK
  <2>3. PICK e : e = voided
    OBVIOUS
  <2>4. /\ e \in EntryRow /\ e.by = c /\ e.bill = q.bill /\ e.parts = q.parts /\ e.no = last.no + 1 /\ e.op = "VOID"
        /\ e.of = last.of /\ e.amount = last.amount
    <3>1. PICK r \in EntryRow : r = last
      BY <2>2
    <3>2. e = [r EXCEPT !.no = r.no + 1, !.op = "VOID", !.parts = <<>>, !.by = c]
      BY <2>3, <3>1
    <3>3. r.no \in Nat /\ <<>> \in Seq(Part)
      BY DEF EntryRow
    <3>4. /\ e.by = c /\ e.bill = r.bill /\ e.parts = <<>> /\ e.no = r.no + 1 /\ e.op = "VOID"
          /\ e.of = r.of /\ e.amount = r.amount
      BY <3>2 DEF EntryRow
    <3>5. e \in EntryRow
      <4>1. e = [bill |-> r.bill, no |-> r.no + 1, op |-> "VOID", of |-> r.of, amount |-> r.amount, parts |-> <<>>, by |-> c]
        BY <3>2 DEF EntryRow
      <4>2. r.no + 1 \in Nat \ {0} /\ r.bill \in Invoice /\ r.of \in Nat /\ r.amount \in Nat
        BY <3>3 DEF EntryRow
      <4> QED
        BY <3>3, <4>1, <4>2 DEF EntryRow
    <3> QED
      BY <1>2, <2>1, <3>1, <3>4, <3>5
  <2>5. e.of \in DOMAIN invoiced[e.bill] /\ invoiced[e.bill][e.of].amount = e.amount
    BY <2>1, <2>4 DEF ReconciliationInv, EntriesInStep, EntriesAddUp
  <2>6. PartsReal(e.parts)
    BY <1>2, <2>4 DEF PartsReal
  <2>7. Follows(c, e)
    BY <1>2, <1>5, <2>1, <2>4, <2>5, <2>6 DEF Follows
  <2>8. ASSUME NEW d \in Reconciler, d # c, grip[d].at \in {"read", "written"}, submitted[d].bill = e.bill
        PROVE  grip[d].at = "read"
    <3> SUFFICES ASSUME grip[d].at = "written" PROVE FALSE
      BY <2>8
    <3>1. last.no = grip[d].no
      BY <1>1, <2>4, <2>8 DEF GripStands, ChainStands
    <3> QED
      BY <1>1, <2>1, <2>4, <2>8, <3>1 DEF ChainHeld
  <2>9. StoreEntry(c, e)
    BY <1>5, <2>3
  <2>10. \A d \in Reconciler \ {c} : grip[d].at = "written" => submitted[d].key # q.key
    BY <1>5 DEF KeyHeld
  <2> QED
    BY <1>2, <2>4, <2>7, <2>8, <2>9, <2>10, StoreKeeps
<1> QED
  BY <1>1, <1>3, <1>4, <1>5

LEMMA LookKeyUpKeeps ==
  ASSUME ReconciliationInv, NEW c \in Reconciler, NEW q \in Submissions[c], LookKeyUp(c, q)
  PROVE  ReconciliationInv'
<1> DEFINE w == IF UnderKey(q.key) # {} THEN RepeatFinding(q) ELSE NoFinding
<1>1. /\ ReconciliationTypeOK /\ EntriesInStep /\ Told /\ GlanceInStep
      /\ HeldApart /\ \A d \in Reconciler : GripStands(d)
  BY DEF ReconciliationInv, GripsInStep
<1>2. /\ finding \in [Reconciler -> Findings \cup {NoFinding}] /\ DOMAIN submitted = Reconciler
  BY <1>1 DEF ReconciliationTypeOK
<1>3. /\ UNCHANGED <<invoiced, divided, dropped, entries, grip, reopening, glance>>
      /\ submitted[c] = NoSubmission /\ submitted' = [submitted EXCEPT ![c] = q] /\ finding' = [finding EXCEPT ![c] = w]
  BY DEF LookKeyUp, invoiceVars
<1>4. w \in Findings \cup {NoFinding} /\ w # "stored"
      /\ (w = "replayed" => \E e \in UnderKey(q.key) : SameEntry(e, q))
  BY RepeatFits, ReconciliationAssumption DEF Findings
<1> HIDE DEF w
<1>5. /\ finding'[c] = w /\ submitted'[c] = q
      /\ \A d \in Reconciler \ {c} : finding'[d] = finding[d] /\ submitted'[d] = submitted[d]
  BY <1>2, <1>3
<1>6. ReconciliationTypeOK'
  <2>1. /\ finding' \in [Reconciler -> Findings \cup {NoFinding}] /\ DOMAIN submitted' = Reconciler
        /\ \A d \in Reconciler : submitted'[d] \in Submissions[d] \cup {NoSubmission}
    BY <1>1, <1>2, <1>3, <1>4 DEF ReconciliationTypeOK
  <2> QED
    BY <1>1, <1>3, <2>1 DEF ReconciliationTypeOK
<1>7. Grown /\ SubmittedStays
  BY <1>1, <1>3, <1>5, SameGrown DEF SubmittedStays
<1>8. EntriesInStep' /\ GlanceInStep'
  BY <1>1, <1>3, <1>7, EntriesKept, GlanceKept
<1>9. \A e \in entries : e.by # c /\ submitted'[e.by] = submitted[e.by]
  BY <1>1, <1>3, <1>5 DEF EntriesInStep, EntriesAsked, ReconciliationTypeOK, EntryRow
<1>10. Told'
  <2> SUFFICES ASSUME NEW d \in Reconciler, finding'[d] \in {"stored", "replayed"}
               PROVE  \E e \in entries : /\ submitted'[e.by].key = submitted'[d].key
                                         /\ e.bill = submitted'[d].bill /\ e.parts = submitted'[d].parts
    BY <1>3 DEF Told
  <2>1. CASE d = c
    <3>1. PICK e \in UnderKey(q.key) : SameEntry(e, q)
      BY <1>4, <1>5, <2>1
    <3> QED
      BY <1>5, <1>9, <2>1, <3>1 DEF UnderKey, SameEntry
  <2>2. CASE d # c
    BY <1>1, <1>5, <1>9, <2>2 DEF Told
  <2> QED
    BY <2>1, <2>2
<1>11. grip[c].at = "nothing"
  <2>1. NoSubmission.op = "none"
    BY DEF NoSubmission
  <2> QED
    BY <1>1, <1>3, <2>1 DEF GripStands, BillStands
<1>12. ASSUME NEW d \in Reconciler PROVE GripStands(d)'
  <2>1. grip[d].at # "nothing" => d # c
    BY <1>11
  <2>2. Undisturbed(d)
    BY <1>1, <1>3, <1>5, <1>7, <2>1, RowsAlone DEF EntriesInStep, invoiceVars
  <2> QED
    BY <1>1, <1>7, <2>2, GripKept
<1>13. HeldApart'
  BY <1>1, <1>3, <1>5, <1>11 DEF HeldApart
<1> QED
  BY <1>6, <1>8, <1>10, <1>12, <1>13 DEF ReconciliationInv, GripsInStep

-----------------------------------------------------------------------------
(* A step of somebody else.                                                *)

LEMMA OthersKeep ==
  ASSUME ReconciliationInv, Grown, ReconciliationTypeOK', GlanceInStep', UNCHANGED <<entries, submitted, grip, finding>>,
         \A d \in Reconciler :
            /\ grip[d].at # "nothing" => invoiced'[submitted[d].bill] = invoiced[submitted[d].bill]
            /\ grip[d].at = "written" /\ grip[d].no = 0 => UNCHANGED <<divided, dropped>>
  PROVE  ReconciliationInv'
<1>1. /\ ReconciliationTypeOK /\ EntriesInStep /\ Told
      /\ HeldApart /\ \A d \in Reconciler : GripStands(d)
  BY DEF ReconciliationInv, GripsInStep
<1>2. EntriesInStep'
  BY <1>1, EntriesKept DEF SubmittedStays
<1>3. Told' /\ HeldApart'
  BY <1>1 DEF Told, HeldApart
<1>4. ASSUME NEW d \in Reconciler PROVE GripStands(d)'
  <2>1. ASSUME grip[d].at \in {"read", "written"} PROVE ChainStands(d)'
    <3>1. ChainStands(d)
      BY <1>1, <2>1 DEF GripStands
    <3>2. LastEntry(submitted[d].bill)' = LastEntry(submitted[d].bill)
      BY DEF LastEntry, EntriesOf
    <3> QED
      BY <3>1, <3>2 DEF ChainStands
  <2>2. grip[d].at = "written" => UnderKey(submitted[d].key)' = {}
    BY <1>1 DEF GripStands, WritingStands, UnderKey
  <2>3. Undisturbed(d)
    BY <2>1, <2>2 DEF Undisturbed
  <2> QED
    BY <1>1, <2>3, GripKept
<1> QED
  BY <1>2, <1>3, <1>4 DEF ReconciliationInv, GripsInStep

LEMMA CardHoldKeeps ==
  ASSUME ReconciliationInv, UNCHANGED <<invoiceVars, entries, submitted, grip, finding, glance>>,
         reopening' \in Invoice \cup {Nowhere}
  PROVE  ReconciliationInv'
<1>1. ReconciliationTypeOK /\ GlanceInStep /\ UNCHANGED <<invoiced, divided, dropped>>
  BY DEF ReconciliationInv, invoiceVars
<1>2. ReconciliationTypeOK'
  BY <1>1 DEF ReconciliationTypeOK
<1>3. Grown /\ GlanceInStep'
  BY <1>1, SameGrown, GlanceKept
<1> QED
  BY <1>1, <1>2, <1>3, OthersKeep

LEMMA RestateKeeps ==
  ASSUME ReconciliationInv, NEW s \in Invoice, ~InvoiceHeld(s), NEW state \in {"OPEN", "PAID", "VOID"},
         NEW amount \in Nat \ {0}, Restated(s, state, amount), reopening' \in Invoice \cup {Nowhere}
  PROVE  ReconciliationInv'
<1> DEFINE r == [status |-> state, amount |-> amount]
<1>1. /\ ReconciliationTypeOK /\ GlanceInStep /\ UNCHANGED <<divided, dropped, entries, submitted, grip, finding, glance>>
      /\ invoiced' = [invoiced EXCEPT ![s] = Append(invoiced[s], r)]
  BY DEF ReconciliationInv, Restated
<1>2. r \in InvoiceRevision /\ invoiced \in [Invoice -> Seq(InvoiceRevision) \ {<<>>}]
  BY <1>1 DEF InvoiceRevision, ReconciliationTypeOK
<1> HIDE DEF r
<1>3. /\ invoiced'[s] = Append(invoiced[s], r) /\ invoiced[s] \in Seq(InvoiceRevision)
      /\ \A t \in Invoice \ {s} : invoiced'[t] = invoiced[t]
  BY <1>1, <1>2
<1>4. /\ Append(invoiced[s], r) \in Seq(InvoiceRevision) \ {<<>>}
      /\ Len(Append(invoiced[s], r)) = Len(invoiced[s]) + 1 /\ Len(invoiced[s]) \in Nat
      /\ \A n \in DOMAIN invoiced[s] : n \in DOMAIN Append(invoiced[s], r) /\ Append(invoiced[s], r)[n] = invoiced[s][n]
  BY <1>2, <1>3
<1>5. ReconciliationTypeOK'
  <2>1. invoiced' \in [Invoice -> Seq(InvoiceRevision) \ {<<>>}]
    BY <1>1, <1>2, <1>4
  <2> QED
    BY <1>1, <2>1 DEF ReconciliationTypeOK
<1>6. Grown
  <2>1. ASSUME NEW t \in Invoice
        PROVE  /\ Len(invoiced'[t]) >= Len(invoiced[t]) /\ Len(invoiced'[t]) \in Nat
               /\ \A n \in DOMAIN invoiced[t] : n \in DOMAIN invoiced'[t] /\ invoiced'[t][n] = invoiced[t][n]
    <3>1. CASE t = s
      BY <1>3, <1>4, <3>1
    <3>2. CASE t # s
      <4>1. invoiced'[t] = invoiced[t] /\ invoiced[t] \in Seq(InvoiceRevision)
        BY <1>2, <1>3, <3>2
      <4> QED
        BY <4>1
    <3> QED
      BY <3>1, <3>2
  <2>2. \A p \in Charge : Len(divided[p]) \in Nat
    <3>1. \A p \in Charge : divided[p] \in Seq(Divisions \cup {Undivided})
      BY <1>1 DEF ReconciliationTypeOK
    <3> QED
      BY <3>1
  <2> QED
    BY <1>1, <2>1, <2>2 DEF Grown
<1>7. GlanceInStep'
  BY <1>1, <1>6, GlanceKept
<1>8. ASSUME NEW d \in Reconciler, grip[d].at # "nothing"
      PROVE  invoiced'[submitted[d].bill] = invoiced[submitted[d].bill]
  <2>1. submitted[d].op = "reconcile"
    BY <1>8 DEF ReconciliationInv, GripsInStep, GripStands, BillStands
  <2>2. submitted[d].bill \in Invoice
    BY <1>1, <2>1, RequestAsked, RequestFits
  <2> QED
    BY <1>3, <1>8, <2>2 DEF InvoiceHeld
<1> QED
  BY <1>1, <1>5, <1>6, <1>7, <1>8, OthersKeep

LEMMA ChangeInvoiceKeeps ==
  ASSUME ReconciliationInv, NEW s \in Invoice, ChangeInvoice(s)
  PROVE  ReconciliationInv'
<1>1. ReconciliationTypeOK /\ ~InvoiceHeld(s) /\ reopening' \in Invoice \cup {Nowhere}
  BY DEF ReconciliationInv, ReconciliationTypeOK, ChangeInvoice
<1>2. LatestInvoice(s).amount \in Nat \ {0}
  <2>1. invoiced[s] \in Seq(InvoiceRevision) /\ invoiced[s] # <<>>
    BY <1>1 DEF ReconciliationTypeOK
  <2>2. invoiced[s][Len(invoiced[s])] \in InvoiceRevision
    BY <2>1
  <2> QED
    BY <2>2 DEF LatestInvoice, InvoiceRevision
<1>3. ASSUME NEW n \in InvoiceAmounts, Restated(s, "OPEN", n) PROVE ReconciliationInv'
  BY <1>1, <1>3, ReconciliationAssumption, RestateKeeps
<1>4. ASSUME NEW state \in {"PAID", "VOID"}, Restated(s, state, LatestInvoice(s).amount) PROVE ReconciliationInv'
  <2>1. PICK n \in Nat \ {0} : n = LatestInvoice(s).amount
    BY <1>2
  <2> QED
    BY <1>1, <1>4, <2>1, RestateKeeps
<1> QED
  BY <1>3, <1>4 DEF ChangeInvoice

LEMMA EndReopenKeeps ==
  ASSUME ReconciliationInv, EndReopen
  PROVE  ReconciliationInv'
<1>1. PICK s \in Invoice : s = reopening
  BY DEF ReconciliationInv, ReconciliationTypeOK, EndReopen
<1>2. invoiced[s] \in Seq(InvoiceRevision) /\ invoiced[s] # <<>>
  BY DEF ReconciliationInv, ReconciliationTypeOK
<1>3. invoiced[s][Len(invoiced[s])] \in InvoiceRevision
  BY <1>2
<1>4. PICK n \in Nat \ {0} : n = LatestInvoice(s).amount
  BY <1>3 DEF LatestInvoice, InvoiceRevision
<1>5. ~InvoiceHeld(s) /\ Restated(s, "OPEN", n) /\ reopening' \in Invoice \cup {Nowhere}
  BY <1>1, <1>4 DEF EndReopen
<1> QED
  BY <1>5, RestateKeeps

LEMMA SplitKeeps ==
  ASSUME ReconciliationInv, ~CardShared, NEW p \in Charge, NEW d \in Divisions \cup {Undivided},
         divided' = divided \/ divided' = [divided EXCEPT ![p] = Append(divided[p], d)],
         dropped' \subseteq Charge, UNCHANGED <<invoiced, entries, submitted, grip, finding, reopening, glance>>
  PROVE  ReconciliationInv'
<1>1. ReconciliationTypeOK /\ GlanceInStep /\ divided \in [Charge -> Seq(Divisions \cup {Undivided})]
  BY DEF ReconciliationInv, ReconciliationTypeOK
<1>2. \A x \in Charge : divided'[x] = divided[x] \/ divided'[x] = Append(divided[x], d)
  BY <1>1
<1>3. ASSUME NEW x \in Charge
      PROVE  /\ divided[x] \in Seq(Divisions \cup {Undivided}) /\ Len(divided[x]) \in Nat
             /\ Append(divided[x], d) \in Seq(Divisions \cup {Undivided})
             /\ Len(Append(divided[x], d)) = Len(divided[x]) + 1
  BY <1>1
<1>4. ReconciliationTypeOK'
  <2>1. divided' \in [Charge -> Seq(Divisions \cup {Undivided})]
    BY <1>1, <1>3
  <2> QED
    BY <1>1, <2>1 DEF ReconciliationTypeOK
<1>5. Grown
  <2>1. ASSUME NEW x \in Charge
        PROVE  /\ Len(divided'[x]) >= Len(divided[x]) /\ Len(divided'[x]) \in Nat
               /\ \A n \in 0..Len(divided[x]), part \in Part :
                     OwedBy(divided[x], n, part) => OwedBy(divided'[x], n, part)
    <3>1. CASE divided'[x] = divided[x]
      BY <1>3, <3>1
    <3>2. CASE divided'[x] = Append(divided[x], d)
      <4>1. PICK splits \in Seq(Divisions \cup {Undivided}) : splits = divided[x]
        BY <1>3
      <4>2. \A n \in 0..Len(splits), part \in Part : OwedBy(splits, n, part) => OwedBy(Append(splits, d), n, part)
        BY OwedStill
      <4> QED
        BY <1>3, <3>2, <4>1, <4>2
    <3> QED
      BY <1>2, <3>1, <3>2
  <2>2. \A s \in Invoice : Len(invoiced[s]) \in Nat
    <3>1. \A s \in Invoice : invoiced[s] \in Seq(InvoiceRevision)
      BY <1>1 DEF ReconciliationTypeOK
    <3> QED
      BY <3>1
  <2> QED
    BY <2>1, <2>2 DEF Grown
<1>6. GlanceInStep'
  BY <1>1, <1>5, GlanceKept
<1> QED
  BY <1>4, <1>5, <1>6, OthersKeep DEF CardShared

LEMMA LookingKeeps ==
  ASSUME ReconciliationInv, UNCHANGED <<invoiceVars, entries, submitted, grip, finding, reopening>>,
         glance'.at \in {"NONE", "VOIDED", "STALE", "STATEMENT_VOID", "read", "checking", "RECONCILED"}, GlanceInStep'
  PROVE  ReconciliationInv'
<1>1. ReconciliationTypeOK /\ UNCHANGED <<invoiced, divided, dropped, entries, submitted, grip, finding, reopening>>
  BY DEF ReconciliationInv, invoiceVars
<1>2. ReconciliationTypeOK'
  BY <1>1 DEF ReconciliationTypeOK
<1>3. Grown
  BY <1>1, SameGrown
<1> QED
  BY <1>1, <1>2, <1>3, OthersKeep

LEMMA OutcomeKeeps ==
  ASSUME ReconciliationInv, NEW w \in {"NONE", "VOIDED", "STALE", "STATEMENT_VOID"}, Showing([at |-> w])
  PROVE  ReconciliationInv'
<1>1. glance'.at = w /\ UNCHANGED <<invoiceVars, entries, submitted, grip, finding, reopening>>
  BY DEF Showing
<1>2. w \notin {"read", "checking", "RECONCILED"}
  OBVIOUS
<1>3. GlanceInStep'
  BY <1>1, <1>2 DEF GlanceInStep
<1> QED
  BY <1>1, <1>3, LookingKeeps

LEMMA ShowingKeeps ==
  ASSUME ReconciliationInv, NEW v, Showing(v), v.at \in {"read", "checking", "RECONCILED"}, SeenAtItsTime'
  PROVE  ReconciliationInv'
<1>1. glance' = v /\ UNCHANGED <<invoiceVars, entries, submitted, grip, finding, reopening>>
  BY DEF Showing
<1>2. GlanceInStep'
  BY DEF GlanceInStep
<1> QED
  BY <1>1, <1>2, LookingKeeps

LEMMA ReadEntryKeeps ==
  ASSUME ReconciliationInv, NEW s \in Invoice, ReadEntry(s)
  PROVE  ReconciliationInv'
<1> DEFINE last == LastEntry(s)
           seen == [at |-> "read", entry |-> last, since |-> Len(invoiced[s]), of |-> 0, next |-> 1,
                    from |-> [p \in Charge |-> Len(divided[p])]]
<1>1. ReconciliationTypeOK /\ SomeIsLast /\ EntriesAsked
  BY DEF ReconciliationInv, EntriesInStep
<1>2. CASE last.op = "NONE"
  <2>1. Showing([at |-> "NONE"])
    BY <1>2 DEF ReadEntry
  <2> QED
    BY <2>1, OutcomeKeeps
<1>3. CASE last.op = "VOID"
  <2>1. Showing([at |-> "VOIDED"])
    BY <1>3 DEF ReadEntry
  <2> QED
    BY <2>1, OutcomeKeeps
<1>4. CASE last.op \notin {"NONE", "VOID"}
  <2>1. Showing(seen)
    BY <1>4 DEF ReadEntry
  <2>2. last \in entries /\ last.bill = s /\ last \in EntryRow
    BY <1>1, <1>4, LastIs DEF NoEntry, ReconciliationTypeOK
  <2>3. last.parts \in Seq(Part) /\ last.parts # <<>>
    BY <1>1, <1>4, <2>2 DEF EntriesAsked, EntryRow
  <2>4. DOMAIN last.parts = 1..Len(last.parts) /\ Len(last.parts) \in Nat /\ Len(last.parts) >= 1
    BY <2>3
  <2>5. Len(invoiced[s]) \in Nat \ {0}
    <3>1. invoiced[s] \in Seq(InvoiceRevision) /\ invoiced[s] # <<>>
      BY <1>1 DEF ReconciliationTypeOK
    <3> QED
      BY <3>1
  <2>6. \A p \in Charge : Len(divided[p]) \in Nat
    <3>1. \A p \in Charge : divided[p] \in Seq(Divisions \cup {Undivided})
      BY <1>1 DEF ReconciliationTypeOK
    <3> QED
      BY <3>1
  <2>7. PICK v : v = seen
    OBVIOUS
  <2>8. /\ v.at = "read" /\ v.entry = last /\ v.since = Len(invoiced[s]) /\ v.next = 1
        /\ v.from = [p \in Charge |-> Len(divided[p])]
    BY <2>7
  <2>9. v \in Seen
    BY <2>2, <2>5, <2>6, <2>7 DEF Seen
  <2>10. UNCHANGED <<invoiced, divided, entries>> /\ glance' = v /\ Showing(v)
    BY <2>1, <2>7 DEF Showing, invoiceVars
  <2>11. \A p \in Charge : v.from[p] <= Len(divided[p])
    BY <2>6, <2>8
  <2>12. \A k \in DOMAIN last.parts : ~(k < v.next)
    BY <2>4, <2>8
  <2>13. SeenAtItsTime'
    BY <1>4, <2>2, <2>4, <2>5, <2>8, <2>9, <2>10, <2>11, <2>12 DEF SeenAtItsTime
  <2> QED
    BY <2>8, <2>10, <2>13, ShowingKeeps
<1> QED
  BY <1>2, <1>3, <1>4

LEMMA ReadInvoiceKeeps ==
  ASSUME ReconciliationInv, ReadInvoice
  PROVE  ReconciliationInv'
<1> DEFINE e == glance.entry
           seen == [glance EXCEPT !.at = "checking", !.of = Len(invoiced[e.bill])]
<1>1. /\ ReconciliationTypeOK /\ SeenAtItsTime /\ glance.at = "read" /\ glance \in Seen
  BY DEF ReconciliationInv, ReadInvoice, GlanceInStep, SeenAtItsTime
<1>2. CASE LatestInvoice(e.bill).status = "VOID"
  <2>1. Showing([at |-> "STATEMENT_VOID"])
    BY <1>2 DEF ReadInvoice
  <2> QED
    BY <2>1, OutcomeKeeps
<1>3. CASE LatestInvoice(e.bill).status # "VOID" /\ ~SameAmount(e)
  <2>1. Showing([at |-> "STALE"])
    BY <1>3 DEF ReadInvoice
  <2> QED
    BY <2>1, OutcomeKeeps
<1>4. CASE LatestInvoice(e.bill).status # "VOID" /\ SameAmount(e)
  <2>1. Showing(seen)
    BY <1>4 DEF ReadInvoice
  <2>2. e \in entries /\ e.bill \in Invoice /\ glance.since \in Nat \ {0} /\ glance.since <= Len(invoiced[e.bill])
    BY <1>1 DEF SeenAtItsTime, ReconciliationTypeOK, EntryRow, Seen
  <2>3. Len(invoiced[e.bill]) \in Nat
    <3>1. invoiced[e.bill] \in Seq(InvoiceRevision)
      BY <1>1, <2>2 DEF ReconciliationTypeOK
    <3> QED
      BY <3>1
  <2>4. PICK v : v = seen
    OBVIOUS
  <2>5. /\ v.at = "checking" /\ v.entry = e /\ v.since = glance.since /\ v.of = Len(invoiced[e.bill]) /\ v.next = glance.next
        /\ v.from = glance.from
    BY <1>1, <2>4 DEF Seen
  <2>6. v \in Seen
    BY <1>1, <2>3, <2>4 DEF Seen
  <2>7. UNCHANGED <<invoiced, divided, entries>> /\ glance' = v /\ Showing(v)
    BY <2>1, <2>4 DEF Showing, invoiceVars
  <2>8. /\ v.of \in v.since..Len(invoiced[e.bill]) /\ invoiced[e.bill][v.of].status # "VOID"
        /\ invoiced[e.bill][v.of].amount = e.amount
    BY <1>4, <2>2, <2>3, <2>5 DEF LatestInvoice, SameAmount
  <2>9. SeenAtItsTime'
    BY <1>1, <2>5, <2>6, <2>7, <2>8 DEF SeenAtItsTime
  <2> QED
    BY <2>5, <2>7, <2>9, ShowingKeeps
<1> QED
  BY <1>2, <1>3, <1>4

LEMMA ReadPartKeeps ==
  ASSUME ReconciliationInv, ReadPart
  PROVE  ReconciliationInv'
<1> DEFINE e == glance.entry
           parts == e.parts
           i == glance.next
           seen == IF i = Len(parts) THEN [glance EXCEPT !.at = "RECONCILED"] ELSE [glance EXCEPT !.next = i + 1]
<1>1. /\ ReconciliationTypeOK /\ SeenAtItsTime /\ glance.at = "checking" /\ glance \in Seen
  BY DEF ReconciliationInv, ReadPart, GlanceInStep, SeenAtItsTime
<1>2. CASE ~Evidenced(parts[i])
  <2>1. Showing([at |-> "STALE"])
    BY <1>2 DEF ReadPart
  <2> QED
    BY <2>1, OutcomeKeeps
<1>3. CASE Evidenced(parts[i])
  <2>1. Showing(seen)
    BY <1>3 DEF ReadPart
  <2>2. e \in entries /\ parts \in Seq(Part) /\ i \in Nat \ {0} /\ i <= Len(parts) /\ glance.from \in [Charge -> Nat]
    BY <1>1 DEF SeenAtItsTime, ReconciliationTypeOK, EntryRow, Seen
  <2>3. Len(parts) \in Nat /\ DOMAIN parts = 1..Len(parts) /\ i \in DOMAIN parts
    BY <2>2
  <2>4. PICK v : v = seen
    OBVIOUS
  <2>5. /\ v.entry = e /\ v.since = glance.since /\ v.of = glance.of /\ v.from = glance.from
        /\ IF i = Len(parts) THEN v.at = "RECONCILED" /\ v.next = i ELSE v.at = "checking" /\ v.next = i + 1
    BY <1>1, <2>4 DEF Seen
  <2>6. v \in Seen
    BY <1>1, <2>2, <2>4 DEF Seen
  <2>7. UNCHANGED <<invoiced, divided, entries>> /\ glance' = v /\ Showing(v)
    BY <2>1, <2>4 DEF Showing, invoiceVars
  <2>8. v.next <= Len(parts) /\ \A k \in DOMAIN parts : k < v.next \/ v.at = "RECONCILED" => k < i \/ k = i
    BY <2>2, <2>3, <2>5
  <2>9. ASSUME NEW k \in DOMAIN parts, k < v.next \/ v.at = "RECONCILED", parts[k].charge # Nowhere
        PROVE  \E n \in v.from[parts[k].charge]..Len(divided[parts[k].charge]) : OwedBy(divided[parts[k].charge], n, parts[k])
    <3>1. CASE k < i
      BY <1>1, <2>5, <2>9, <3>1 DEF SeenAtItsTime
    <3>2. CASE k = i
      <4>1. parts[i].charge \in Charge
        BY <2>2, <2>3, <2>9, <3>2, PartTyped
      <4>2. OwedBy(divided[parts[i].charge], Len(divided[parts[i].charge]), parts[i])
        BY <1>3, <2>9, <3>2 DEF Evidenced, Consistent
      <4>3. Len(divided[parts[i].charge]) \in Nat
        <5>1. divided[parts[i].charge] \in Seq(Divisions \cup {Undivided})
          BY <1>1, <4>1 DEF ReconciliationTypeOK
        <5>2. PICK splits \in Seq(Divisions \cup {Undivided}) : splits = divided[parts[i].charge]
          BY <5>1
        <5>3. Len(splits) \in Nat
          OBVIOUS
        <5> QED
          BY <5>2, <5>3
      <4>4. Len(divided[parts[i].charge]) \in v.from[parts[i].charge]..Len(divided[parts[i].charge])
        BY <1>1, <2>2, <2>5, <4>1, <4>3 DEF SeenAtItsTime
      <4> QED
        BY <3>2, <4>2, <4>4
    <3> QED
      BY <2>8, <2>9, <3>1, <3>2
  <2>10. SeenAtItsTime'
    BY <1>1, <2>5, <2>6, <2>7, <2>8, <2>9 DEF SeenAtItsTime
  <2> QED
    BY <2>5, <2>7, <2>10, ShowingKeeps
<1> QED
  BY <1>2, <1>3

-----------------------------------------------------------------------------
(* The theorems.                                                           *)

LEMMA ReconciliationBegins == ReconciliationInit => ReconciliationInv
<1> SUFFICES ASSUME ReconciliationInit PROVE ReconciliationInv
  OBVIOUS
<1>1. /\ invoiced \in [Invoice -> {<<[status |-> "OPEN", amount |-> n]>> : n \in InvoiceAmounts}]
      /\ divided = [p \in Charge |-> <<>>] /\ dropped = {} /\ entries = {}
      /\ submitted = [c \in Reconciler |-> NoSubmission] /\ grip = [c \in Reconciler |-> NoGrip]
      /\ finding = [c \in Reconciler |-> NoFinding] /\ reopening = Nowhere /\ glance.at = "idle"
  BY DEF ReconciliationInit, NoGlance
<1>2. NoGrip \in [at : {"nothing"}, of : Nat, no : Nat]
  BY DEF NoGrip
<1>3. ReconciliationTypeOK
  <2>1. \A n \in InvoiceAmounts : <<[status |-> "OPEN", amount |-> n]>> \in Seq(InvoiceRevision) \ {<<>>}
    BY ReconciliationAssumption DEF InvoiceRevision
  <2> DEFINE First == {<<[status |-> "OPEN", amount |-> n]>> : n \in InvoiceAmounts}
  <2>2. invoiced \in [Invoice -> Seq(InvoiceRevision) \ {<<>>}]
    <3>1. First \subseteq Seq(InvoiceRevision) \ {<<>>}
      BY <2>1
    <3>2. invoiced \in [Invoice -> First]
      BY <1>1
    <3> HIDE DEF First
    <3> QED
      BY <3>1, <3>2
  <2>3. divided \in [Charge -> Seq(Divisions \cup {Undivided})]
    BY <1>1
  <2>4. grip \in [Reconciler -> [at : {"nothing", "locked", "read", "written"}, of : Nat, no : Nat]]
    BY <1>1, <1>2
  <2>5. finding \in [Reconciler -> Findings \cup {NoFinding}]
    BY <1>1
  <2> QED
    BY <1>1, <2>2, <2>3, <2>4, <2>5 DEF ReconciliationTypeOK
<1>4. EntriesInStep
  BY <1>1 DEF EntriesInStep, ChainsWhole, EntriesAddUp, EvidenceReal, EntriesAsked, SomeIsLast, EntriesOf, OneRowPerKey
<1>5. Told
  BY <1>1, ReconciliationAssumption DEF Told, Findings
<1>6. \A c \in Reconciler : grip[c].at = "nothing"
  BY <1>1, <1>2
<1>7. GripsInStep
  BY <1>6 DEF GripsInStep, HeldApart, GripStands
<1>8. GlanceInStep
  BY <1>1 DEF GlanceInStep
<1> QED
  BY <1>3, <1>4, <1>5, <1>7, <1>8 DEF ReconciliationInv

LEMMA LockoutKeeps ==
  ASSUME ReconciliationInv, NEW c \in Reconciler, EndLockout(c)
  PROVE  ReconciliationInv'
<1>1. CASE EndWith(c, "aborted")
  BY <1>1, EndKeeps DEF Findings
<1>2. CASE reopening' = Nowhere /\ UNCHANGED <<invoiceVars, entries, submitted, grip, finding, glance>>
  BY <1>2, CardHoldKeeps
<1> QED
  BY <1>1, <1>2 DEF EndLockout

LEMMA ReconciliationKeeps ==
  ASSUME ReconciliationInv, [ReconciliationNext]_reconciliationVars
  PROVE  ReconciliationInv'
<1>1. ASSUME NEW c \in Reconciler, ReconcilerStep(c) PROVE ReconciliationInv'
  BY <1>1, BeginKeeps, ReadKeeps, WriteKeeps, CommitKeeps, VoidEntryKeeps, LockoutKeeps DEF ReconcilerStep
<1>2. ASSUME NEW c \in Reconciler, NEW q \in Submissions[c], LookKeyUp(c, q) PROVE ReconciliationInv'
  BY <1>2, LookKeyUpKeeps
<1>3. ASSUME NEW s \in Invoice, ChangeInvoice(s) PROVE ReconciliationInv'
  BY <1>3, ChangeInvoiceKeeps
<1>4. ASSUME NEW s \in Invoice, BeginReopen(s) PROVE ReconciliationInv'
  BY <1>4, CardHoldKeeps DEF BeginReopen
<1>5. ASSUME NEW s \in Invoice, ReadEntry(s) PROVE ReconciliationInv'
  BY <1>5, ReadEntryKeeps
<1>6. ASSUME NEW p \in Charge, Drop(p) PROVE ReconciliationInv'
  <2>1. Undivided \in Divisions \cup {Undivided} /\ dropped \cup {p} \subseteq Charge
    BY DEF ReconciliationInv, ReconciliationTypeOK
  <2> QED
    BY <1>6, <2>1, SplitKeeps DEF Drop, CardFree
<1>7. ASSUME NEW p \in Charge, NEW d \in Divisions \cup {Undivided}, Divide(p, d) PROVE ReconciliationInv'
  <2>1. dropped \subseteq Charge
    BY DEF ReconciliationInv, ReconciliationTypeOK
  <2> QED
    BY <1>7, <2>1, SplitKeeps DEF Divide, CardFree
<1>8. ASSUME UNCHANGED reconciliationVars PROVE ReconciliationInv'
  <2>1. UNCHANGED <<invoiceVars, entries, submitted, grip, finding, reopening, glance>>
    BY <1>8 DEF reconciliationVars
  <2>2. reopening' \in Invoice \cup {Nowhere}
    BY <2>1 DEF ReconciliationInv, ReconciliationTypeOK
  <2> QED
    BY <2>1, <2>2, CardHoldKeeps
<1> QED
  BY <1>1, <1>2, <1>3, <1>4, <1>5, <1>6, <1>7, <1>8, EndReopenKeeps, ReadInvoiceKeeps, ReadPartKeeps DEF ReconciliationNext

LEMMA ReconciliationSafe == ReconciliationSpec => []ReconciliationInv
<1>1. ReconciliationInv /\ [ReconciliationNext]_reconciliationVars => ReconciliationInv'
  BY ReconciliationKeeps
<1> QED
  BY <1>1, ReconciliationBegins, PTL DEF ReconciliationSpec

\* For any requests, statements, purchases and splits, the variables keep
\* their types.
THEOREM ReconciliationTyped == ReconciliationSpec => []ReconciliationTypeOK
<1>1. ReconciliationInv => ReconciliationTypeOK
  BY DEF ReconciliationInv
<1> QED
  BY <1>1, ReconciliationSafe, PTL

\* For any requests, statements, purchases and splits, the revisions of the
\* reconciliations stay in step with their numbers, the statements, the
\* evidence and the keys, though a void of voidStatementReconciliation takes
\* none of the locks of reconcileStatement but the chain's.
THEOREM ReconciliationsStayInStep == ReconciliationSpec => []ReconciliationsInStep
<1>1. ReconciliationInv => ReconciliationsInStep
  <2> SUFFICES ASSUME ReconciliationInv PROVE ReconciliationsInStep
    OBVIOUS
  <2>1. ReadStands
    <3> SUFFICES ASSUME NEW c \in Reconciler, grip[c].at # "nothing"
                 PROVE  /\ grip[c].of = Len(invoiced[submitted[c].bill])
                        /\ grip[c].at # "locked" =>
                              \/ LastEntry(submitted[c].bill).no = grip[c].no
                              \/ grip[c].at = "read" /\ LastEntry(submitted[c].bill).op = "VOID"
                        /\ grip[c].at = "written" /\ grip[c].no = 0 => AllEvidenced(submitted[c].parts)
      BY DEF ReadStands
    <3>1. GripStands(c) /\ grip[c].at \in {"nothing", "locked", "read", "written"}
      BY DEF ReconciliationInv, GripsInStep, ReconciliationTypeOK
    <3> QED
      BY <3>1 DEF GripStands, BillStands, ChainStands, WritingStands
  <2>2. OneEntryPerKey
    BY DEF ReconciliationInv, EntriesInStep, OneRowPerKey, Told, OneEntryPerKey
  <2> QED
    BY <2>1, <2>2 DEF ReconciliationInv, EntriesInStep, ReconciliationsInStep
<1> QED
  BY <1>1, ReconciliationSafe, PTL

\* For any requests, statements, purchases and splits, what
\* getStatementReconciliation calls reconciled makes up the statement as it
\* was while it was read, and each part was owed as it says while it was read.
THEOREM ReadsInTheirTime == ReconciliationSpec => []ReadInItsTime
<1>1. ReconciliationInv => ReadInItsTime
  <2> SUFFICES ASSUME ReconciliationInv, glance.at = "RECONCILED" PROVE ReadInItsTime
    BY DEF ReadInItsTime
  <2>1. SeenAtItsTime /\ EntriesAddUp
    BY DEF ReconciliationInv, GlanceInStep, EntriesInStep
  <2>2. PartsTotal(glance.entry.parts) = glance.entry.amount
    BY <2>1 DEF SeenAtItsTime, EntriesAddUp
  <2> QED
    BY <2>1, <2>2 DEF SeenAtItsTime, ReadInItsTime
<1> QED
  BY <1>1, ReconciliationSafe, PTL
=============================================================================
