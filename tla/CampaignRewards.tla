---------------------------- MODULE CampaignRewards ----------------------------
(***************************************************************************)
(* A period of a card campaign of src/campaigns: the chain of its          *)
(* revisions, the user's rulings on which purchases count, the credit of   *)
(* its reward, and the proposals to change its terms.                      *)
(*                                                                         *)
(* A request looks its idempotency key up first, without a lock.  What it  *)
(* reads then may be out of date when it writes: the trigger of the chain  *)
(* locks the period's row and compares; a credit locks the period and its  *)
(* cards before it computes the progress; a ruling locks its own row only, *)
(* so that a credit may be computed from rulings that change before it is  *)
(* stored.  The rest of a request is one step: between its last read and   *)
(* its commit it reads nothing that anybody else may change.               *)
(***************************************************************************)
EXTENDS Integers, FiniteSets, FiniteSetsExt, Functions, Sequences

CONSTANTS
    Campaigner,   \* the requests the user's clients send
    Bought,       \* purchases
    BoughtWith,   \* the card of each
    Prices,       \* what each may amount to; 0 when it is void
    FirstPrice,   \* what it amounts to at first
    Calls,        \* what each request may ask for
    Starts,       \* what the chain may be at first
    NoVerdict     \* no answer yet

\* A request to revise the period, and what may become of a purchase.
Revising == {"CREATE", "CONFIRM", "AMEND", "HIDE", "RESTORE", "END", "CANCEL"}
RulingKinds == {"INCLUDE", "EXCLUDE", "CLEAR"}
Lives == {"REVIEW_REQUIRED", "ACTIVE", "ENDED", "CANCELLED"}
ASSUME CampaignAssumption ==
    /\ NoVerdict \notin Campaigner \cup {"stored", "replayed", "conflict", "refused"}
    /\ \A c \in Campaigner : \A q \in Calls[c] :
          /\ q.op \in Revising \cup {"RULE", "CREDIT", "VOID", "PROPOSE", "APPLY", "DISMISS"}
          /\ q.op \in Revising \cup {"APPLY"} => q.expected \in Nat
          /\ q.op = "RULE" => q.purchase \in Bought /\ q.ruling \in RulingKinds
          /\ q.op = "CREDIT" => q.points \in Nat
          /\ q.op \in {"APPLY", "DISMISS"} => q.proposal \in Campaigner
    /\ DOMAIN FirstPrice = Bought /\ \A p \in Bought : FirstPrice[p] \in Prices[p]
    /\ \A s \in Starts :
          s \in Seq([by : {NoVerdict}, life : Lives, visible : BOOLEAN, terms : {s[n].terms : n \in DOMAIN s}])

VARIABLES
    periodChain,     \* the revisions of the period
    price,     \* what each purchase amounts to
    rulings,   \* the revisions of the ruling on each
    credited,  \* the credits that stand, each named by the request that made it
    earned,    \* the balance of the reward account
    redeemed,  \* what was spent of it
    proposal,  \* the proposals: their status, and the revision they became
    boundTo,   \* the proposal each request is answered with
    call,      \* what each request asks for, once it looked its key up
    sight,     \* what it read and goes on with
    fate       \* its answer

campaignVars == <<periodChain, price, rulings, credited, earned, redeemed,
                  proposal, boundTo, call, sight, fate>>
bookVars == <<periodChain, rulings, credited, earned, proposal, boundTo>>
shopVars == <<price, redeemed>>

NoCall == [op |-> "none"]
NoSight == [of |-> "nothing"]
NotApplied(s) == [status |-> s, became |-> 0]
Unproposed == NotApplied("none")
CampaignTypeOK ==
    /\ \A n \in DOMAIN periodChain : periodChain[n].life \in Lives
    /\ DOMAIN price = Bought /\ \A p \in Bought : price[p] \in Prices[p]
    /\ rulings \in [Bought -> Seq(RulingKinds)]
    /\ credited \subseteq Campaigner /\ earned \in Nat /\ redeemed \in Nat
    /\ proposal \in [Campaigner -> [status : {"none", "PENDING", "APPLIED", "DISMISSED"}, became : Nat]]
    /\ boundTo \in [Campaigner -> Campaigner \cup {NoVerdict}]
    /\ DOMAIN call = Campaigner /\ \A c \in Campaigner : call[c] \in Calls[c] \cup {NoCall}
    /\ DOMAIN sight = Campaigner /\ \A c \in Campaigner : sight[c].of \in {"nothing", "progress", "credit"}
    /\ fate \in [Campaigner -> {"stored", "replayed", "conflict", "refused", NoVerdict}]

CampaignInit ==
    /\ periodChain \in Starts
    /\ price = FirstPrice /\ rulings = [p \in Bought |-> <<>>]
    /\ credited = {} /\ earned = 0 /\ redeemed = 0
    /\ proposal = [c \in Campaigner |-> Unproposed]
    /\ boundTo = [c \in Campaigner |-> NoVerdict]
    /\ call = [c \in Campaigner |-> NoCall]
    /\ sight = [c \in Campaigner |-> NoSight]
    /\ fate = [c \in Campaigner |-> NoVerdict]

-----------------------------------------------------------------------------
(* Keys.                                                                   *)

\* Each table has its own unique index of the keys.
TableFor(op) == CASE op \in Revising -> "revisions"
               [] op = "RULE" -> "rulings"
               [] op \in {"CREDIT", "VOID"} -> "credits"
               [] OTHER -> "receipts"
EarlierCalls(q) == {c \in Campaigner : /\ fate[c] = "stored" /\ call[c].key = q.key
                                  /\ TableFor(call[c].op) = TableFor(q.op)}
SameAsked(q) == {c \in EarlierCalls(q) : call[c] = q}
\* The answer of a request whose key is there.
ReplayCall(c, q) ==
    /\ fate' = [fate EXCEPT ![c] = IF SameAsked(q) # {} THEN "replayed" ELSE "conflict"]
    /\ boundTo' = [boundTo EXCEPT ![c] = IF SameAsked(q) # {} THEN boundTo[CHOOSE d \in SameAsked(q) : TRUE]
                                         ELSE NoVerdict]
    /\ UNCHANGED <<periodChain, rulings, credited, earned, proposal>>
Answer(c, v) == fate' = [fate EXCEPT ![c] = v]

\* The early lookup of every request but those about a proposal.
LookUp(c, q) ==
    /\ call[c] = NoCall /\ q.op \notin {"APPLY", "DISMISS"}
    /\ call' = [call EXCEPT ![c] = q]
    /\ IF EarlierCalls(q) # {} THEN ReplayCall(c, q) ELSE UNCHANGED <<fate, bookVars>>
    /\ UNCHANGED <<shopVars, sight>>

Pursues(c, op) == call[c].op = op /\ fate[c] = NoVerdict
\* A request that wrote its rows, unless the index finds its key taken.
StoreUnder(c, allowed, effect) ==
    /\ Answer(c, IF ~allowed THEN "refused" ELSE IF EarlierCalls(call[c]) # {} THEN "conflict" ELSE "stored")
    /\ IF allowed /\ EarlierCalls(call[c]) = {} THEN effect ELSE UNCHANGED bookVars
    /\ sight' = [sight EXCEPT ![c] = NoSight]
    /\ UNCHANGED <<shopVars, call>>

-----------------------------------------------------------------------------
(* The chain of the period.                                                *)

LastRevision == periodChain[Len(periodChain)]
PeriodFree == FALSE
\* A credit holds the period's row from its reading to its commit.
PeriodHeld == \E c \in Campaigner : sight[c].of = "progress"

Allowed(op, r) ==
    /\ r.life # "CANCELLED"
    /\ op = "CONFIRM" => r.life = "REVIEW_REQUIRED"
    /\ op \in {"AMEND", "END"} => r.life = "ACTIVE"
    /\ op = "CANCEL" => r.life # "ENDED"
    /\ op = "HIDE" => r.visible
    /\ op = "RESTORE" => ~r.visible
LifeAfter(op, life) ==
    CASE op = "CONFIRM" -> "ACTIVE" [] op = "END" -> "ENDED" [] op = "CANCEL" -> "CANCELLED" [] OTHER -> life
Successor(c, op, terms, r) ==
    [by |-> c, life |-> LifeAfter(op, r.life), terms |-> terms,
     visible |-> IF op \in {"HIDE", "RESTORE"} THEN op = "RESTORE" ELSE r.visible]

MayFollowAny(expected, op) == op # "CREATE" /\ Len(periodChain) >= expected /\ Allowed(op, periodChain[expected])
\* The revision that was read is still the last one: the code compares its
\* number with the expected one, and the trigger, which has the lock, its id.
MayFollow(expected, op) ==
    /\ Len(periodChain) = expected
    /\ IF op = "CREATE" THEN expected = 0 ELSE expected > 0 /\ Allowed(op, periodChain[expected])

StoreRevision(c) ==
    LET q == call[c]
    IN  /\ q.op \in Revising /\ fate[c] = NoVerdict /\ ~PeriodHeld
        /\ StoreUnder(c, MayFollow(q.expected, q.op),
                 /\ periodChain' = Append(periodChain,
                       IF q.op = "CREATE"
                       THEN [by |-> c, life |-> "REVIEW_REQUIRED", visible |-> TRUE, terms |-> q.terms]
                       ELSE Successor(c, q.op, IF q.op = "AMEND" THEN q.terms ELSE periodChain[q.expected].terms,
                                      periodChain[q.expected]))
                 /\ UNCHANGED <<rulings, credited, earned, proposal, boundTo>>)

-----------------------------------------------------------------------------
(* Rulings and progress.                                                   *)

\* recordCampaignPurchaseOverride, under the row of its purchase alone.
Rule(c) ==
    LET q == call[c]
    IN  /\ Pursues(c, "RULE")
        /\ StoreUnder(c, /\ Len(rulings[q.purchase]) = q.expected
                    /\ periodChain # <<>>
                    /\ q.expected = 0 => BoughtWith[q.purchase] \in LastRevision.terms.cards,
                 /\ rulings' = [rulings EXCEPT ![q.purchase] = Append(@, q.ruling)]
                 /\ UNCHANGED <<periodChain, credited, earned, proposal, boundTo>>)

\* computeRuleProgress: the purchases of the cards that count, and what they
\* come to.
RulingOn(said, p) == IF said[p] = <<>> THEN "CLEAR" ELSE said[p][Len(said[p])]
Counts(terms, prices, said) ==
    {p \in Bought : /\ BoughtWith[p] \in terms.cards /\ prices[p] > 0
                    /\ \/ RulingOn(said, p) = "INCLUDE"
                       \/ RulingOn(said, p) = "CLEAR" /\ prices[p] >= terms.least}
Achieved(terms, prices, said) ==
    LET counted == Counts(terms, prices, said)
        spend   == MapThenSumSet(LAMBDA p : prices[p], counted)
    IN  IF terms.mode = "REPEATABLE_SPEND" THEN Min({spend \div terms.target, terms.most})
        ELSE IF (IF terms.mode = "TRANSACTION_COUNT" THEN Cardinality(counted) ELSE spend) >= terms.target THEN 1
        ELSE 0
Reward(terms, steps) == steps * terms.points

-----------------------------------------------------------------------------
(* The reward.                                                             *)

CardIgnored(card) == FALSE
CardHeld(card) == \E c \in Campaigner : sight[c].of = "progress" /\ card \in sight[c].terms.cards

AnyNumber == TRUE
\* A second credit is refused by the progress, by the code and by a trigger.
Uncredited == credited = {}

\* confirmCampaignRewardCredited locks the period and its cards, and reads the
\* rulings and the purchases.
ReadProgress(c) ==
    /\ Pursues(c, "CREDIT") /\ sight[c] = NoSight /\ ~PeriodHeld
    /\ IF periodChain # <<>> /\ LastRevision.life \in {"ACTIVE", "ENDED"} /\ Uncredited
       THEN /\ sight' = [sight EXCEPT ![c] = [of |-> "progress", revision |-> Len(periodChain),
                                              terms |-> LastRevision.terms, prices |-> price, said |-> rulings]]
            /\ UNCHANGED fate
       ELSE Answer(c, "refused") /\ UNCHANGED sight
    /\ UNCHANGED <<bookVars, shopVars, call>>

StoreCredit(c) ==
    LET q == call[c]
        s == sight[c]
        steps == Achieved(s.terms, s.prices, s.said)
    IN  /\ Pursues(c, "CREDIT") /\ s.of = "progress"
        /\ StoreUnder(c, steps > 0 /\ Uncredited /\ (q.points = Reward(s.terms, steps) \/ q.reason),
                 /\ credited' = credited \cup {c} /\ earned' = earned + q.points
                 /\ UNCHANGED <<periodChain, rulings, proposal, boundTo>>)

\* voidCampaignRewardCredit: the credit that stands is found without a lock,
\* its points are taken back under the account's row, and the trigger of the
\* credit's chain refuses what was voided since.
FindCredit(c) ==
    /\ Pursues(c, "VOID") /\ sight[c] = NoSight
    /\ IF credited = {} THEN Answer(c, "refused") /\ UNCHANGED sight
       ELSE /\ sight' = [sight EXCEPT ![c] = [of |-> "credit", credit |-> CHOOSE d \in credited : TRUE]]
            /\ UNCHANGED fate
    /\ UNCHANGED <<bookVars, shopVars, call>>
RevocableOnce(d) == earned >= call[d].points
Revocable(d) == d \in credited /\ earned >= call[d].points
VoidCredit(c) ==
    LET d == sight[c].credit
    IN  /\ Pursues(c, "VOID") /\ sight[c].of = "credit"
        /\ StoreUnder(c, Revocable(d),
                 /\ credited' = credited \ {d} /\ earned' = earned - call[d].points
                 /\ UNCHANGED <<periodChain, rulings, proposal, boundTo>>)

-----------------------------------------------------------------------------
(* Proposals.                                                              *)

TermsOf(x) == call[x].terms
NonePending(q) == {}
\* The semantic hash of a proposal is that of its terms.
PendingAlike(q) == {x \in Campaigner : proposal[x].status = "PENDING" /\ TermsOf(x) = q.terms}

Unbound(c, x) == IF x = c THEN c ELSE NoVerdict
BoundAs(c, x) == x
\* createCampaignReviewCandidate, under the period's row: a proposal with the
\* same terms that is pending is the answer, and the receipt says so.
Propose(c) ==
    LET q == call[c]
        alike == PendingAlike(q)
        x == IF alike = {} THEN c ELSE CHOOSE d \in alike : TRUE
    IN  /\ Pursues(c, "PROPOSE") /\ ~PeriodHeld
        /\ IF EarlierCalls(q) # {} THEN ReplayCall(c, q) /\ UNCHANGED <<shopVars, call, sight>>
           ELSE StoreUnder(c, periodChain # <<>> /\ LastRevision.life = "ACTIVE",
                      /\ boundTo' = [boundTo EXCEPT ![c] = BoundAs(c, x)]
                      /\ proposal' = IF x = c THEN [proposal EXCEPT ![c] = NotApplied("PENDING")] ELSE proposal
                      /\ UNCHANGED <<periodChain, rulings, credited, earned>>)

\* Applying locks the proposal from its first statement to its commit.
ProposalHeld(x) == \E c \in Campaigner : Pursues(c, "APPLY") /\ call[c].proposal = x
TakeProposal(c, q) ==
    /\ call[c] = NoCall /\ proposal[q.proposal] # Unproposed /\ ~ProposalHeld(q.proposal)
    /\ call' = [call EXCEPT ![c] = q]
    /\ UNCHANGED <<shopVars, sight>>
Unchecked(x) == TRUE
StillPending(x) == proposal[x].status = "PENDING"
BeginApply(c, q) ==
    /\ q.op = "APPLY" /\ TakeProposal(c, q)
    /\ IF EarlierCalls(q) # {} THEN ReplayCall(c, q)
       ELSE /\ Answer(c, IF StillPending(q.proposal) THEN NoVerdict ELSE "refused")
            /\ UNCHANGED bookVars

\* The amendment and the proposal's revision are one transaction.
Apply(c) ==
    LET q == call[c]
        x == q.proposal
    IN  /\ Pursues(c, "APPLY") /\ ~PeriodHeld
        /\ StoreUnder(c, MayFollow(q.expected, "AMEND"),
                 /\ periodChain' = Append(periodChain, Successor(c, "AMEND", TermsOf(x), periodChain[q.expected]))
                 /\ proposal' = [proposal EXCEPT ![x] = [status |-> "APPLIED", became |-> Len(periodChain) + 1]]
                 /\ boundTo' = [boundTo EXCEPT ![c] = x]
                 /\ UNCHANGED <<rulings, credited, earned>>)

Dismiss(c, q) ==
    /\ q.op = "DISMISS" /\ TakeProposal(c, q)
    /\ IF EarlierCalls(q) # {} THEN ReplayCall(c, q)
       ELSE IF StillPending(q.proposal)
       THEN /\ Answer(c, "stored")
            /\ proposal' = [proposal EXCEPT ![q.proposal] = NotApplied("DISMISSED")]
            /\ boundTo' = [boundTo EXCEPT ![c] = q.proposal]
            /\ UNCHANGED <<periodChain, rulings, credited, earned>>
       ELSE Answer(c, "refused") /\ UNCHANGED bookVars

-----------------------------------------------------------------------------
(* What else happens to the purchases and to the points.                   *)

\* Purchases are amended, and voided for good, under their card's row.
Reprice(p, n) ==
    /\ ~CardHeld(BoughtWith[p]) /\ price[p] \notin {0, n}
    /\ price' = [price EXCEPT ![p] = n]
    /\ UNCHANGED <<bookVars, redeemed, call, sight, fate>>

\* Points are spent one at a time, while there are any.
Redeem ==
    /\ earned > 0 /\ earned' = earned - 1 /\ redeemed' = redeemed + 1
    /\ UNCHANGED <<periodChain, rulings, credited, proposal, boundTo, price, call, sight, fate>>

CampaignNext ==
    \/ \E c \in Campaigner :
          \/ \E q \in Calls[c] : LookUp(c, q) \/ BeginApply(c, q) \/ Dismiss(c, q)
          \/ StoreRevision(c) \/ Rule(c) \/ ReadProgress(c) \/ StoreCredit(c)
          \/ FindCredit(c) \/ VoidCredit(c) \/ Propose(c) \/ Apply(c)
    \/ \E p \in Bought : \E n \in Prices[p] : Reprice(p, n)
    \/ Redeem
CampaignSpec == CampaignInit /\ [][CampaignNext]_campaignVars

-----------------------------------------------------------------------------
(* Properties.                                                             *)

\* A period is credited once at a time, and the account holds what the
\* credits that stand gave it, less what was spent: a credit whose points are
\* gone cannot be voided, and none is voided twice.
CreditedOnce ==
    /\ Cardinality(credited) <= 1
    /\ earned = SumFunctionOnSet([c \in credited |-> call[c].points], credited) - redeemed

\* What a credit is about to be stored on still stands: the revision it read
\* is the last one, and the purchases of its cards are as it counted them.
\* Of the rulings this is not so: nothing keeps one from changing in between.
ProgressStands ==
    \A c \in Campaigner : sight[c].of = "progress" =>
        /\ sight[c].revision = Len(periodChain)
        /\ \A p \in Bought : BoughtWith[p] \in sight[c].terms.cards => sight[c].prices[p] = price[p]

\* Every revision of the period was made by somebody who had seen the one
\* before it.
RevisedKnowingly ==
    \A n \in 1..Len(periodChain) : periodChain[n].by # NoVerdict => call[periodChain[n].by].expected = n - 1

\* Of the proposals that are pending no two are alike.
OnePendingAlike ==
    \A x, y \in Campaigner : proposal[x].status = "PENDING" /\ proposal[y].status = "PENDING"
                             /\ TermsOf(x) = TermsOf(y) => x = y

\* A proposal that was applied is one revision with the terms that were
\* reviewed, and no other proposal became it; one that was not changed nothing.
AppliedAsReviewed ==
    /\ \A x \in Campaigner :
          IF proposal[x].status = "APPLIED"
          THEN /\ proposal[x].became \in 1..Len(periodChain)
               /\ periodChain[proposal[x].became].terms = TermsOf(x)
               /\ \A y \in Campaigner : proposal[y].became = proposal[x].became => y = x
          ELSE proposal[x].became = 0
    /\ \A n \in 1..Len(periodChain) : periodChain[n].by # NoVerdict /\ call[periodChain[n].by].op = "APPLY" =>
          \E x \in Campaigner : proposal[x].became = n

\* Requests with one key are one: one row was written for them, and the
\* retries about a proposal are answered with the proposal of the first.
OneAnswerPerKey ==
    \A c, d \in Campaigner :
        /\ fate[c] = "stored" /\ call[d] # NoCall /\ d \in EarlierCalls(call[c]) => c = d
        /\ fate[c] = "stored" /\ fate[d] = "replayed" /\ call[c] = call[d] => boundTo[c] = boundTo[d]
        /\ fate[c] = "stored" /\ TableFor(call[c].op) = "receipts" =>
              boundTo[c] # NoVerdict /\ proposal[boundTo[c]] # Unproposed

\* Credits, revisions, proposals and keys stay in step.
CampaignsInStep ==
    /\ CreditedOnce /\ ProgressStands /\ RevisedKnowingly
    /\ OnePendingAlike /\ AppliedAsReviewed /\ OneAnswerPerKey
=============================================================================
