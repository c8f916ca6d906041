----------------------------- MODULE RewardPoints -----------------------------
(***************************************************************************)
(* The reward accounts of src/rewards.  Points come and go by events, and  *)
(* a balance is what the events that are not void add up to.  A purchase   *)
(* paid with points is also an expense of the ledger, which the benefit    *)
(* account balances.                                                       *)
(*                                                                         *)
(* A mutation looks its idempotency key up, among the rows of its account  *)
(* or of the event it voids, and again when it holds the account's row;    *)
(* after the first lookup it is one step.  The keys are unique among all   *)
(* event rows of the user, which only the index tells two accounts.        *)
(***************************************************************************)
EXTENDS Integers, FiniteSets, Functions

CONSTANTS
    Shopper,        \* the requests the user's clients send
    RewardAccount,  \* the reward accounts
    Wishes,         \* what each request may ask for
    Undecided       \* no reaction yet

ASSUME RewardAssumption ==
    /\ IsFiniteSet(Shopper) /\ Undecided \notin {"stored", "replayed", "conflict", "refused"}
    /\ \A c \in Shopper : \A q \in Wishes[c] :
          /\ q.op \in {"OPENING_BALANCE", "MANUAL_EARN", "EXPIRE", "REDEEM_PURCHASE", "VOID", "ARCHIVE"}
          /\ q.op \notin {"VOID", "ARCHIVE"} => q.points \in Nat
          /\ q.op = "ARCHIVE" => q.account \in RewardAccount

VARIABLES
    unvoided,       \* the events that stand, each named by the request that created it
    retired,        \* the archived accounts
    benefit,        \* what the benefit account is credited with, in points
    wish,           \* what each request asks for, once it looked its key up
    reaction        \* its answer

rewardVars == <<unvoided, retired, benefit, wish, reaction>>
pointVars == <<unvoided, retired, benefit>>

NoWish == [op |-> "none"]
RewardTypeOK ==
    /\ unvoided \subseteq Shopper /\ retired \subseteq RewardAccount /\ benefit \in Nat
    /\ DOMAIN wish = Shopper /\ \A c \in Shopper : wish[c] \in Wishes[c] \cup {NoWish}
    /\ reaction \in [Shopper -> {"stored", "replayed", "conflict", "refused", Undecided}]

RewardInit ==
    /\ unvoided = {} /\ retired = {} /\ benefit = 0
    /\ wish = [c \in Shopper |-> NoWish]
    /\ reaction = [c \in Shopper |-> Undecided]

-----------------------------------------------------------------------------
Creations == {"OPENING_BALANCE", "MANUAL_EARN", "EXPIRE", "REDEEM_PURCHASE"}
Positive == {"OPENING_BALANCE", "MANUAL_EARN"}

\* The requests that wrote a row of the accounts, or of the events, and what
\* a row is about.
Rows(accounts) == {c \in Shopper : reaction[c] = "stored" /\ (wish[c].op = "ARCHIVE") = accounts}
Events == {c \in Rows(FALSE) : wish[c].op \in Creations}
EventOf(c) == IF wish[c].op = "VOID" THEN wish[c].event ELSE c
AccountOf(q) == IF q.op = "VOID" THEN wish[q.event].account ELSE q.account
ClashingInAccount(q) == {c \in Rows(q.op = "ARCHIVE") : wish[c].key = q.key /\ AccountOf(wish[c]) = AccountOf(q)}
Clashing(q) == {c \in Rows(q.op = "ARCHIVE") : wish[c].key = q.key}
EarlierRows(q) == {c \in Clashing(q) : IF q.op = "VOID" THEN EventOf(c) = q.event
                                       ELSE AccountOf(wish[c]) = q.account}
\* tryReplay: the same request again, or another use of its key.
Recalled(q) == IF \E c \in EarlierRows(q) : wish[c] = q THEN "replayed" ELSE "conflict"

FindEvent(c, q) ==
    /\ wish[c] = NoWish /\ (q.op = "VOID" => q.event \in Events)
    /\ wish' = [wish EXCEPT ![c] = q]
    /\ reaction' = [reaction EXCEPT ![c] = IF EarlierRows(q) # {} THEN Recalled(q) ELSE Undecided]
    /\ UNCHANGED pointVars

\* deriveRewardPointBalanceInTransaction.
Gain(c) == IF wish[c].op \in Positive THEN wish[c].points ELSE -wish[c].points
Balance(a) == SumFunctionOnSet([c \in unvoided |-> Gain(c)], {c \in unvoided : wish[c].account = a})

\* What a request does under its account's row, which must be ACTIVE; the
\* unique index of the keys has the last word on a new row.
Under(c, allowed, effect) ==
    LET q == wish[c]
        gone == AccountOf(q) \in retired
        answer == IF gone /\ q.op # "ARCHIVE" THEN "refused"
                  ELSE IF EarlierRows(q) # {} THEN Recalled(q)
                  ELSE IF gone \/ ~allowed THEN "refused"
                  ELSE IF Clashing(q) # {} THEN "conflict"
                  ELSE "stored"
    IN  /\ reaction[c] = Undecided
        /\ reaction' = [reaction EXCEPT ![c] = answer]
        /\ IF answer = "stored" THEN effect ELSE UNCHANGED pointVars
        /\ UNCHANGED wish

NeverOpened(a) == FALSE
\* createSimpleRewardEventInTransaction.
Opened(a) == \E c \in unvoided : wish[c].op = "OPENING_BALANCE" /\ wish[c].account = a
CreateSimpleEvent(c) ==
    LET q == wish[c]
    IN  /\ q.op \in Creations \ {"REDEEM_PURCHASE"}
        /\ Under(c, /\ q.op = "EXPIRE" => Balance(q.account) >= q.points
                    /\ q.op = "OPENING_BALANCE" => ~Opened(q.account),
                 unvoided' = unvoided \cup {c} /\ UNCHANGED <<retired, benefit>>)

\* createRewardPurchaseInTransaction, with its canonical transaction.
RecordRewardPurchase(c) ==
    LET q == wish[c]
    IN  /\ q.op = "REDEEM_PURCHASE"
        /\ Under(c, Balance(q.account) >= q.points,
                 /\ unvoided' = unvoided \cup {c} /\ benefit' = benefit + q.points
                 /\ UNCHANGED retired)

\* voidRewardEventInTransaction: points that were spent since stay.
StillUnspent(e) == wish[e].op \in Positive => Balance(wish[e].account) >= wish[e].points
VoidableSpent(e) == e \in unvoided
Voidable(e) == e \in unvoided /\ StillUnspent(e)
VoidEvent(c) ==
    LET e == wish[c].event
    IN  /\ wish[c].op = "VOID"
        /\ Under(c, Voidable(e),
                 /\ unvoided' = unvoided \ {e}
                 /\ benefit' = IF wish[e].op = "REDEEM_PURCHASE" THEN benefit - wish[e].points ELSE benefit
                 /\ UNCHANGED retired)

ArchiveNotOverdrawn(c) ==
    /\ wish[c].op = "ARCHIVE"
    /\ Under(c, Balance(wish[c].account) >= 0,
             retired' = retired \cup {wish[c].account} /\ UNCHANGED <<unvoided, benefit>>)
ArchiveRewardAccount(c) ==
    LET q == wish[c]
    IN  /\ q.op = "ARCHIVE"
        /\ Under(c, Balance(q.account) = 0,
                 retired' = retired \cup {q.account} /\ UNCHANGED <<unvoided, benefit>>)

RewardNext ==
    \E c \in Shopper :
       \/ \E q \in Wishes[c] : FindEvent(c, q)
       \/ CreateSimpleEvent(c) \/ RecordRewardPurchase(c) \/ VoidEvent(c) \/ ArchiveRewardAccount(c)
RewardSpec == RewardInit /\ [][RewardNext]_rewardVars

-----------------------------------------------------------------------------
(* Properties.                                                             *)

\* No account is overdrawn: points that are spent, expire or turn out never
\* to have been earned are there, in whatever order the requests arrive.
NeverOverdrawn == \A a \in RewardAccount : Balance(a) >= 0

\* An archived account stays empty, and nothing brings its points back.
RetiredIsEmpty == \A a \in retired : Balance(a) = 0

\* An account has one opening balance at most, though a void one may be
\* replaced.
OpenedOnce ==
    \A c, d \in unvoided : wish[c].op = "OPENING_BALANCE" /\ wish[d].op = "OPENING_BALANCE"
                           /\ wish[c].account = wish[d].account => c = d

\* The benefit account holds what the purchases that stand were paid with,
\* each once, after any retries and voids; and no key made two rows.
BenefitIsRedeemed ==
    /\ benefit = SumFunctionOnSet([c \in unvoided |-> wish[c].points],
                                   {c \in unvoided : wish[c].op = "REDEEM_PURCHASE"})
    /\ \A c, d \in Rows(FALSE) : wish[c].key = wish[d].key => c = d

\* Points are there when they are spent, and a key, an opening balance and a
\* redemption count once, before and after an account is archived.
PointsInStep == NeverOverdrawn /\ RetiredIsEmpty /\ OpenedOnce /\ BenefitIsRedeemed
=============================================================================
