-------------------------- MODULE PasskeyEnrollment --------------------------
(***************************************************************************)
(* The passkeys of src/auth: how one is enrolled, by the first visitor     *)
(* (BOOTSTRAP), with the recovery code (RECOVERY) or from a device that    *)
(* has one (ADD_CREDENTIAL), and how one signs in.                         *)
(*                                                                         *)
(* An enrolment is three HTTP requests: authorize issues a grant, options  *)
(* consumes it and opens a challenge, verify answers the challenge.  The   *)
(* transactions hold the row of the one user and are a step each; what a   *)
(* handler reads or consumes before its transaction is a step of its own.  *)
(* A grant or a challenge that expires is one nobody uses any more.        *)
(***************************************************************************)
EXTENDS Integers, FiniteSets

CONSTANTS
    Visit,      \* visits to authorize, reauthenticate or sign in
    Aims,       \* the purposes each may have
    Copies,     \* how often a browser may send the answer to one challenge
    NoSource

Purpose == {"BOOTSTRAP", "RECOVERY", "ADD_CREDENTIAL", "SIGN_IN"}
ASSUME EnrollmentAssumption ==
    /\ Copies \in Nat
    /\ Aims \in [Visit -> SUBSET Purpose]
    /\ NoSource \notin Visit \X (1..Copies)

Response == Visit \X (1..Copies)   \* an answer <<r, i>> is to the challenge of r

VARIABLES
    initialized,   \* users.auth_initialized_at is set
    aim,           \* what each request found before its transaction
    phase,         \* how far it is
    grants,        \* the enrolment grant of each
    challenge,     \* the REGISTRATION challenge opened with it
    holder,        \* the answers that consumed a challenge
    credentials,   \* the passkey each answer enrolled
    codes          \* the recovery code each answer was given

enrollmentVars == <<initialized, aim, phase, grants, challenge, holder, credentials, codes>>
requestVars == <<aim, phase>>

NoAim == [purpose |-> "SIGN_IN", found |-> NoSource, version |-> 0]
NoPasskey == [status |-> "none", version |-> 0]

EnrollmentTypeOK ==
    /\ initialized \in BOOLEAN
    /\ aim \in [Visit -> [purpose : Purpose, found : Response \cup {NoSource}, version : Nat]]
    /\ phase \in [Visit -> {"idle", "read", "proved", "issued", "signed_in", "refused"}]
    /\ grants \in [Visit -> {"none", "pending", "consumed", "revoked"}]
    /\ challenge \in [Visit -> {"none", "open", "consumed"}]
    /\ holder \subseteq Response
    /\ credentials \in [Response -> [status : {"none", "active", "revoked"}, version : Nat]]
    /\ codes \in [Response -> {"none", "active", "consumed"}]

EnrollmentInit ==
    /\ initialized = FALSE
    /\ aim = [r \in Visit |-> NoAim]
    /\ phase = [r \in Visit |-> "idle"]
    /\ grants = [r \in Visit |-> "none"]
    /\ challenge = [r \in Visit |-> "none"]
    /\ holder = {}
    /\ credentials = [a \in Response |-> NoPasskey]
    /\ codes = [a \in Response |-> "none"]

-----------------------------------------------------------------------------
(* Before the transaction.                                                 *)

Found(r, purpose, what, version) ==
    /\ phase[r] = "idle"
    /\ purpose \in Aims[r]
    /\ aim' = [aim EXCEPT ![r] = [purpose |-> purpose, found |-> what, version |-> version]]
    /\ phase' = [phase EXCEPT ![r] = "read"]
    /\ UNCHANGED <<initialized, grants, challenge, holder, credentials, codes>>

\* authorizeBootstrapAndIssueGrant reads auth_initialized_at without a lock.
AuthorizeBootstrap(r) == ~initialized /\ Found(r, "BOOTSTRAP", NoSource, 0)
\* authorizeRecoveryAndIssueGrant.
AuthorizeRecovery(r, a) == initialized /\ codes[a] = "active" /\ Found(r, "RECOVERY", a, 0)
\* verifyReauthForUser and verifyAuthenticationForUser read the passkey ...
FindCredential(r, a, purpose) ==
    /\ initialized /\ credentials[a].status = "active"
    /\ purpose \in {"ADD_CREDENTIAL", "SIGN_IN"}
    /\ Found(r, purpose, a, credentials[a].version)

StillActivePasskey(r) == credentials[aim[r].found].status = "active"
\* ... and write it back after they verified the signature.
Unmoved(r) == LET k == credentials[aim[r].found]
              IN  k.status = "active" /\ k.version = aim[r].version
Prove(r) ==
    /\ phase[r] = "read" /\ aim[r].purpose \in {"ADD_CREDENTIAL", "SIGN_IN"}
    /\ IF Unmoved(r)
       THEN /\ credentials' = [credentials EXCEPT ![aim[r].found].version = @ + 1]
            /\ phase' = [phase EXCEPT ![r] = IF aim[r].purpose = "SIGN_IN" THEN "signed_in"
                                             ELSE "proved"]
       ELSE phase' = [phase EXCEPT ![r] = "refused"] /\ UNCHANGED credentials
    /\ UNCHANGED <<initialized, aim, grants, challenge, holder, codes>>

-----------------------------------------------------------------------------
(* issueEnrollmentGrant.                                                   *)

PendingGrants(purpose) == {r \in Visit : grants[r] = "pending" /\ aim[r].purpose = purpose}
Revoked(purpose) == [r \in Visit |-> IF r \in PendingGrants(purpose) THEN "revoked" ELSE grants[r]]
SourceActive(r) == aim[r].purpose = "RECOVERY" => codes[aim[r].found] = "active"

IssueGrant(r) ==
    /\ phase[r] = IF aim[r].purpose = "ADD_CREDENTIAL" THEN "proved" ELSE "read"
    /\ aim[r].purpose # "SIGN_IN"
    /\ IF SourceActive(r)
       THEN /\ grants' = [Revoked(aim[r].purpose) EXCEPT ![r] = "pending"]
            /\ phase' = [phase EXCEPT ![r] = "issued"]
       ELSE phase' = [phase EXCEPT ![r] = "refused"] /\ UNCHANGED grants
    /\ UNCHANGED <<initialized, aim, challenge, holder, credentials, codes>>

\* beginAuthorizedPasskeyEnrollment.
Permits(r) == /\ initialized = (aim[r].purpose # "BOOTSTRAP")
              /\ SourceActive(r)
BeginEnrollment(r) ==
    /\ grants[r] = "pending" /\ Permits(r)
    /\ grants' = [grants EXCEPT ![r] = "consumed"]
    /\ challenge' = [challenge EXCEPT ![r] = "open"]
    /\ UNCHANGED <<initialized, requestVars, holder, credentials, codes>>

-----------------------------------------------------------------------------
(* completeAuthorizedPasskeyEnrollment.                                    *)

AnswerAgain(a) ==
    /\ challenge[a[1]] # "none"
    /\ challenge' = [challenge EXCEPT ![a[1]] = "consumed"]
    /\ holder' = holder \cup {a}
    /\ UNCHANGED <<initialized, requestVars, grants, credentials, codes>>
\* The challenge is consumed before the answer is verified; an answer that
\* fails the verification goes no further.
ConsumeChallenge(a) ==
    /\ challenge[a[1]] = "open"
    /\ challenge' = [challenge EXCEPT ![a[1]] = "consumed"]
    /\ holder' = holder \cup {a}
    /\ UNCHANGED <<initialized, requestVars, grants, credentials, codes>>

UncountedPasskey(a) == [credentials EXCEPT ![a] = [status |-> "enrolled", version |-> 0]]
Passkey(a) == [credentials EXCEPT ![a] = [status |-> "active", version |-> 0]]
Enrolling(a, purpose) ==
    /\ a \in holder /\ credentials[a].status = "none"
    /\ aim[a[1]].purpose = purpose /\ grants[a[1]] = "consumed"
    /\ grants' = Revoked(purpose)
    /\ UNCHANGED <<requestVars, challenge, holder>>

EnrollFirstAgain(a) ==
    /\ Enrolling(a, "BOOTSTRAP")
    /\ initialized' = TRUE /\ credentials' = Passkey(a) /\ codes' = [codes EXCEPT ![a] = "active"]
EnrollFirst(a) ==
    /\ Enrolling(a, "BOOTSTRAP")
    /\ ~initialized /\ initialized' = TRUE
    /\ credentials' = Passkey(a)
    /\ codes' = [codes EXCEPT ![a] = "active"]

Replaced(a) == [b \in Response |-> IF b # a /\ credentials[b].status = "active"
                                 THEN [status |-> "revoked", version |-> credentials[b].version + 1]
                                 ELSE Passkey(a)[b]]
RecoverAgain(a) ==
    /\ Enrolling(a, "RECOVERY")
    /\ credentials' = Replaced(a)
    /\ codes' = [codes EXCEPT ![aim[a[1]].found] = "consumed", ![a] = "active"]
    /\ UNCHANGED initialized
RecoverKeepingCode(a) ==
    /\ Enrolling(a, "RECOVERY") /\ SourceActive(a[1])
    /\ credentials' = Replaced(a) /\ codes' = [codes EXCEPT ![a] = "active"]
    /\ UNCHANGED initialized
EnrollByRecovery(a) ==
    /\ Enrolling(a, "RECOVERY")
    /\ SourceActive(a[1])
    /\ credentials' = Replaced(a)
    /\ codes' = [codes EXCEPT ![aim[a[1]].found] = "consumed", ![a] = "active"]
    /\ UNCHANGED initialized

EnrollAnother(a) ==
    /\ Enrolling(a, "ADD_CREDENTIAL")
    /\ initialized
    /\ credentials' = Passkey(a)
    /\ UNCHANGED <<initialized, codes>>

-----------------------------------------------------------------------------
EnrollmentNext ==
    \/ \E r \in Visit : \/ AuthorizeBootstrap(r) \/ Prove(r) \/ IssueGrant(r) \/ BeginEnrollment(r)
                          \/ \E a \in Response : \/ AuthorizeRecovery(r, a)
                                               \/ \E p \in Purpose : FindCredential(r, a, p)
    \/ \E a \in Response : \/ ConsumeChallenge(a)
                         \/ EnrollFirst(a) \/ EnrollByRecovery(a) \/ EnrollAnother(a)
EnrollmentSpec == EnrollmentInit /\ [][EnrollmentNext]_enrollmentVars

-----------------------------------------------------------------------------
(* Properties.                                                             *)

Enrolled(purpose) == {a \in Response : credentials[a].status # "none" /\ aim[a[1]].purpose = purpose}
ActiveCodes == {a \in Response : codes[a] = "active"}

\* GET /auth/status answers AUTH_STATE_INCONSISTENT when this does not hold:
\* an instance has an active passkey and exactly one active recovery code if
\* it is initialised, and neither if it is not.
StateConsistent ==
    IF initialized THEN /\ \E a \in Response : credentials[a].status = "active"
                        /\ \E a \in Response : ActiveCodes = {a}
    ELSE ActiveCodes = {} /\ \A a \in Response : credentials[a].status = "none"

\* However many grants were handed out before the first passkey was enrolled,
\* one of them bootstraps the instance.
BootstrappedOnce == \A a, b \in Enrolled("BOOTSTRAP") : a = b

\* A grant enrols one passkey, also when its challenge is answered twice.
OnePasskeyPerGrant ==
    \A a, b \in Response : a[1] = b[1] /\ credentials[a].status # "none"
                                     /\ credentials[b].status # "none" => a = b

\* A recovery code recovers the instance once, whatever was authorised with
\* it or begun before it was consumed.
RecoversOnce ==
    \A a, b \in Enrolled("RECOVERY") : aim[a[1]].found = aim[b[1]].found => a = b

\* Of the visits that read one version of a passkey, one is let in.
ProvedOncePerVersion ==
    \A r, s \in Visit :
        /\ {phase[r], phase[s]} \subseteq {"proved", "issued", "signed_in"}
        /\ {aim[r].purpose, aim[s].purpose} \subseteq {"ADD_CREDENTIAL", "SIGN_IN"}
        /\ aim[r].found = aim[s].found /\ aim[r].version = aim[s].version
        => r = s

\* What may be used once is used once: the instance's bootstrap, a grant, a
\* recovery code, and a version of a passkey's counter.
UsedOnce == BootstrappedOnce /\ OnePasskeyPerGrant /\ RecoversOnce /\ ProvedOncePerVersion
=============================================================================
