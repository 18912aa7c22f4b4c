------------------------- MODULE EmailVerification -------------------------
(***************************************************************************)
(* The account of one email address in backend-go/auth.go: registration,   *)
(* the six-digit code that is mailed to it, the resending of the code and  *)
(* its verification.  Every handler reads the user, perhaps mails, and     *)
(* writes by { email } alone, with no condition on what it has read.       *)
(*                                                                         *)
(* A code is named after the request that made it; the HMAC of a code is   *)
(* the code.  users.email is taken to be unique, by the index that the     *)
(* archived backend created; this backend creates none.                    *)
(***************************************************************************)
EXTENDS Integers, FiniteSets

CONSTANTS
    Registers,      \* POST /api/auth/register, each request once
    Resends,        \* POST /api/auth/resend-email-code, each request once
    Verifiers,      \* POST /api/auth/verify-email-code, request after request
    Wrong,          \* a code that was never mailed
    NoCode,         \* no code is stored
    NoDoc,          \* the address is not registered
    Lifetime,       \* 10 minutes, in ticks
    Cooldown,       \* one minute
    HandlerLimit,   \* the 5 seconds of a handler's context
    MaxAttempts,    \* 5
    Faults          \* TRUE: a call of MongoDB or of the mail provider may fail

Requests == Registers \cup Resends
Codes == Requests

ASSUME VerificationConstants ==
    /\ Registers \cap Resends = {}
    /\ {Wrong, NoCode, NoDoc} \cap Codes = {} /\ Wrong # NoCode
    /\ Lifetime \in Nat /\ Cooldown \in Nat /\ HandlerLimit \in Nat
    /\ HandlerLimit < Cooldown /\ HandlerLimit < Lifetime
    /\ MaxAttempts \in Nat \ {0} /\ IsFiniteSet(Verifiers)
    /\ Faults \in BOOLEAN

VARIABLES
    doc,        \* MongoDB: the user
    rpc,        \* control of a registration or a resend
    rage,       \* ticks since it began
    vpc,        \* control of a verifier
    vcode,      \* the code it was given
    vage,       \* ticks since it read the user
    mailAge     \* ticks since a code was mailed, -1 before

requests == <<rpc, rage>>
verifiers == <<vpc, vcode, vage>>
vars == <<doc, requests, verifiers, mailAge>>

\* emailVerified is absent in the accounts of the archived backend.  A code may
\* still be used at the instant of its expiry, when left is 0; -1 is past it.
User == [verified : {"absent", "no", "yes"}, code : Codes \cup {NoCode},
         left : -1..Lifetime, attempts : Nat, cool : 0..Cooldown]

ASSUME NoDocIsNoUser == NoDoc \notin User

Oldest == Lifetime + 2 * HandlerLimit + 1   \* the ages are counted no further

TypeOK ==
    /\ doc \in User \cup {NoDoc}
    /\ rpc \in [Requests -> {"new", "mail", "write", "done"}]
    /\ rage \in [Requests -> 0..(HandlerLimit + 1)]
    /\ vpc \in [Verifiers -> {"idle", "count", "confirm"}]
    /\ vcode \in [Verifiers -> Codes \cup {Wrong}]
    /\ vage \in [Verifiers -> 0..(HandlerLimit + 1)]
    /\ mailAge \in [Codes -> -1..Oldest]

Init ==
    /\ doc \in {NoDoc, [verified |-> "absent", code |-> NoCode, left |-> -1,
                        attempts |-> 0, cool |-> 0]}
    /\ rpc = [r \in Requests |-> "new"]
    /\ rage = [r \in Requests |-> 0]
    /\ vpc = [v \in Verifiers |-> "idle"]
    /\ vcode = [v \in Verifiers |-> Wrong]
    /\ vage = [v \in Verifiers |-> 0]
    /\ mailAge = [c \in Codes |-> -1]

UpTo(n, max) == IF n < max THEN n + 1 ELSE n
DownTo(n, min) == IF n > min THEN n - 1 ELSE n

Tick ==
    /\ doc' = IF doc = NoDoc THEN doc
              ELSE [doc EXCEPT !.left = DownTo(@, -1), !.cool = DownTo(@, 0)]
    /\ rage' = [r \in Requests |->
          IF rpc[r] \in {"mail", "write"} THEN UpTo(rage[r], HandlerLimit + 1) ELSE 0]
    /\ vage' = [v \in Verifiers |-> IF vpc[v] = "idle" THEN 0 ELSE UpTo(vage[v], HandlerLimit + 1)]
    /\ mailAge' = [c \in Codes |-> IF mailAge[c] >= 0 THEN UpTo(mailAge[c], Oldest) ELSE -1]
    /\ UNCHANGED <<rpc, vpc, vcode>>

-----------------------------------------------------------------------------
(* loginGinHandler gives a token to the right password and these           *)

isEmailVerifiedForLogin(user) == user.verified # "no"
isEmailExplicitlyVerified(user) == user.verified = "yes"

-----------------------------------------------------------------------------
(* registerGinHandler and resendEmailCodeGinHandler                        *)

step(r, from, to) ==
    /\ rpc[r] = from
    /\ rpc' = [rpc EXCEPT ![r] = to]

\* 409 when the address is registered.
RegisterFind(r) ==
    /\ r \in Registers
    /\ IF doc = NoDoc THEN step(r, "new", "mail") ELSE step(r, "new", "done")
    /\ UNCHANGED <<doc, rage, verifiers, mailAge>>

Mut_ResendFind(r) ==        \* no cooldown
    /\ r \in Resends
    /\ IF doc # NoDoc /\ ~isEmailExplicitlyVerified(doc)
       THEN step(r, "new", "mail") ELSE step(r, "new", "done")
    /\ UNCHANGED <<doc, rage, verifiers, mailAge>>

\* Nobody to write to; verified already; 429 in the cooldown; or a new code.
ResendFind(r) ==
    /\ r \in Resends
    /\ IF doc # NoDoc /\ ~isEmailExplicitlyVerified(doc) /\ doc.cool = 0
       THEN step(r, "new", "mail") ELSE step(r, "new", "done")
    /\ UNCHANGED <<doc, rage, verifiers, mailAge>>

Mut_SendMail(r) ==          \* a mail that fails is only logged
    /\ \/ step(r, "mail", "write") /\ mailAge' = [mailAge EXCEPT ![r] = 0]
       \/ Faults /\ step(r, "mail", "write") /\ UNCHANGED mailAge
    /\ UNCHANGED <<doc, rage, verifiers>>

\* sendVerificationCodeEmail; after an error the mail may be on its way.
SendMail(r) ==
    /\ \/ step(r, "mail", "write") /\ mailAge' = [mailAge EXCEPT ![r] = 0]
       \/ /\ Faults /\ step(r, "mail", "done")
          /\ mailAge' = [mailAge EXCEPT ![r] = 0] \/ UNCHANGED mailAge
    /\ UNCHANGED <<doc, rage, verifiers>>

\* The context of 5 seconds began before the mail: a slow mail leaves no time
\* for the write, and the mailed code is never stored.
InTime(age) == age <= HandlerLimit

\* sentAt and the expiry are reckoned from a time taken between the mail and the
\* write, which may land as late as the mail is old.
Stored(user, r, late) ==
    [user EXCEPT !.code = r, !.left = Lifetime - late, !.attempts = 0, !.cool = Cooldown - late]

NewUser == [verified |-> "no", code |-> NoCode, left |-> -1, attempts |-> 0, cool |-> 0]

Mut_RegisterWrite(r) ==     \* an upsert by email
    /\ r \in Registers
    /\ step(r, "write", "done")
    /\ doc' = Stored(NewUser, r, 0)
    /\ UNCHANGED <<rage, verifiers, mailAge>>

\* InsertOne; of two registrations that had both found nothing the second one
\* meets the unique index.
RegisterWrite(r) ==
    /\ r \in Registers
    /\ step(r, "write", "done")
    /\ \/ /\ InTime(rage[r]) /\ doc = NoDoc
          /\ \E late \in {0} \cup 1..mailAge[r] : doc' = Stored(NewUser, r, late)
       \/ (Faults \/ ~InTime(rage[r]) \/ doc # NoDoc) /\ UNCHANGED doc
    /\ UNCHANGED <<rage, verifiers, mailAge>>

ResendWrite(r) ==
    /\ r \in Resends
    /\ step(r, "write", "done")
    /\ \/ /\ InTime(rage[r])
          /\ \E late \in {0} \cup 1..mailAge[r] : doc' = Stored(doc, r, late)
       \/ (Faults \/ ~InTime(rage[r])) /\ UNCHANGED doc
    /\ UNCHANGED <<rage, verifiers, mailAge>>

-----------------------------------------------------------------------------
(* verifyEmailCodeGinHandler                                               *)

Mut_canAttemptEmailVerification ==      \* the expiry is forgotten
    doc.attempts < MaxAttempts /\ doc.code # NoCode

Mut_canAttempt ==                       \* one answer too many
    doc.attempts <= MaxAttempts /\ doc.code # NoCode /\ doc.left >= 0

canAttemptEmailVerification ==
    doc.attempts < MaxAttempts /\ doc.code # NoCode /\ doc.left >= 0

\* Any other user is answered without a change.
VerifyFind(v, code) ==
    /\ vpc[v] = "idle"
    /\ doc # NoDoc /\ ~isEmailExplicitlyVerified(doc) /\ canAttemptEmailVerification
    /\ vpc' = [vpc EXCEPT ![v] = IF code = doc.code THEN "confirm" ELSE "count"]
    /\ vcode' = [vcode EXCEPT ![v] = code]
    /\ vage' = [vage EXCEPT ![v] = 0]
    /\ UNCHANGED <<doc, requests, mailAge>>

VerifyEnds(v) ==
    /\ vpc' = [vpc EXCEPT ![v] = "idle"]
    /\ vage' = [vage EXCEPT ![v] = 0]
    /\ vcode' = [vcode EXCEPT ![v] = Wrong]
    /\ UNCHANGED <<requests, mailAge>>

\* $inc; its error is dropped.
VerifyCount(v) ==
    /\ vpc[v] = "count"
    /\ \/ InTime(vage[v]) /\ doc' = [doc EXCEPT !.attempts = @ + 1]
       \/ (Faults \/ ~InTime(vage[v])) /\ UNCHANGED doc
    /\ VerifyEnds(v)

VerifyConfirm(v) ==
    /\ vpc[v] = "confirm"
    /\ \/ /\ InTime(vage[v])
          /\ doc' = [doc EXCEPT !.verified = "yes", !.attempts = 0, !.code = NoCode, !.left = -1]
       \/ (Faults \/ ~InTime(vage[v])) /\ UNCHANGED doc
    /\ VerifyEnds(v)

Mailed == {c \in Codes : mailAge[c] >= 0}

Next ==
    \/ Tick
    \/ \E r \in Requests :
          RegisterFind(r) \/ RegisterWrite(r) \/ ResendFind(r) \/ ResendWrite(r) \/ SendMail(r)
    \/ \E v \in Verifiers :
          VerifyCount(v) \/ VerifyConfirm(v) \/ \E code \in Mailed \cup {Wrong} : VerifyFind(v, code)

Spec == Init /\ [][Next]_vars

-----------------------------------------------------------------------------
(* Properties                                                              *)

\* The code an account waits for is one that was mailed to its address.
StoredCodeWasMailed == doc # NoDoc => doc.code \in Mailed \cup {NoCode}

InFlight == {v \in Verifiers : vpc[v] = "count"}

\* Wrong answers are counted with an $inc after the limit was read: answers
\* that race overrun it, but by no more than there are at a time.
AttemptsBounded ==
    doc # NoDoc =>
        doc.attempts + Cardinality(InFlight) <= MaxAttempts - 1 + Cardinality(Verifiers)

\* An account that may log in, verified or from before verification, keeps that
\* through every late resend and failed answer.
LoginStays ==
    [][doc # NoDoc => /\ doc' # NoDoc
                      /\ isEmailVerifiedForLogin(doc) => isEmailVerifiedForLogin(doc')
                      /\ isEmailExplicitlyVerified(doc) => isEmailExplicitlyVerified(doc')]_vars

\* An account is verified by a code that was mailed to it in the last ten
\* minutes, give or take the time of two handlers.
ConfirmedByFreshMail ==
    [][doc # NoDoc /\ ~isEmailExplicitlyVerified(doc) /\ isEmailExplicitlyVerified(doc') =>
          \E v \in Verifiers : vpc[v] = "confirm" /\ vcode[v] \in Mailed
                               /\ mailAge[vcode[v]] <= Lifetime + 2 * HandlerLimit]_vars

\* A resent code is mailed within a minute of the last one that was stored only
\* if that one was stored after this request had read the user: the cooldown is
\* as good as the seconds two requests take.
CooldownExplained ==
    [][\A r \in Resends : r \notin Mailed /\ mailAge'[r] >= 0 =>
          doc.cool = 0 \/ Cooldown - doc.cool <= rage[r] + HandlerLimit \/ ~InTime(rage[r])]_vars
=============================================================================
