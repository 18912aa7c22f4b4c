---------------------- MODULE EmailVerificationProofs -----------------------
(***************************************************************************)
(* For any requests, verifiers, durations and limits: what a stored code,  *)
(* a login, the attempt counter and the cooldown are worth.                *)
(***************************************************************************)
EXTENDS EmailVerification, FiniteSetTheorems, TLAPS

\* Who is past its read has found a user, and who is past its mail has mailed.
Stages ==
    /\ \A r \in Requests : rpc[r] = "write" => r \in Mailed
    /\ \A r \in Resends : rpc[r] \in {"mail", "write"} => doc # NoDoc
    /\ \A v \in Verifiers : vpc[v] # "idle" => doc # NoDoc

\* A code's mail and its remaining life, along the handlers that hold it.
Fresh ==
    /\ \A r \in Requests : rpc[r] = "write" /\ InTime(rage[r]) => mailAge[r] <= rage[r]
    /\ doc # NoDoc /\ doc.code \in Codes /\ doc.left >= 0 =>
          mailAge[doc.code] + doc.left <= Lifetime + HandlerLimit
    /\ \A v \in Verifiers : vpc[v] = "confirm" =>
          /\ vcode[v] \in Mailed
          /\ InTime(vage[v]) => mailAge[vcode[v]] <= Lifetime + HandlerLimit + vage[v]

\* A resend that is about to mail has seen no cooldown.
Cooled ==
    \A r \in Resends : rpc[r] = "mail" =>
        doc.cool = 0 \/ Cooldown - doc.cool <= rage[r] + HandlerLimit \/ ~InTime(rage[r])

CodesInv == TypeOK /\ Stages /\ StoredCodeWasMailed /\ AttemptsBounded /\ Fresh /\ Cooled

\* The writes of a resend and of a verification keep a user a user.
LEMMA Rewritten ==
    ASSUME NEW u \in User, NEW c \in Codes \cup {NoCode}, NEW l \in -1..Lifetime,
           NEW n \in Nat, NEW k \in 0..Cooldown, NEW w \in {"absent", "no", "yes"}
    PROVE  /\ [u EXCEPT !.code = c, !.left = l, !.attempts = n, !.cool = k] \in User
           /\ [u EXCEPT !.verified = w, !.attempts = n, !.code = c, !.left = l] \in User
<1>1. [u EXCEPT !.code = c, !.left = l, !.attempts = n, !.cool = k] \in User
    BY DEF User
<1>2. [u EXCEPT !.verified = w, !.attempts = n, !.code = c, !.left = l] \in User
    BY DEF User
<1> QED BY <1>1, <1>2

LEMMA Limits ==
    /\ -1 \in -1..Lifetime /\ 0 \in 0..Cooldown /\ 0 \in Nat
    /\ \A late \in 0..HandlerLimit :
          Lifetime - late \in 0..Lifetime /\ Lifetime - late \in -1..Lifetime
          /\ Cooldown - late \in 0..Cooldown
BY VerificationConstants

LEMMA UserWritten ==
    ASSUME NEW u \in User
    PROVE  /\ \A c \in Codes, late \in 0..HandlerLimit : Stored(u, c, late) \in User
           /\ [u EXCEPT !.verified = "yes", !.attempts = 0, !.code = NoCode, !.left = -1] \in User
           /\ [u EXCEPT !.attempts = @ + 1] \in User
<1>1. ASSUME NEW c \in Codes, NEW late \in 0..HandlerLimit
      PROVE  Stored(u, c, late) \in User
    BY Rewritten, Limits DEF Stored
<1>2. [u EXCEPT !.verified = "yes", !.attempts = 0, !.code = NoCode, !.left = -1] \in User
    BY Rewritten, Limits
<1>3. [u EXCEPT !.attempts = @ + 1] \in User
    BY DEF User
<1> QED BY <1>1, <1>2, <1>3

USE VerificationConstants, NoDocIsNoUser DEF Requests, Codes

-----------------------------------------------------------------------------
\* How many verifiers are about to count a wrong answer.
LEMMA InFlightCount ==
    ASSUME NEW S \in SUBSET Verifiers
    PROVE  IsFiniteSet(S) /\ Cardinality(S) \in Nat /\ Cardinality(S) <= Cardinality(Verifiers)
           /\ Cardinality(Verifiers) \in Nat
<1>1. IsFiniteSet(S) /\ Cardinality(S) <= Cardinality(Verifiers)
    BY FS_Subset
<1> QED BY <1>1, FS_CardinalityType

LEMMA InitCodes == Init => CodesInv
<1> SUFFICES ASSUME Init PROVE CodesInv
    OBVIOUS
<1> USE DEF Init
<1>1. TypeOK
    BY DEF TypeOK, User, Oldest
<1>2. Stages /\ Fresh /\ Cooled /\ StoredCodeWasMailed
    BY DEF Stages, Fresh, Cooled, StoredCodeWasMailed
<1>3. AttemptsBounded
    <2>1. InFlight = {}
        BY DEF InFlight
    <2>2. Cardinality(InFlight) = 0
        BY <2>1, FS_EmptySet
    <2>3. doc # NoDoc => doc.attempts = 0
        OBVIOUS
    <2> QED BY <2>2, <2>3, InFlightCount DEF AttemptsBounded
<1> QED BY <1>1, <1>2, <1>3 DEF CodesInv

-----------------------------------------------------------------------------
\* What the write of a registration or of a resend does when it succeeds: the
\* code's life and the cooldown run from a time after its mail.
OthersWait(r) == \A q \in Requests \ {r} : rpc'[q] = rpc[q]

StoresCode(r) ==
    /\ rpc[r] = "write" /\ rpc'[r] = "done" /\ InTime(rage[r]) /\ OthersWait(r)
    /\ \E late \in {0} \cup 1..mailAge[r] :
          /\ late <= HandlerLimit
          /\ doc'.left = Lifetime - late /\ doc'.cool = Cooldown - late
    /\ doc' \in User /\ doc'.code = r /\ doc'.attempts = 0
    /\ doc = NoDoc \/ (doc \in User /\ doc'.verified = doc.verified)
    /\ UNCHANGED <<rage, verifiers, mailAge>>

LEMMA StoredFields ==
    ASSUME NEW u \in User, NEW c \in Codes, NEW late \in 0..HandlerLimit
    PROVE  /\ Stored(u, c, late).code = c /\ Stored(u, c, late).attempts = 0
           /\ Stored(u, c, late).left = Lifetime - late
           /\ Stored(u, c, late).cool = Cooldown - late
           /\ Stored(u, c, late).verified = u.verified
BY DEF Stored, User

\* A code is written in time only soon after its mail.
LEMMA WrittenSoon ==
    ASSUME TypeOK, Fresh, NEW r \in Requests, rpc[r] = "write", InTime(rage[r]),
           NEW late \in {0} \cup 1..mailAge[r]
    PROVE  late \in 0..HandlerLimit
<1>1. mailAge[r] <= rage[r] /\ mailAge[r] \in Int /\ rage[r] \in Int
    BY DEF Fresh, TypeOK
<1> QED BY <1>1 DEF InTime

LEMMA RegisterStores ==
    ASSUME TypeOK, Fresh, NEW r \in Requests, RegisterWrite(r)
    PROVE  doc' = doc \/ StoresCode(r)
<1> SUFFICES ASSUME doc' # doc PROVE StoresCode(r)
    OBVIOUS
<1>1. /\ rpc[r] = "write" /\ rpc'[r] = "done" /\ InTime(rage[r])
      /\ OthersWait(r) /\ doc = NoDoc /\ UNCHANGED <<rage, verifiers, mailAge>>
    BY DEF RegisterWrite, OthersWait, step, TypeOK
<1>2. PICK late \in {0} \cup 1..mailAge[r] : doc' = Stored(NewUser, r, late)
    BY DEF RegisterWrite
<1>3. late \in 0..HandlerLimit
    BY <1>1, WrittenSoon
<1>4. NewUser \in User
    BY Limits DEF NewUser, User
<1>5. doc' \in User
    BY <1>2, <1>3, <1>4, UserWritten
<1>6. /\ doc'.code = r /\ doc'.attempts = 0
      /\ doc'.left = Lifetime - late /\ doc'.cool = Cooldown - late
    BY <1>2, <1>3, <1>4, StoredFields
<1> QED BY <1>1, <1>3, <1>5, <1>6 DEF StoresCode

LEMMA ResendStores ==
    ASSUME TypeOK, Stages, Fresh, NEW r \in Requests, ResendWrite(r)
    PROVE  doc' = doc \/ StoresCode(r)
<1> SUFFICES ASSUME doc' # doc PROVE StoresCode(r)
    OBVIOUS
<1>1. /\ rpc[r] = "write" /\ rpc'[r] = "done" /\ InTime(rage[r])
      /\ OthersWait(r) /\ UNCHANGED <<rage, verifiers, mailAge>>
    BY DEF ResendWrite, OthersWait, step, TypeOK
<1>2. PICK late \in {0} \cup 1..mailAge[r] : doc' = Stored(doc, r, late)
    BY DEF ResendWrite
<1>3. late \in 0..HandlerLimit
    BY <1>1, WrittenSoon
<1>4. doc \in User
    BY <1>1 DEF Stages, TypeOK, ResendWrite
<1>5. doc' \in User
    BY <1>2, <1>3, <1>4, UserWritten
<1>6. /\ doc'.code = r /\ doc'.attempts = 0 /\ doc'.verified = doc.verified
      /\ doc'.left = Lifetime - late /\ doc'.cool = Cooldown - late
    BY <1>2, <1>3, <1>4, StoredFields
<1> QED BY <1>1, <1>3, <1>4, <1>5, <1>6 DEF StoresCode

LEMMA TypeStep == TypeOK /\ Stages /\ Fresh /\ [Next]_vars => TypeOK'
<1> SUFFICES ASSUME TypeOK, Stages, Fresh, [Next]_vars PROVE TypeOK'
    OBVIOUS
<1> USE DEF TypeOK
<1>1. CASE UNCHANGED vars
    BY <1>1 DEF vars, requests, verifiers
<1>2. CASE Tick
    <2>1. doc' \in User \cup {NoDoc}
        <3>1. CASE doc = NoDoc
            BY <1>2, <3>1 DEF Tick
        <3>2. CASE doc \in User
            <4>1. DownTo(doc.left, -1) \in -1..Lifetime /\ DownTo(doc.cool, 0) \in 0..Cooldown
                BY <3>2 DEF DownTo, User
            <4>2. doc' = [doc EXCEPT !.left = DownTo(doc.left, -1), !.cool = DownTo(doc.cool, 0)]
                BY <1>2, <3>2 DEF Tick
            <4> QED BY <3>2, <4>1, <4>2 DEF User
        <3> QED BY <3>1, <3>2
    <2>2. rage' \in [Requests -> 0..(HandlerLimit + 1)]
        BY <1>2 DEF Tick, UpTo
    <2>3. vage' \in [Verifiers -> 0..(HandlerLimit + 1)]
        BY <1>2 DEF Tick, UpTo
    <2>4. mailAge' \in [Codes -> -1..Oldest]
        BY <1>2 DEF Tick, UpTo, Oldest
    <2> QED BY <1>2, <2>1, <2>2, <2>3, <2>4 DEF Tick
<1>3. ASSUME NEW r \in Requests,
             RegisterFind(r) \/ RegisterWrite(r) \/ ResendFind(r) \/ ResendWrite(r) \/ SendMail(r)
      PROVE  TypeOK'
    <2>1. CASE RegisterFind(r) \/ ResendFind(r)
        BY <2>1 DEF RegisterFind, ResendFind, step, verifiers
    <2>2. CASE RegisterWrite(r)
        <3>1. doc' = doc \/ StoresCode(r)
            BY <2>2, RegisterStores
        <3> QED BY <2>2, <3>1 DEF RegisterWrite, StoresCode, step, verifiers
    <2>3. CASE ResendWrite(r)
        <3>1. doc' = doc \/ StoresCode(r)
            BY <2>3, ResendStores
        <3> QED BY <2>3, <3>1 DEF ResendWrite, StoresCode, step, verifiers
    <2>4. CASE SendMail(r)
        BY <2>4 DEF SendMail, step, verifiers, Oldest
    <2> QED BY <1>3, <2>1, <2>2, <2>3, <2>4
<1>4. ASSUME NEW v \in Verifiers, VerifyCount(v) \/ VerifyConfirm(v)
      PROVE  TypeOK'
    <2>1. doc \in User
        BY <1>4 DEF VerifyCount, VerifyConfirm, Stages
    <2>2. doc' \in User
        BY <1>4, <2>1, UserWritten DEF VerifyCount, VerifyConfirm
    <2> QED BY <1>4, <2>2 DEF VerifyCount, VerifyConfirm, VerifyEnds, requests
<1>5. ASSUME NEW v \in Verifiers, NEW code \in Mailed \cup {Wrong}, VerifyFind(v, code)
      PROVE  TypeOK'
    BY <1>5 DEF VerifyFind, requests, Mailed
<1> QED BY <1>1, <1>2, <1>3, <1>4, <1>5 DEF Next

\* What every step keeps: a mail stays mailed, and a user a user.
LEMMA MailedStays ==
    ASSUME TypeOK, Stages, Fresh, [Next]_vars
    PROVE  Mailed \subseteq Mailed' /\ (doc # NoDoc => doc' # NoDoc)
<1>1. Mailed \subseteq Mailed'
    <2>1. CASE Tick
        BY <2>1 DEF Tick, Mailed, UpTo, TypeOK, Oldest
    <2>2. ASSUME NEW r \in Requests, SendMail(r) PROVE Mailed \subseteq Mailed'
        BY <2>2 DEF SendMail, Mailed, TypeOK
    <2>3. CASE mailAge' = mailAge
        BY <2>3 DEF Mailed
    <2> QED BY <2>1, <2>2, <2>3 DEF Next, vars, RegisterFind, RegisterWrite, ResendFind,
          ResendWrite, VerifyCount, VerifyConfirm, VerifyEnds, VerifyFind
<1>2. doc # NoDoc => doc' # NoDoc
    <2> SUFFICES ASSUME doc # NoDoc, doc' = NoDoc PROVE FALSE
        OBVIOUS
    <2>1. doc \in User /\ doc' \notin User
        BY DEF TypeOK
    <2>2. CASE Tick
        <3>1. doc' = [doc EXCEPT !.left = DownTo(doc.left, -1), !.cool = DownTo(doc.cool, 0)]
            BY <2>1, <2>2 DEF Tick
        <3>2. DownTo(doc.left, -1) \in -1..Lifetime /\ DownTo(doc.cool, 0) \in 0..Cooldown
            BY <2>1 DEF DownTo, User
        <3> QED BY <2>1, <3>1, <3>2 DEF User
    <2>3. ASSUME NEW r \in Requests,
                 RegisterFind(r) \/ RegisterWrite(r) \/ ResendFind(r) \/ ResendWrite(r) \/ SendMail(r)
          PROVE  FALSE
        <3>1. CASE RegisterWrite(r) \/ ResendWrite(r)
            BY <2>1, <3>1, RegisterStores, ResendStores DEF StoresCode
        <3> QED BY <2>1, <2>3, <3>1 DEF RegisterFind, ResendFind, SendMail
    <2>4. ASSUME NEW v \in Verifiers, VerifyCount(v) \/ VerifyConfirm(v) PROVE FALSE
        BY <2>1, <2>4, UserWritten DEF VerifyCount, VerifyConfirm
    <2>5. CASE UNCHANGED doc
        BY <2>1, <2>5
    <2> QED BY <2>2, <2>3, <2>4, <2>5 DEF Next, vars, VerifyFind
<1> QED BY <1>1, <1>2

LEMMA StageStep == TypeOK /\ Stages /\ Fresh /\ [Next]_vars => Stages'
<1> SUFFICES ASSUME TypeOK, Stages, Fresh, [Next]_vars PROVE Stages'
    OBVIOUS
<1>1. Mailed \subseteq Mailed' /\ (doc # NoDoc => doc' # NoDoc)
    BY MailedStays
<1>2. ASSUME NEW r \in Requests, rpc'[r] # rpc[r]
      PROVE  /\ rpc'[r] = "write" => r \in Mailed'
             /\ r \in Resends /\ rpc'[r] \in {"mail", "write"} => doc' # NoDoc
    <2>1. ASSUME NEW q \in Requests,
                 RegisterFind(q) \/ RegisterWrite(q) \/ ResendFind(q) \/ ResendWrite(q) \/ SendMail(q)
          PROVE  q = r
        BY <1>2, <2>1 DEF RegisterFind, RegisterWrite, ResendFind, ResendWrite, SendMail, step, TypeOK
    <2>2. RegisterFind(r) \/ RegisterWrite(r) \/ ResendFind(r) \/ ResendWrite(r) \/ SendMail(r)
        BY <1>2, <2>1 DEF Next, Tick, VerifyCount, VerifyConfirm, VerifyEnds, VerifyFind, requests, vars
    <2>3. CASE RegisterFind(r) \/ RegisterWrite(r) \/ ResendWrite(r)
        BY <2>3 DEF RegisterFind, RegisterWrite, ResendWrite, step, TypeOK
    <2>4. CASE ResendFind(r)
        BY <2>4 DEF ResendFind, step, TypeOK
    <2>5. CASE SendMail(r)
        <3>1. rpc'[r] = "write" => mailAge'[r] = 0
            BY <2>5 DEF SendMail, step, TypeOK
        <3>2. r \in Resends => doc # NoDoc
            BY <2>5 DEF SendMail, step, Stages
        <3> QED BY <1>1, <3>1, <3>2 DEF Mailed
    <2> QED BY <2>2, <2>3, <2>4, <2>5
<1>3. ASSUME NEW v \in Verifiers, vpc'[v] # vpc[v], vpc'[v] # "idle"
      PROVE  doc' # NoDoc
    <2>1. \E code \in Mailed \cup {Wrong} : VerifyFind(v, code)
        BY <1>3 DEF Next, Tick, RegisterFind, RegisterWrite, ResendFind, ResendWrite, SendMail,
              VerifyCount, VerifyConfirm, VerifyEnds, VerifyFind, verifiers, vars, TypeOK
    <2> QED BY <2>1 DEF VerifyFind
<1>4. \A r \in Requests : rpc'[r] = "write" => r \in Mailed'
    BY <1>1, <1>2 DEF Stages
<1>5. \A r \in Resends : rpc'[r] \in {"mail", "write"} => doc' # NoDoc
    BY <1>1, <1>2 DEF Stages
<1>6. \A v \in Verifiers : vpc'[v] # "idle" => doc' # NoDoc
    BY <1>1, <1>3 DEF Stages
<1> QED BY <1>4, <1>5, <1>6 DEF Stages

-----------------------------------------------------------------------------
\* The other steps that write the user, by what they write.
StoresNothing(r) ==
    rpc'[r] = "done" /\ OthersWait(r) /\ UNCHANGED <<doc, rage, verifiers, mailAge>>

Counted(v) ==
    /\ vpc[v] = "count" /\ VerifyEnds(v)
    /\ doc \in User /\ doc' = [doc EXCEPT !.attempts = @ + 1]

Confirmed(v) ==
    /\ vpc[v] = "confirm" /\ VerifyEnds(v) /\ InTime(vage[v])
    /\ doc \in User
    /\ doc' = [doc EXCEPT !.verified = "yes", !.attempts = 0, !.code = NoCode, !.left = -1]

NotWritten(v) == vpc[v] # "idle" /\ VerifyEnds(v) /\ doc' = doc

LEMMA UserSteps ==
    ASSUME TypeOK, Stages, Fresh, Next
    PROVE  \/ Tick
           \/ \E r \in Requests : \/ RegisterFind(r) \/ ResendFind(r) \/ SendMail(r)
                                  \/ StoresCode(r) \/ StoresNothing(r)
           \/ \E v \in Verifiers : Counted(v) \/ Confirmed(v) \/ NotWritten(v)
           \/ \E v \in Verifiers, code \in Mailed \cup {Wrong} : VerifyFind(v, code)
<1>1. ASSUME NEW r \in Requests, RegisterWrite(r) \/ ResendWrite(r), UNCHANGED doc
      PROVE  StoresNothing(r)
    BY <1>1 DEF RegisterWrite, ResendWrite, StoresNothing, OthersWait, step, TypeOK
<1>2. ASSUME NEW r \in Requests, RegisterWrite(r) \/ ResendWrite(r), ~UNCHANGED doc
      PROVE  StoresCode(r)
    BY <1>2, RegisterStores, ResendStores
<1>3. ASSUME NEW v \in Verifiers, VerifyCount(v) \/ VerifyConfirm(v)
      PROVE  Counted(v) \/ Confirmed(v) \/ NotWritten(v)
    BY <1>3 DEF VerifyCount, VerifyConfirm, Stages, TypeOK, Counted, Confirmed, NotWritten
<1> QED
    BY <1>1, <1>2, <1>3 DEF Next

-----------------------------------------------------------------------------
LEMMA StoredStep ==
    ASSUME TypeOK, Stages, Fresh, StoredCodeWasMailed, [Next]_vars
    PROVE  StoredCodeWasMailed'
<1>1. Mailed \subseteq Mailed'
    BY MailedStays
<1>2. SUFFICES ASSUME doc' # NoDoc PROVE doc'.code \in Mailed' \cup {NoCode}
    BY DEF StoredCodeWasMailed
<1>3. CASE doc' = doc
    BY <1>1, <1>2, <1>3 DEF StoredCodeWasMailed
<1>4. CASE Tick
    <2>1. doc \in User /\ doc' = [doc EXCEPT !.left = DownTo(@, -1), !.cool = DownTo(@, 0)]
        BY <1>2, <1>4 DEF Tick, TypeOK
    <2> QED BY <1>1, <2>1 DEF StoredCodeWasMailed, User
<1>5. ASSUME NEW r \in Requests, StoresCode(r) PROVE doc'.code \in Mailed' \cup {NoCode}
    BY <1>1, <1>5 DEF StoresCode, Stages
<1>6. ASSUME NEW v \in Verifiers, Counted(v) \/ Confirmed(v)
      PROVE  doc'.code \in Mailed' \cup {NoCode}
    BY <1>1, <1>6 DEF Counted, Confirmed, StoredCodeWasMailed, User
<1> QED BY <1>3, <1>4, <1>5, <1>6, UserSteps DEF vars, RegisterFind, ResendFind, SendMail,
      StoresNothing, NotWritten, VerifyFind

LEMMA AttemptsStep ==
    ASSUME TypeOK, Stages, Fresh, AttemptsBounded, [Next]_vars
    PROVE  AttemptsBounded'
<1> DEFINE n == Cardinality(InFlight)
           m == Cardinality(Verifiers)
<1>1. n \in Nat /\ n' \in Nat /\ m \in Nat /\ n' <= m /\ IsFiniteSet(InFlight)
    BY InFlightCount DEF InFlight
<1>2. SUFFICES ASSUME doc' # NoDoc PROVE doc'.attempts + n' <= MaxAttempts - 1 + m
    BY DEF AttemptsBounded
<1>3. CASE vpc' = vpc /\ (doc' = doc \/ Tick)
    <2>1. n' = n
        BY <1>3 DEF InFlight
    <2>2. doc # NoDoc /\ doc'.attempts = doc.attempts
        BY <1>2, <1>3 DEF Tick, TypeOK, User
    <2> QED BY <2>1, <2>2 DEF AttemptsBounded
<1>4. ASSUME NEW r \in Requests, StoresCode(r)
      PROVE  doc'.attempts + n' <= MaxAttempts - 1 + m
    <2>1. doc'.attempts = 0
        BY <1>4 DEF StoresCode
    <2> QED BY <1>1, <2>1
<1>5. ASSUME NEW v \in Verifiers, Counted(v)
      PROVE  doc'.attempts + n' <= MaxAttempts - 1 + m
    <2>1. v \in InFlight /\ InFlight' = InFlight \ {v}
        BY <1>5 DEF Counted, VerifyEnds, InFlight, TypeOK
    <2>2. n' = n - 1
        BY <1>1, <2>1, FS_RemoveElement
    <2>3. doc # NoDoc /\ doc.attempts \in Nat /\ doc'.attempts = doc.attempts + 1
        BY <1>5 DEF Counted, User
    <2> QED BY <1>1, <2>2, <2>3 DEF AttemptsBounded
<1>6. ASSUME NEW v \in Verifiers, Confirmed(v)
      PROVE  doc'.attempts + n' <= MaxAttempts - 1 + m
    <2>1. doc'.attempts = 0
        BY <1>6 DEF Confirmed, User
    <2> QED BY <1>1, <2>1
<1>7. ASSUME NEW v \in Verifiers, NotWritten(v)
      PROVE  doc'.attempts + n' <= MaxAttempts - 1 + m
    <2>1. InFlight' \subseteq InFlight
        BY <1>7 DEF NotWritten, VerifyEnds, InFlight, TypeOK
    <2>2. n' <= n
        BY <1>1, <2>1, FS_Subset
    <2>3. doc # NoDoc /\ doc' = doc /\ doc.attempts \in Nat
        BY <1>2, <1>7 DEF NotWritten, TypeOK, User
    <2> QED BY <1>1, <2>2, <2>3 DEF AttemptsBounded
<1>8. ASSUME NEW v \in Verifiers, NEW code \in Mailed \cup {Wrong}, VerifyFind(v, code)
      PROVE  doc'.attempts + n' <= MaxAttempts - 1 + m
    <2>1. doc' = doc /\ doc.attempts < MaxAttempts /\ doc.attempts \in Nat
        BY <1>8 DEF VerifyFind, canAttemptEmailVerification, TypeOK, User
    <2> QED BY <1>1, <2>1
<1> QED BY <1>3, <1>4, <1>5, <1>6, <1>7, <1>8, UserSteps DEF vars, RegisterFind, ResendFind,
      SendMail, StoresNothing, verifiers, Tick

LEMMA CooledStep ==
    ASSUME TypeOK, Stages, Fresh, Cooled, [Next]_vars
    PROVE  Cooled'
<1> SUFFICES ASSUME NEW r \in Resends, rpc'[r] = "mail"
             PROVE  doc'.cool = 0 \/ Cooldown - doc'.cool <= rage'[r] + HandlerLimit \/ ~InTime(rage'[r])
    BY DEF Cooled, InTime
<1>1. CASE ResendFind(r)
    BY <1>1 DEF ResendFind, step, TypeOK
<1>2. CASE rpc[r] = "mail"
    <2>1. doc \in User /\ rage[r] \in 0..(HandlerLimit + 1)
          /\ (doc.cool = 0 \/ Cooldown - doc.cool <= rage[r] + HandlerLimit \/ ~InTime(rage[r]))
        BY <1>2 DEF Cooled, Stages, TypeOK
    <2>2. CASE rage' = rage /\ doc' = doc
        BY <2>1, <2>2 DEF InTime
    <2>3. CASE Tick
        <3>1. rage'[r] = UpTo(rage[r], HandlerLimit + 1)
            BY <1>2, <2>3 DEF Tick
        <3>2. doc'.cool = DownTo(doc.cool, 0) /\ doc.cool \in 0..Cooldown
            BY <2>1, <2>3 DEF Tick, User
        <3> QED BY <2>1, <3>1, <3>2 DEF UpTo, DownTo, InTime
    <2>4. ASSUME NEW q \in Requests, StoresCode(q)
          PROVE  Cooldown - doc'.cool <= rage'[r] + HandlerLimit
        BY <2>1, <2>4 DEF StoresCode
    <2>5. ASSUME NEW v \in Verifiers, Counted(v) \/ Confirmed(v)
          PROVE  doc'.cool = doc.cool /\ rage' = rage
        BY <2>5 DEF Counted, Confirmed, VerifyEnds, requests, User
    <2> QED BY <2>1, <2>2, <2>3, <2>4, <2>5, UserSteps DEF InTime, vars, requests, RegisterFind,
          ResendFind, SendMail, StoresNothing, NotWritten, VerifyEnds, VerifyFind
<1>3. CASE rpc[r] # "mail"
    <2>1. ASSUME NEW q \in Requests,
                 RegisterFind(q) \/ SendMail(q) \/ StoresCode(q) \/ StoresNothing(q)
          PROVE  FALSE
        BY <1>3, <2>1 DEF RegisterFind, SendMail, StoresCode, StoresNothing, OthersWait, step, TypeOK
    <2>2. ASSUME NEW q \in Requests, ResendFind(q) PROVE ResendFind(r)
        BY <1>3, <2>2 DEF ResendFind, step, TypeOK
    <2> QED BY <1>1, <1>3, <2>1, <2>2, UserSteps DEF vars, requests, Tick, Counted, Confirmed,
          NotWritten, VerifyEnds, VerifyFind
<1> QED BY <1>2, <1>3

\* Ages grow together, and the stored code's life shrinks.
LEMMA FreshTick ==
    ASSUME TypeOK, Stages, Fresh, Tick
    PROVE  Fresh'
<1>1. \A c \in Codes : mailAge'[c] <= mailAge[c] + 1 /\ mailAge[c] \in Int
    BY DEF Tick, UpTo, TypeOK, Oldest
<1>2. Mailed \subseteq Mailed'
    BY MailedStays DEF Next
<1>3. ASSUME NEW r \in Requests, rpc'[r] = "write", InTime(rage'[r])
      PROVE  mailAge'[r] <= rage'[r]
    <2>1. rpc[r] = "write" /\ rage'[r] = UpTo(rage[r], HandlerLimit + 1)
          /\ rage[r] \in 0..(HandlerLimit + 1)
        BY <1>3 DEF Tick, TypeOK
    <2>2. InTime(rage[r]) /\ rage'[r] = rage[r] + 1
        BY <1>3, <2>1 DEF UpTo, InTime
    <2>3. mailAge[r] <= rage[r]
        BY <2>1, <2>2 DEF Fresh
    <2>4. mailAge'[r] <= mailAge[r] + 1 /\ mailAge[r] \in Int /\ mailAge'[r] \in Int
        BY <1>1, TypeStep DEF TypeOK, Next
    <2> QED BY <2>1, <2>2, <2>3, <2>4
<1>4. ASSUME doc' # NoDoc, doc'.code \in Codes, doc'.left >= 0
      PROVE  mailAge'[doc'.code] + doc'.left <= Lifetime + HandlerLimit
    <2>1. doc \in User /\ doc' = [doc EXCEPT !.left = DownTo(@, -1), !.cool = DownTo(@, 0)]
        BY <1>4 DEF Tick, TypeOK
    <2>2. doc'.code = doc.code /\ doc'.left = DownTo(doc.left, -1) /\ doc.left \in -1..Lifetime
        BY <2>1 DEF User
    <2>3. doc.left > 0 /\ doc'.left = doc.left - 1
        BY <1>4, <2>2 DEF DownTo
    <2>4. mailAge[doc.code] + doc.left <= Lifetime + HandlerLimit
        BY <1>4, <2>1, <2>2, <2>3 DEF Fresh
    <2>5. mailAge'[doc.code] <= mailAge[doc.code] + 1 /\ mailAge[doc.code] \in Int
          /\ mailAge'[doc.code] \in Int
        BY <1>1, <1>4, <2>2, TypeStep DEF TypeOK, Next
    <2> QED BY <2>2, <2>3, <2>4, <2>5
<1>5. ASSUME NEW v \in Verifiers, vpc'[v] = "confirm"
      PROVE  /\ vcode'[v] \in Mailed'
             /\ InTime(vage'[v]) => mailAge'[vcode'[v]] <= Lifetime + HandlerLimit + vage'[v]
    <2>1. vpc[v] = "confirm" /\ vcode'[v] = vcode[v] /\ vcode[v] \in Mailed
        BY <1>5 DEF Tick, Fresh
    <2>2. vage'[v] = UpTo(vage[v], HandlerLimit + 1) /\ vage[v] \in 0..(HandlerLimit + 1)
        BY <2>1 DEF Tick, TypeOK
    <2>3. ASSUME InTime(vage'[v])
          PROVE  mailAge'[vcode'[v]] <= Lifetime + HandlerLimit + vage'[v]
        <3>1. InTime(vage[v]) /\ vage'[v] = vage[v] + 1
            BY <2>2, <2>3 DEF UpTo, InTime
        <3>2. mailAge[vcode[v]] <= Lifetime + HandlerLimit + vage[v]
            BY <2>1, <3>1 DEF Fresh
        <3>3. mailAge'[vcode[v]] <= mailAge[vcode[v]] + 1 /\ mailAge[vcode[v]] \in Int
              /\ mailAge'[vcode[v]] \in Int
            BY <1>1, <2>1, TypeStep DEF Mailed, TypeOK, Next
        <3> QED BY <2>1, <2>2, <3>1, <3>2, <3>3
    <2> QED BY <1>2, <2>1, <2>3
<1> QED BY <1>3, <1>4, <1>5 DEF Fresh, InTime

LEMMA FreshStep ==
    ASSUME TypeOK, Stages, StoredCodeWasMailed, Fresh, [Next]_vars
    PROVE  Fresh'
<1> USE DEF TypeOK
<1>1. CASE UNCHANGED <<doc, rage, vpc, vcode, vage, mailAge>>
           /\ \A r \in Requests : rpc'[r] = "write" => rpc[r] = "write"
    BY <1>1 DEF Fresh, InTime, Mailed
<1>2. CASE Tick
    BY <1>2, FreshTick
<1>3. ASSUME NEW r \in Requests, SendMail(r) PROVE Fresh'
    <2>1. /\ UNCHANGED <<doc, rage, vpc, vcode, vage>>
          /\ \A q \in Requests \ {r} : rpc'[q] = rpc[q] /\ mailAge'[q] = mailAge[q]
          /\ mailAge'[r] = mailAge[r] \/ mailAge'[r] = 0
          /\ rpc'[r] = "write" => mailAge'[r] = 0
        BY <1>3 DEF SendMail, step, verifiers
    <2>2. Mailed \subseteq Mailed'
        BY <2>1 DEF Mailed
    <2>3. \A q \in Requests : rpc'[q] = "write" /\ InTime(rage[q]) => mailAge'[q] <= rage[q]
        BY <2>1 DEF Fresh
    <2>4. doc # NoDoc /\ doc.code \in Codes /\ doc.left >= 0 =>
              mailAge'[doc.code] + doc.left <= Lifetime + HandlerLimit
        BY <2>1 DEF Fresh, User
    <2>5. \A v \in Verifiers : vpc[v] = "confirm" /\ InTime(vage[v]) =>
              mailAge'[vcode[v]] <= Lifetime + HandlerLimit + vage[v]
        BY <2>1 DEF Fresh, Mailed
    <2> QED BY <2>1, <2>2, <2>3, <2>4, <2>5 DEF Fresh, InTime
<1>4. ASSUME NEW r \in Requests, StoresCode(r) PROVE Fresh'
    <2>1. /\ UNCHANGED <<rage, vpc, vcode, vage, mailAge>> /\ mailAge[r] <= HandlerLimit
          /\ doc'.code = r /\ doc'.left <= Lifetime
          /\ \A q \in Requests : rpc'[q] = "write" => rpc[q] = "write"
        BY <1>4 DEF StoresCode, OthersWait, verifiers, Fresh, InTime
    <2>2. mailAge[r] \in Int /\ doc'.left \in Int
        BY <1>4 DEF StoresCode, User
    <2>3. mailAge'[doc'.code] + doc'.left <= Lifetime + HandlerLimit
        BY <2>1, <2>2
    <2> QED BY <2>1, <2>3 DEF Fresh, InTime, Mailed
<1>5. ASSUME NEW v \in Verifiers, Counted(v) \/ Confirmed(v) \/ NotWritten(v) PROVE Fresh'
    <2>1. /\ UNCHANGED <<rpc, rage, mailAge>> /\ vpc'[v] # "confirm"
          /\ \A w \in Verifiers \ {v} : vpc'[w] = vpc[w] /\ vcode'[w] = vcode[w] /\ vage'[w] = vage[w]
        BY <1>5 DEF Counted, Confirmed, NotWritten, VerifyEnds, requests
    <2>2. doc' = doc \/ doc'.code = NoCode \/ (doc \in User /\ doc'.code = doc.code /\ doc'.left = doc.left)
        BY <1>5 DEF Counted, Confirmed, NotWritten, User
    <2>3. doc' # NoDoc /\ doc'.code \in Codes /\ doc'.left >= 0 =>
              mailAge'[doc'.code] + doc'.left <= Lifetime + HandlerLimit
        BY <2>1, <2>2 DEF Fresh
    <2>4. \A w \in Verifiers : vpc'[w] = "confirm" =>
              /\ vcode'[w] \in Mailed'
              /\ InTime(vage'[w]) => mailAge'[vcode'[w]] <= Lifetime + HandlerLimit + vage'[w]
        BY <2>1 DEF Fresh, Mailed
    <2> QED BY <2>1, <2>3, <2>4 DEF Fresh, InTime
<1>6. ASSUME NEW v \in Verifiers, NEW code \in Mailed \cup {Wrong}, VerifyFind(v, code)
      PROVE  Fresh'
    <2>1. /\ UNCHANGED <<doc, rpc, rage, mailAge>> /\ vcode'[v] = code /\ vage'[v] = 0
          /\ \A w \in Verifiers \ {v} : vpc'[w] = vpc[w] /\ vcode'[w] = vcode[w] /\ vage'[w] = vage[w]
        BY <1>6 DEF VerifyFind, requests
    <2>2. ASSUME vpc'[v] = "confirm"
          PROVE  code \in Mailed /\ mailAge[code] <= Lifetime + HandlerLimit
        <3>1. code = doc.code /\ doc # NoDoc /\ doc.code # NoCode /\ doc.left \in Nat
            BY <1>6, <2>2 DEF VerifyFind, canAttemptEmailVerification, User
        <3>2. code \in Mailed /\ code \in Codes
            BY <3>1 DEF StoredCodeWasMailed, Mailed
        <3>3. mailAge[code] + doc.left <= Lifetime + HandlerLimit
            BY <3>1, <3>2 DEF Fresh
        <3> QED BY <3>1, <3>2, <3>3
    <2>3. \A w \in Verifiers : vpc'[w] = "confirm" =>
              /\ vcode'[w] \in Mailed'
              /\ InTime(vage'[w]) => mailAge'[vcode'[w]] <= Lifetime + HandlerLimit + vage'[w]
        BY <2>1, <2>2 DEF Fresh, Mailed
    <2> QED BY <2>1, <2>3 DEF Fresh, InTime
<1>7. ASSUME NEW r \in Requests, RegisterFind(r) \/ ResendFind(r) \/ StoresNothing(r) PROVE Fresh'
    BY <1>1, <1>7 DEF RegisterFind, ResendFind, StoresNothing, OthersWait, step, verifiers
<1> QED BY <1>1, <1>2, <1>3, <1>4, <1>5, <1>6, <1>7, UserSteps DEF vars, requests, verifiers

-----------------------------------------------------------------------------
\* The state of one address keeps its type and its bounds.
THEOREM CodesInvariant == Spec => []CodesInv
<1>1. CodesInv /\ [Next]_vars => CodesInv'
    BY TypeStep, StageStep, StoredStep, AttemptsStep, FreshStep, CooledStep DEF CodesInv
<1> QED BY <1>1, InitCodes, PTL DEF Spec

\* A stored code was mailed: no registration or resend stores before it mails.
THEOREM StoredCodesAreMailed == Spec => []StoredCodeWasMailed
<1>1. CodesInv => StoredCodeWasMailed
    BY DEF CodesInv
<1> QED BY <1>1, CodesInvariant, PTL

\* Wrong answers overrun the limit by no more than the requests at a time.
THEOREM AttemptsAreBounded == Spec => []AttemptsBounded
<1>1. CodesInv => AttemptsBounded
    BY DEF CodesInv
<1> QED BY <1>1, CodesInvariant, PTL

\* Who may log in may log in for good.
THEOREM LoginIsForGood == Spec => LoginStays
<1> DEFINE Step ==
        doc # NoDoc => /\ doc' # NoDoc
                       /\ isEmailVerifiedForLogin(doc) => isEmailVerifiedForLogin(doc')
                       /\ isEmailExplicitlyVerified(doc) => isEmailExplicitlyVerified(doc')
<1>1. CodesInv /\ [Next]_vars => [Step]_vars
    <2> SUFFICES ASSUME CodesInv, Next, doc # NoDoc, doc' # doc
                 PROVE  /\ doc' # NoDoc
                        /\ doc'.verified = doc.verified \/ doc'.verified = "yes"
        BY DEF isEmailVerifiedForLogin, isEmailExplicitlyVerified
    <2>1. doc' # NoDoc /\ doc \in User
        BY MailedStays DEF CodesInv, TypeOK
    <2>2. CASE Tick
        BY <2>1, <2>2 DEF Tick, User
    <2>3. ASSUME NEW r \in Requests, StoresCode(r) PROVE doc'.verified = doc.verified
        BY <2>3 DEF StoresCode
    <2>4. ASSUME NEW v \in Verifiers, Counted(v) \/ Confirmed(v)
          PROVE  doc'.verified \in {doc.verified, "yes"}
        BY <2>4 DEF Counted, Confirmed, User
    <2> QED BY <2>1, <2>2, <2>3, <2>4, UserSteps DEF CodesInv, RegisterFind, ResendFind,
          SendMail, StoresNothing, NotWritten, VerifyFind
<1> QED BY <1>1, CodesInvariant, PTL DEF Spec, LoginStays

\* An account is verified by a code mailed no longer ago than its life and the
\* time of two handlers.
THEOREM ConfirmationIsFresh == Spec => ConfirmedByFreshMail
<1> DEFINE Step ==
        doc # NoDoc /\ ~isEmailExplicitlyVerified(doc) /\ isEmailExplicitlyVerified(doc') =>
            \E v \in Verifiers : vpc[v] = "confirm" /\ vcode[v] \in Mailed
                                 /\ mailAge[vcode[v]] <= Lifetime + 2 * HandlerLimit
<1>1. CodesInv /\ [Next]_vars => [Step]_vars
    <2> SUFFICES ASSUME CodesInv, Next, doc # NoDoc, doc.verified # "yes", doc'.verified = "yes"
                 PROVE  \E v \in Verifiers : vpc[v] = "confirm" /\ vcode[v] \in Mailed
                                 /\ mailAge[vcode[v]] <= Lifetime + 2 * HandlerLimit
        BY DEF isEmailExplicitlyVerified
    <2>1. doc \in User
        BY DEF CodesInv, TypeOK
    <2>2. ~Tick
        BY <2>1 DEF Tick, User
    <2>3. \A r \in Requests : ~StoresCode(r)
        BY DEF StoresCode
    <2>4. \A v \in Verifiers : ~Counted(v)
        BY DEF Counted, User
    <2>5. PICK v \in Verifiers : Confirmed(v)
        BY <2>2, <2>3, <2>4, UserSteps DEF CodesInv, RegisterFind, ResendFind,
          SendMail, StoresNothing, NotWritten, VerifyFind
    <2>6. vpc[v] = "confirm" /\ InTime(vage[v]) /\ vage[v] \in Nat
        BY <2>5 DEF Confirmed, CodesInv, TypeOK
    <2>7. vcode[v] \in Mailed /\ mailAge[vcode[v]] <= Lifetime + HandlerLimit + vage[v]
        BY <2>6 DEF CodesInv, Fresh
    <2>8. mailAge[vcode[v]] \in Int
        BY <2>7 DEF CodesInv, TypeOK, Mailed
    <2> QED BY <2>6, <2>7, <2>8 DEF InTime
<1> QED BY <1>1, CodesInvariant, PTL DEF Spec, ConfirmedByFreshMail

\* A resend within the minute of a stored code had read the user before it.
THEOREM CooldownIsExplained == Spec => CooldownExplained
<1> DEFINE Step ==
        \A r \in Resends : r \notin Mailed /\ mailAge'[r] >= 0 =>
          doc.cool = 0 \/ Cooldown - doc.cool <= rage[r] + HandlerLimit \/ ~InTime(rage[r])
<1>1. CodesInv /\ [Next]_vars => [Step]_vars
    <2> SUFFICES ASSUME CodesInv, Next, NEW r \in Resends, r \notin Mailed, mailAge'[r] >= 0
                 PROVE  rpc[r] = "mail"
        BY DEF CodesInv, Cooled
    <2>1. mailAge'[r] # mailAge[r] /\ mailAge[r] = -1
        BY DEF Mailed, CodesInv, TypeOK
    <2>2. ~Tick
        BY <2>1 DEF Tick
    <2>3. PICK q \in Requests : SendMail(q)
        BY <2>1, <2>2, UserSteps DEF CodesInv, RegisterFind, ResendFind, StoresCode,
          StoresNothing, Counted, Confirmed, NotWritten, VerifyEnds, VerifyFind
    <2>4. q = r
        BY <2>1, <2>3 DEF SendMail, CodesInv, TypeOK
    <2> QED BY <2>3, <2>4 DEF SendMail, step
<1> QED BY <1>1, CodesInvariant, PTL DEF Spec, CooldownExplained
=============================================================================
