-------------------------- MODULE AlertLogsProofs --------------------------
(***************************************************************************)
(* Theorems about AlertLogs for any number of items, checks, sends and     *)
(* failures, however requests overlap: what the mails say, and that only   *)
(* two checks about to log one item, or two sends with one log in their    *)
(* lists, account for a second log, an unexplained mail or a log undone.   *)
(***************************************************************************)
EXTENDS AlertLogs, TLAPS

Mailing(s) == spc[s] \in {"mark_sent", "mark_failed"}

\* Who is about to write to a log has one, and a send never has one that does
\* not exist: its lists come from a query, and no log is ever removed.
HandInv ==
    /\ \A c \in Checks : cpc[c] = "insert" => citem[c] \in Items
    /\ \A s \in Sends : Mailing(s) => scur[s] \in Logs
    /\ \A l \in Logs : status[l] = "none" =>
          /\ mails[l] = 0
          /\ \A s \in Sends : l \notin slogs[s] \cup sready[s] /\ scur[s] # l

\* What markAlertLogEmailSent is about to record did happen.
MailInv ==
    /\ \A s \in Sends : spc[s] = "mark_sent" => mails[scur[s]] > 0
    /\ SentWasMailed

TypeInv == TypeOK /\ HandInv /\ MailInv

\* What updateAlertLogEmailStatus and InsertOne do to the logs, error or not.
LEMMA SetEffect ==
    ASSUME TypeOK, NEW l \in Logs, NEW to \in Statuses, Set(l, to)
    PROVE  /\ status' \in [Logs -> Statuses]
           /\ failures' \in 0..MaxFailures /\ failures <= failures'
           /\ \A k \in Logs : k # l => status'[k] = status[k]
           /\ status'[l] \in {status[l], to}
           /\ failures' = failures => status'[l] = to
  BY AlertConstants DEF Set, Fail, TypeOK

\* Nothing is logged or mailed before the first request.
LEMMA TypeInvInitial == Init => TypeInv
  BY AlertConstants DEF Init, TypeInv, TypeOK, HandInv, MailInv, SentWasMailed, Mailing, Statuses

\* Every step keeps TypeInv, however the requests overlap.
LEMMA TypeInvStep == TypeInv /\ [Next]_vars => TypeInv'
<1> SUFFICES ASSUME TypeInv, [Next]_vars PROVE TypeInv'
    OBVIOUS
<1> USE AlertConstants DEF TypeInv, Mailing
<1>1. CASE GivesUp
  <2>1. TypeOK'
    BY <1>1 DEF GivesUp, Fail, TypeOK, checkVars, sendVars
  <2>2. HandInv' /\ MailInv'
    BY <1>1 DEF GivesUp, Fail, TypeOK, HandInv, MailInv, SentWasMailed, checkVars, sendVars
  <2> QED BY <2>1, <2>2
<1>2. ASSUME NEW c \in Checks, InsertLog(c)
      PROVE  TypeInv'
  <2>1. PICK l \in Logs : l = <<c, citem[c]>>
    BY <1>2 DEF InsertLog, HandInv, Logs
  <2>2. Set(l, "pending_email")
    BY <1>2, <2>1 DEF InsertLog
  <2>3. TypeOK'
    BY <1>2, <2>2, SetEffect DEF InsertLog, TypeOK, Statuses, sendVars
  <2>4. \A k \in Logs : status'[k] = status[k] \/ status'[k] = "pending_email"
    BY <2>2, SetEffect DEF Statuses
  <2>5. HandInv' /\ MailInv'
    BY <1>2, <2>4 DEF InsertLog, TypeOK, HandInv, MailInv, SentWasMailed, sendVars
  <2> QED BY <2>3, <2>5
<1>3. ASSUME NEW c \in Checks, NEW i \in Items,
             NotTriggered(c, i) \/ FindLog(c, i)
      PROVE  TypeInv'
  <2>1. TypeOK'
    BY <1>3 DEF NotTriggered, FindLog, Fail, TypeOK, sendVars
  <2>2. HandInv' /\ MailInv'
    BY <1>3 DEF NotTriggered, FindLog, TypeOK, HandInv, MailInv, SentWasMailed, sendVars
  <2> QED BY <2>1, <2>2
<1>4. ASSUME NEW c \in Checks, FindWatchlistItems(c) \/ CheckEnds(c)
      PROVE  TypeInv'
  <2>1. TypeOK'
    BY <1>4 DEF FindWatchlistItems, CheckEnds, Fail, TypeOK, sendVars
  <2>2. HandInv' /\ MailInv'
    BY <1>4 DEF FindWatchlistItems, CheckEnds, TypeOK, HandInv, MailInv, SentWasMailed, sendVars
  <2> QED BY <2>1, <2>2
<1>5. ASSUME NEW s \in Sends, FindAlertLogs(s) \/ StartSending(s) \/ SendEnds(s)
      PROVE  TypeInv'
  <2>1. TypeOK'
    BY <1>5 DEF FindAlertLogs, StartSending, SendEnds, TypeOK, checkVars
  <2>2. HandInv' /\ MailInv'
    BY <1>5 DEF FindAlertLogs, StartSending, SendEnds, TypeOK, HandInv, MailInv, SentWasMailed,
                Due, checkVars
  <2> QED BY <2>1, <2>2
<1>6. ASSUME NEW s \in Sends, NEW l \in Logs,
             markAlertLogEmailReady(s, l) \/ markAlertLogSkippedNoEmail(s, l)
      PROVE  TypeInv'
  <2>1. PICK to \in {"email_ready", "skipped_no_email"} : Set(l, to)
    BY <1>6 DEF markAlertLogEmailReady, markAlertLogSkippedNoEmail
  <2>2. \A k \in Logs : status'[k] \in {status[k], to}
    BY <2>1, SetEffect DEF Statuses
  <2>3. status[l] # "none" /\ \A k \in Logs : k # l => status'[k] = status[k]
    BY <1>6, <2>1, SetEffect
       DEF markAlertLogEmailReady, markAlertLogSkippedNoEmail, HandInv, Statuses
  <2>4. TypeOK'
    BY <1>6, <2>1, SetEffect
       DEF markAlertLogEmailReady, markAlertLogSkippedNoEmail, TypeOK, Statuses, checkVars
  <2>5. HandInv' /\ MailInv'
    BY <1>6, <2>2, <2>3
       DEF markAlertLogEmailReady, markAlertLogSkippedNoEmail, TypeOK, HandInv, MailInv,
           SentWasMailed, checkVars
  <2> QED BY <2>4, <2>5
<1>7. ASSUME NEW s \in Sends, NEW l \in Logs, AlreadyReady(s, l) \/ sendAlertEmailWithResend(s, l)
      PROVE  TypeInv'
  <2>1. TypeOK'
    BY <1>7 DEF AlreadyReady, sendAlertEmailWithResend, TypeOK, checkVars
  <2>2. HandInv' /\ MailInv'
    BY <1>7 DEF AlreadyReady, sendAlertEmailWithResend, TypeOK, HandInv, MailInv, SentWasMailed,
                checkVars
  <2> QED BY <2>1, <2>2
<1>8. ASSUME NEW s \in Sends, markAlertLogEmailSent(s) \/ markAlertLogEmailFailed(s)
      PROVE  TypeInv'
  <2>1. scur[s] \in Logs /\ status[scur[s]] # "none"
    BY <1>8 DEF markAlertLogEmailSent, markAlertLogEmailFailed, Conclude, HandInv
  <2>2. /\ status' \in [Logs -> Statuses] /\ failures' \in 0..MaxFailures
        /\ \A k \in Logs : k # scur[s] => status'[k] = status[k]
        /\ \/ status'[scur[s]] \in {status[scur[s]], "email_failed"}
           \/ status'[scur[s]] = "email_sent" /\ spc[s] = "mark_sent"
    <3>1. CASE Set(scur[s], "email_sent") /\ spc[s] = "mark_sent"
      BY <3>1, <2>1, SetEffect DEF Statuses
    <3>2. CASE Set(scur[s], "email_failed")
      BY <3>2, <2>1, SetEffect DEF Statuses
    <3>3. CASE UNCHANGED status /\ (UNCHANGED failures \/ Fail)
      BY <3>3, <2>1 DEF Fail, TypeOK
    <3> QED BY <1>8, <3>1, <3>2, <3>3
            DEF markAlertLogEmailSent, markAlertLogEmailFailed, Conclude
  <2>3. /\ spc' = [spc EXCEPT ![s] = "send"] /\ scur' = [scur EXCEPT ![s] = NoLog]
        /\ UNCHANGED <<checkVars, slogs, sready, swas, mails, raced, shared>>
    BY <1>8 DEF markAlertLogEmailSent, markAlertLogEmailFailed, Conclude
  <2>4. TypeOK'
    BY <2>2, <2>3 DEF TypeOK, checkVars
  <2>5. HandInv' /\ MailInv'
    BY <2>1, <2>2, <2>3 DEF TypeOK, HandInv, MailInv, SentWasMailed, checkVars
  <2> QED BY <2>4, <2>5
<1>9. CASE UNCHANGED vars
    BY <1>9 DEF vars, checkVars, sendVars, TypeOK, HandInv, MailInv, SentWasMailed
<1> QED BY <1>1, <1>2, <1>3, <1>4, <1>5, <1>6, <1>7, <1>8, <1>9 DEF Next

\* A log says email_sent only if the provider accepted a mail for it, however
\* requests overlap, fail and give up.
THEOREM SentMailed == Spec => [](TypeOK /\ SentWasMailed)
<1>1. TypeInv => TypeOK /\ SentWasMailed
    BY DEF TypeInv, MailInv
<1> QED BY <1>1, TypeInvInitial, TypeInvStep, PTL DEF Spec

-----------------------------------------------------------------------------
(* The checks                                                              *)

\* A check looks at an item once: what it may still insert is not there.
OwnInv ==
    \A c \in Checks, i \in Items :
        /\ Inserting(c, i) => i \notin citems[c]
        /\ \/ cpc[c] = "new" \/ Inserting(c, i)
           \/ cpc[c] # "done" /\ i \in citems[c]
           => status[<<c, i>>] = "none"

\* A send never creates a log: it has those its query found.
LEMMA SendsCreateNothing ==
    ASSUME TypeInv, NEW s \in Sends, NEW l \in Logs, NEW to \in Statuses \ {"none"},
           l \in slogs[s] \cup sready[s] \/ scur[s] = l, Set(l, to)
    PROVE  \A k \in Logs : status'[k] = "none" <=> status[k] = "none"
  BY SetEffect DEF TypeInv, HandInv

\* An item has one log, and nobody is about to add one to it.
CheckInv ==
    \A i \in Items \ raced :
        /\ \A c, d \in Checks : Inserting(c, i) /\ Inserting(d, i) => c = d
        /\ \A c, d \in Checks :
              status[<<c, i>>] # "none" /\ status[<<d, i>>] # "none" => c = d
        /\ \A c \in Checks : Inserting(c, i) => ~Logged(i)

LoggedOnce == OwnInv /\ CheckInv

LEMMA LoggedOnceInitial == Init => LoggedOnce
  BY DEF Init, LoggedOnce, OwnInv, CheckInv, Inserting, Logged, Logs

\* A step that creates no log and begins no insert.
LEMMA ChecksRest ==
    ASSUME TypeInv, LoggedOnce, raced' = raced,
           \A c \in Checks, i \in Items : Inserting(c, i)' => Inserting(c, i),
           \A c \in Checks : cpc'[c] = "new" => cpc[c] = "new",
           \A c \in Checks : cpc'[c] # "done" =>
               cpc[c] # "done" /\ (citems'[c] \subseteq citems[c] \/ cpc[c] = "new"),
           \A l \in Logs : status'[l] = "none" <=> status[l] = "none"
    PROVE  LoggedOnce'
<1>1. \A c \in Checks, i \in Items : status'[<<c, i>>] = "none" <=> status[<<c, i>>] = "none"
    BY DEF Logs
<1>2. \A c \in Checks, i \in Items : Inserting(c, i) /\ Inserting(c, i)' => i \notin citems'[c]
    BY DEF Inserting, LoggedOnce, OwnInv
<1>3. OwnInv'
    BY <1>1, <1>2 DEF LoggedOnce, OwnInv
<1>4. CheckInv'
    BY <1>1 DEF LoggedOnce, CheckInv, Logged
<1> QED BY <1>3, <1>4 DEF LoggedOnce

LEMMA LoggedOnceStep == TypeInv /\ LoggedOnce /\ [Next]_vars => LoggedOnce'
<1> SUFFICES ASSUME TypeInv, LoggedOnce, [Next]_vars PROVE LoggedOnce'
    OBVIOUS
<1> USE AlertConstants
<1>1. ASSUME NEW c \in Checks, FindWatchlistItems(c) \/ CheckEnds(c)
      PROVE  LoggedOnce'
    BY <1>1, ChecksRest DEF FindWatchlistItems, CheckEnds, Inserting, TypeInv, TypeOK
<1>2. ASSUME NEW c \in Checks, NEW i \in Items, NotTriggered(c, i) \/ FindLog(c, i)
      PROVE  LoggedOnce'
  <2>1. /\ cpc[c] = "items" /\ i \in citems[c] /\ UNCHANGED status
        /\ citems' = [citems EXCEPT ![c] = @ \ {i}]
    BY <1>2 DEF NotTriggered, FindLog
  <2>2. CASE UNCHANGED <<cpc, citem, raced>>
    BY <2>1, <2>2, ChecksRest DEF Inserting, TypeInv, TypeOK
  <2>3. CASE /\ FindLog(c, i) /\ ~Logged(i)
             /\ cpc' = [cpc EXCEPT ![c] = "insert"] /\ citem' = [citem EXCEPT ![c] = i]
             /\ raced' = IF \E d \in Checks : Inserting(d, i) THEN raced \cup {i} ELSE raced
    <3>1. \A d \in Checks, j \in Items :
              Inserting(d, j)' <=> (d = c /\ j = i) \/ (d # c /\ Inserting(d, j))
      BY <2>1, <2>3 DEF Inserting, TypeInv, TypeOK
    <3>2. ~Inserting(c, i) /\ \A d \in Checks : status[<<d, i>>] = "none"
      BY <2>1, <2>3 DEF Inserting, Logged
    <3>3. OwnInv'
      <4>1. \A d \in Checks : citems'[d] \subseteq citems[d] /\ i \notin citems'[c]
        BY <2>1 DEF TypeInv, TypeOK
      <4>2. \A d \in Checks : cpc'[d] = "new" => cpc[d] = "new"
        BY <2>3 DEF TypeInv, TypeOK
      <4>3. \A d \in Checks : cpc'[d] # "done" => cpc[d] # "done"
        BY <2>1, <2>3 DEF TypeInv, TypeOK
      <4>4. ASSUME NEW d \in Checks, NEW j \in Items, Inserting(d, j)'
            PROVE  j \notin citems'[d] /\ status[<<d, j>>] = "none"
        BY <3>1, <3>2, <4>1, <4>4 DEF LoggedOnce, OwnInv
      <4>5. ASSUME NEW d \in Checks, NEW j \in Items,
                   cpc'[d] = "new" \/ (cpc'[d] # "done" /\ j \in citems'[d])
            PROVE  status[<<d, j>>] = "none"
        BY <4>1, <4>2, <4>3, <4>5 DEF LoggedOnce, OwnInv
      <4> QED BY <2>1, <4>4, <4>5 DEF OwnInv
    <3>4. CheckInv'
      <4> SUFFICES ASSUME NEW j \in Items \ raced'
                   PROVE  /\ \A d, e \in Checks : Inserting(d, j)' /\ Inserting(e, j)' => d = e
                          /\ \A d, e \in Checks :
                                status[<<d, j>>] # "none" /\ status[<<e, j>>] # "none" => d = e
                          /\ \A d \in Checks : Inserting(d, j)' => ~Logged(j)
        BY <2>1 DEF CheckInv, Logged
      <4>1. j \notin raced /\ (j = i => \A d \in Checks : ~Inserting(d, i))
        BY <2>3
      <4> QED BY <2>3, <3>1, <4>1 DEF LoggedOnce, CheckInv
    <3> QED BY <3>3, <3>4 DEF LoggedOnce
  <2> QED BY <1>2, <2>2, <2>3 DEF NotTriggered, FindLog
<1>3. ASSUME NEW c \in Checks, InsertLog(c)
      PROVE  LoggedOnce'
  <2>1. PICK i \in Items : i = citem[c] /\ <<c, i>> \in Logs /\ Inserting(c, i)
    BY <1>3 DEF InsertLog, TypeInv, HandInv, Logs, Inserting
  <2>2. \A d \in Checks, j \in Items :
            <<d, j>> # <<c, i>> => status'[<<d, j>>] = status[<<d, j>>]
    BY <1>3, <2>1, SetEffect DEF InsertLog, TypeInv, Logs, Statuses
  <2>3. \A d \in Checks, j \in Items : Inserting(d, j)' <=> d # c /\ Inserting(d, j)
    BY <1>3, <2>1 DEF InsertLog, Inserting, TypeInv, TypeOK
  <2>4. UNCHANGED <<citems, raced>> /\ \A d \in Checks :
            (cpc'[d] = "new" => cpc[d] = "new" /\ d # c) /\ (cpc'[d] # "done" => cpc[d] # "done")
    BY <1>3 DEF InsertLog, TypeInv, TypeOK
  <2>5. OwnInv'
    <3>1. \A d \in Checks, j \in Items : Inserting(d, j)' => j \notin citems'[d]
      BY <2>3, <2>4 DEF LoggedOnce, OwnInv
    <3>2. ASSUME NEW d \in Checks, NEW j \in Items,
                 \/ cpc'[d] = "new" \/ Inserting(d, j)'
                 \/ cpc'[d] # "done" /\ j \in citems'[d]
          PROVE  status'[<<d, j>>] = "none"
      <4>1. status[<<d, j>>] = "none"
        BY <2>3, <2>4, <3>2 DEF LoggedOnce, OwnInv
      <4>2. <<d, j>> # <<c, i>>
        BY <2>1, <2>3, <2>4, <3>2 DEF LoggedOnce, OwnInv
      <4> QED BY <2>2, <4>1, <4>2
    <3> QED BY <3>1, <3>2 DEF OwnInv
  <2>6. CheckInv'
    <3> SUFFICES ASSUME NEW j \in Items \ raced
                 PROVE  /\ \A d, e \in Checks : Inserting(d, j)' /\ Inserting(e, j)' => d = e
                        /\ \A d, e \in Checks :
                              status'[<<d, j>>] # "none" /\ status'[<<e, j>>] # "none" => d = e
                        /\ \A d \in Checks : Inserting(d, j)' => ~Logged(j)'
      BY <2>4 DEF CheckInv
    <3>1. CASE j # i
      BY <2>2, <2>3, <3>1 DEF LoggedOnce, CheckInv, Logged
    <3>2. CASE j = i
      <4>1. \A d \in Checks : status[<<d, i>>] = "none" /\ ~Inserting(d, i)'
        BY <2>1, <2>3, <3>2 DEF LoggedOnce, CheckInv, Logged
      <4> QED BY <2>2, <3>2, <4>1
    <3> QED BY <3>1, <3>2
  <2> QED BY <2>5, <2>6 DEF LoggedOnce
<1>4. CASE GivesUp
    BY <1>4, ChecksRest DEF GivesUp, Inserting, TypeInv, TypeOK, checkVars
<1>5. ASSUME NEW s \in Sends, FindAlertLogs(s) \/ StartSending(s) \/ SendEnds(s)
      PROVE  LoggedOnce'
    BY <1>5, ChecksRest DEF Inserting, FindAlertLogs, StartSending, SendEnds, checkVars
<1>6. ASSUME NEW s \in Sends, NEW l \in Logs, AlreadyReady(s, l) \/ sendAlertEmailWithResend(s, l)
      PROVE  LoggedOnce'
    BY <1>6, ChecksRest DEF Inserting, AlreadyReady, sendAlertEmailWithResend, checkVars
<1>7. ASSUME NEW s \in Sends, NEW l \in Logs,
             markAlertLogEmailReady(s, l) \/ markAlertLogSkippedNoEmail(s, l)
      PROVE  LoggedOnce'
    BY <1>7, SendsCreateNothing, ChecksRest
       DEF Inserting, markAlertLogEmailReady, markAlertLogSkippedNoEmail, Statuses, checkVars
<1>8. ASSUME NEW s \in Sends, markAlertLogEmailSent(s) \/ markAlertLogEmailFailed(s)
      PROVE  LoggedOnce'
  <2>1. scur[s] \in Logs
    BY <1>8 DEF markAlertLogEmailSent, markAlertLogEmailFailed, Conclude, TypeInv, HandInv, Mailing
  <2>2. \A k \in Logs : status'[k] = "none" <=> status[k] = "none"
    BY <1>8, <2>1, SendsCreateNothing
       DEF markAlertLogEmailSent, markAlertLogEmailFailed, Conclude, Statuses
  <2> QED BY <1>8, <2>2, ChecksRest
          DEF Inserting, markAlertLogEmailSent, markAlertLogEmailFailed, Conclude, checkVars
<1>9. CASE UNCHANGED vars
    BY <1>9, ChecksRest DEF Inserting, vars, checkVars
<1> QED BY <1>1, <1>2, <1>3, <1>4, <1>5, <1>6, <1>7, <1>8, <1>9 DEF Next

\* Two logs of one alert come from two checks that were both about to insert
\* it, and from nothing else.
THEOREM DuplicatesAreExplained == Spec => []DuplicateLogsExplained
<1>1. LoggedOnce => DuplicateLogsExplained
    BY DEF LoggedOnce, CheckInv, DuplicateLogsExplained
<1> QED BY <1>1, TypeInvInitial, TypeInvStep, LoggedOnceInitial, LoggedOnceStep, PTL DEF Spec

-----------------------------------------------------------------------------
(* The sends                                                               *)

\* A send has a log in one list at a time and mails one log at a time.
ListInv ==
    \A s \in Sends :
        /\ spc[s] = "new" => sready[s] = {} /\ scur[s] = NoLog
        /\ Sending(s) =>
              /\ spc[s] = "prepare" \/ slogs[s] = {}
              /\ slogs[s] \cap sready[s] = {} /\ scur[s] \notin sready[s]
              /\ scur[s] # NoLog => Mailing(s)

\* A log that one send has to itself: the send knows its status, and each of its
\* mails was followed by a failure, except the one about to be recorded.
AloneWith(l) ==
    /\ \A s, r \in Sends : Holds(s, l) /\ Holds(r, l) => s = r
    /\ \A s \in Sends : Sending(s) =>
          /\ l \in slogs[s] => status[l] \in Due
          /\ l \in slogs[s] \cap swas[s] => status[l] = "email_ready"
          /\ l \in sready[s] \/ scur[s] = l => status[l] = "email_ready"
    /\ mails[l] <= 1 + failures
    /\ status[l] \in Due /\ (\A s \in Sends : Sending(s) => scur[s] # l) => mails[l] <= failures

SendInv == ListInv /\ \A l \in Logs \ shared : AloneWith(l)

LEMMA SendInvInitial == Init => SendInv
  BY AlertConstants
     DEF Init, SendInv, ListInv, AloneWith, Holds, Sending, Mailing, Due, Logs

\* The lists, step by step.
LEMMA ListStep == TypeInv /\ ListInv /\ [Next]_vars => ListInv'
<1> SUFFICES ASSUME TypeInv, ListInv, [Next]_vars PROVE ListInv'
    OBVIOUS
<1> USE DEF TypeInv, TypeOK, ListInv, Sending, Mailing
<1>1. CASE UNCHANGED sendVars
    BY <1>1 DEF sendVars
<1>2. CASE GivesUp
    BY <1>2 DEF GivesUp, sendVars
<1>3. ASSUME NEW s \in Sends, FindAlertLogs(s) \/ StartSending(s) \/ SendEnds(s)
      PROVE  ListInv'
    BY <1>3 DEF FindAlertLogs, StartSending, SendEnds
<1>4. ASSUME NEW s \in Sends, NEW l \in Logs,
             \/ AlreadyReady(s, l) \/ markAlertLogEmailReady(s, l)
             \/ markAlertLogSkippedNoEmail(s, l) \/ sendAlertEmailWithResend(s, l)
      PROVE  ListInv'
  <2>1. CASE AlreadyReady(s, l)
    BY <2>1, AlertConstants DEF AlreadyReady
  <2>2. CASE markAlertLogEmailReady(s, l)
    BY <2>2, AlertConstants DEF markAlertLogEmailReady
  <2>3. CASE markAlertLogSkippedNoEmail(s, l)
    BY <2>3 DEF markAlertLogSkippedNoEmail
  <2>4. CASE sendAlertEmailWithResend(s, l)
    BY <2>4 DEF sendAlertEmailWithResend
  <2> QED BY <1>4, <2>1, <2>2, <2>3, <2>4
<1>5. ASSUME NEW s \in Sends, markAlertLogEmailSent(s) \/ markAlertLogEmailFailed(s)
      PROVE  ListInv'
    BY <1>5, AlertConstants DEF markAlertLogEmailSent, markAlertLogEmailFailed, Conclude
<1> QED BY <1>1, <1>2, <1>3, <1>4, <1>5
        DEF Next, vars, FindWatchlistItems, InsertLog, CheckEnds, NotTriggered, FindLog

\* A step that does not touch a log, nor gives it to a send.
LEMMA LogRests ==
    ASSUME NEW l \in Logs, AloneWith(l), status'[l] = status[l], mails'[l] = mails[l],
           failures' \in Nat, failures \in Nat, mails[l] \in Nat, failures <= failures',
           \A s \in Sends : Sending(s)' =>
               /\ Sending(s)
               /\ l \in slogs'[s] => l \in slogs[s]
               /\ l \in slogs'[s] \cap swas'[s] => l \in slogs[s] \cap swas[s]
               /\ l \in sready'[s] => l \in sready[s]
               /\ scur'[s] = l => scur[s] = l,
           \A s \in Sends : Sending(s) /\ scur[s] = l =>
               (Sending(s)' /\ scur'[s] = l) \/ failures < failures'
    PROVE  AloneWith(l)'
<1>1. \A s \in Sends : Holds(s, l)' => Holds(s, l)
    BY DEF Holds
<1> QED BY <1>1 DEF AloneWith

\* What a send with a log to itself does to it.
LEMMA AloneStep ==
    ASSUME TypeInv, ListInv, LoggedOnce, [Next]_vars, NEW l \in Logs \ shared', AloneWith(l)
    PROVE  AloneWith(l)'
<1> USE DEF TypeInv, TypeOK
<1>1. mails[l] \in Nat /\ failures \in Nat /\ failures' \in Nat /\ failures <= failures'
  <2>1. failures' \in 0..MaxFailures
    BY TypeInvStep
  <2>2. failures <= failures'
    <3>1. ASSUME NEW k \in Logs, NEW to \in Statuses, Set(k, to) PROVE failures <= failures'
      BY <3>1, AlertConstants DEF Set, Fail
    <3>2. ASSUME NEW s \in Sends, NEW from, NEW to \in Statuses, Conclude(s, from, to)
          PROVE  failures <= failures'
      BY <3>2, AlertConstants DEF Conclude, Set, Fail
    <3>3. {"pending_email", "email_ready", "email_sent", "email_failed", "skipped_no_email"}
              \subseteq Statuses
      BY DEF Statuses
    <3>4. ASSUME NEW c \in Checks, InsertLog(c) PROVE failures <= failures'
      BY <3>4, AlertConstants DEF InsertLog, Set, Fail
    <3> QED BY <3>1, <3>2, <3>3, <3>4, AlertConstants
            DEF Next, vars, GivesUp, Fail, FindWatchlistItems, CheckEnds, NotTriggered, FindLog,
                FindAlertLogs, StartSending, SendEnds, AlreadyReady, markAlertLogEmailReady,
                markAlertLogSkippedNoEmail, sendAlertEmailWithResend, markAlertLogEmailSent,
                markAlertLogEmailFailed
  <2> QED BY <2>1, <2>2, AlertConstants
<1>2. CASE UNCHANGED <<status, sendVars, mails>>
    BY <1>1, <1>2, LogRests DEF Sending, sendVars
<1>3. ASSUME NEW c \in Checks, InsertLog(c) PROVE AloneWith(l)'
  <2>1. PICK k \in Logs : k = <<c, citem[c]>> /\ status[k] = "none"
    BY <1>3 DEF InsertLog, HandInv, Logs, LoggedOnce, OwnInv, Inserting
  <2>2. Set(k, "pending_email") /\ UNCHANGED <<sendVars, mails>>
    BY <1>3, <2>1 DEF InsertLog
  <2>3. CASE l # k
    BY <1>1, <2>2, <2>3, SetEffect, LogRests DEF Sending, Statuses, sendVars
  <2>4. CASE l = k
    <3>1. mails[l] = 0 /\ \A s \in Sends : ~Holds(s, l) /\ l \notin slogs[s] \cup sready[s] /\ scur[s] # l
      BY <2>1, <2>4 DEF HandInv, Holds
    <3>2. \A s \in Sends : ~Holds(s, l)' /\ l \notin slogs'[s] \cup sready'[s] /\ scur'[s] # l
      BY <2>2, <3>1 DEF Holds, sendVars
    <3> HIDE DEF TypeInv, TypeOK
    <3>3. mails' = mails
      BY <2>2
    <3>4. mails'[l] = 0
      BY <3>1, <3>3
    <3>5. mails'[l] <= failures' /\ mails'[l] <= 1 + failures'
      BY <1>1, <3>4
    <3> QED BY <3>2, <3>5 DEF AloneWith
  <2> QED BY <2>3, <2>4
<1>4. CASE GivesUp
    BY <1>1, <1>4, LogRests DEF GivesUp, Fail, Sending, sendVars
<1>5. ASSUME NEW s \in Sends, FindAlertLogs(s) PROVE AloneWith(l)'
  <2>1. /\ spc[s] = "new" /\ sready[s] = {} /\ scur[s] = NoLog
        /\ UNCHANGED <<status, sready, scur, mails, failures>>
        /\ \A r \in Sends \ {s} :
              spc'[r] = spc[r] /\ slogs'[r] = slogs[r] /\ swas'[r] = swas[r]
    BY <1>5 DEF FindAlertLogs, ListInv
  <2>2. /\ l \in slogs'[s] => status[l] \in Due /\ \A r \in Sends : ~Holds(r, l)
        /\ l \in swas'[s] => status[l] = "email_ready"
    BY <1>5 DEF FindAlertLogs
  <2>3. \A r \in Sends \ {s} : Holds(r, l)' <=> Holds(r, l)
    BY <2>1 DEF Holds, Sending
  <2>4. Holds(s, l)' => l \in slogs'[s]
    BY <2>1, AlertConstants DEF Holds
  <2>5. \A r, q \in Sends : Holds(r, l)' /\ Holds(q, l)' => r = q
    BY <2>2, <2>3, <2>4 DEF AloneWith
  <2>6. \A r \in Sends : Sending(r)' =>
            /\ l \in slogs'[r] => status[l] \in Due
            /\ l \in slogs'[r] \cap swas'[r] => status[l] = "email_ready"
            /\ l \in sready'[r] \/ scur'[r] = l => status[l] = "email_ready"
    BY <2>1, <2>2, AlertConstants DEF AloneWith, Sending
  <2>7. ASSUME status[l] \in Due, \A r \in Sends : Sending(r)' => scur[r] # l
        PROVE  mails[l] <= failures
    <3>1. \A r \in Sends : Sending(r) => scur[r] # l
      BY <2>1, <2>7 DEF Sending
    <3> QED BY <2>7, <3>1 DEF AloneWith
  <2> QED BY <2>1, <2>5, <2>6, <2>7 DEF AloneWith
<1>6. ASSUME NEW s \in Sends, StartSending(s) \/ SendEnds(s) PROVE AloneWith(l)'
  <2>1. /\ Sending(s) /\ scur[s] = NoLog /\ \A r \in Sends \ {s} : spc'[r] = spc[r]
        /\ UNCHANGED <<status, slogs, sready, swas, scur, mails, failures>>
    BY <1>6 DEF StartSending, SendEnds, Sending, ListInv, Mailing
  <2> QED BY <1>1, <2>1, LogRests, AlertConstants DEF Sending
<1>7. ASSUME NEW s \in Sends, NEW k \in Logs, AlreadyReady(s, k) PROVE AloneWith(l)'
  <2>1. /\ spc[s] = "prepare" /\ k \in slogs[s] \cap swas[s]
        /\ slogs' = [slogs EXCEPT ![s] = @ \ {k}] /\ sready' = [sready EXCEPT ![s] = @ \cup {k}]
        /\ UNCHANGED <<status, spc, swas, scur, mails, failures>>
    BY <1>7 DEF AlreadyReady
  <2>2. \A r \in Sends : Holds(r, l)' <=> Holds(r, l)
    BY <2>1 DEF Holds, Sending
  <2> QED BY <2>1, <2>2 DEF AloneWith, Sending
<1>8. ASSUME NEW s \in Sends, NEW k \in Logs,
             markAlertLogEmailReady(s, k) \/ markAlertLogSkippedNoEmail(s, k)
      PROVE  AloneWith(l)'
  <2>1. /\ spc[s] = "prepare" /\ k \in slogs[s] /\ slogs' = [slogs EXCEPT ![s] = @ \ {k}]
        /\ UNCHANGED <<spc, swas, scur, mails>> /\ scur[s] = NoLog
        /\ sready'[s] \subseteq sready[s] \cup {k}
        /\ \A r \in Sends \ {s} : sready'[r] = sready[r]
    BY <1>8 DEF markAlertLogEmailReady, markAlertLogSkippedNoEmail, ListInv, Sending, Mailing
  <2>2. \E to \in {"email_ready", "skipped_no_email"} : Set(k, to)
    BY <1>8 DEF markAlertLogEmailReady, markAlertLogSkippedNoEmail
  <2>3. /\ \A j \in Logs : j # k => status'[j] = status[j]
        /\ status'[k] \in {status[k], "email_ready", "skipped_no_email"}
    BY <2>2, SetEffect DEF Statuses
  <2>4. k \in sready'[s] => k \in sready[s] \/ status'[k] = "email_ready"
    BY <1>8, SetEffect DEF markAlertLogEmailReady, markAlertLogSkippedNoEmail, Statuses
  <2>5. CASE l # k
    BY <1>1, <2>1, <2>3, <2>5, LogRests DEF Sending
  <2>6. CASE l = k
    <3>1. Holds(s, l) /\ \A r \in Sends \ {s} : ~Holds(r, l)
      BY <2>1, <2>6 DEF AloneWith, Holds, Sending
    <3>2. \A r \in Sends \ {s} : ~Holds(r, l)'
      BY <2>1, <3>1 DEF Holds, Sending
    <3>3. l \notin slogs'[s] /\ l \notin sready[s] /\ scur[s] # l
      BY <2>1, <2>6, AlertConstants DEF ListInv, Sending
    <3>4. \A r \in Sends : Sending(r) => scur[r] # l
      BY <3>1, <3>3 DEF Holds
    <3>5. mails[l] <= failures
      BY <2>1, <2>6, <3>4 DEF AloneWith, Sending
    <3>6. \A r \in Sends : Sending(r)' =>
              /\ l \notin slogs'[r] /\ scur'[r] # l
              /\ l \in sready'[r] => status'[l] = "email_ready"
      BY <2>1, <2>4, <2>6, <3>2, <3>3 DEF Holds
    <3> QED BY <1>1, <2>1, <3>2, <3>5, <3>6 DEF AloneWith
  <2> QED BY <2>5, <2>6
<1>9. ASSUME NEW s \in Sends, NEW k \in Logs, sendAlertEmailWithResend(s, k) PROVE AloneWith(l)'
  <2>1. /\ spc[s] = "send" /\ k \in sready[s] /\ sready' = [sready EXCEPT ![s] = @ \ {k}]
        /\ scur' = [scur EXCEPT ![s] = k] /\ spc' = [spc EXCEPT ![s] = spc'[s]]
        /\ Sending(s)' /\ Sending(s)
        /\ mails'[k] <= mails[k] + 1 /\ \A j \in Logs : j # k => mails'[j] = mails[j]
        /\ UNCHANGED <<status, slogs, swas, failures>>
    BY <1>9 DEF sendAlertEmailWithResend, Sending
  <2>2. scur[s] = NoLog /\ \A r \in Sends \ {s} : (Sending(r)' <=> Sending(r)) /\ scur'[r] = scur[r]
    BY <2>1 DEF ListInv, Sending, Mailing
  <2>3. CASE l # k
    BY <1>1, <2>1, <2>2, <2>3, LogRests, AlertConstants DEF Sending
  <2>4. CASE l = k
    <3>1. Holds(s, l) /\ status[l] = "email_ready" /\ \A r \in Sends \ {s} : ~Holds(r, l)
      BY <2>1, <2>4 DEF AloneWith, Holds
    <3>2. \A r \in Sends \ {s} : ~Holds(r, l)'
      BY <2>1, <2>2, <3>1 DEF Holds
    <3>3. \A r \in Sends : Sending(r) => scur[r] # l
      BY <2>2, <3>1, AlertConstants DEF Holds
    <3>4. mails[l] <= failures
      BY <3>1, <3>3 DEF AloneWith, Due
    <3>5. mails'[l] <= 1 + failures
      <4>1. mails'[l] \in Nat
        BY TypeInvStep
      <4> QED BY <1>1, <2>1, <2>4, <3>4, <4>1
    <3>6. scur'[s] = l /\ Sending(s)'
      BY <2>1, <2>4
    <3> QED BY <2>1, <3>1, <3>2, <3>5, <3>6 DEF AloneWith, Holds, Due
  <2> QED BY <2>3, <2>4
<1>10. ASSUME NEW s \in Sends, markAlertLogEmailSent(s) \/ markAlertLogEmailFailed(s)
       PROVE  AloneWith(l)'
  <2>1. PICK k \in Logs : k = scur[s] /\ Mailing(s) /\ Sending(s) /\ Sending(s)'
    BY <1>10 DEF markAlertLogEmailSent, markAlertLogEmailFailed, Conclude, Mailing, Sending, HandInv
  <2>2. /\ spc' = [spc EXCEPT ![s] = "send"] /\ scur' = [scur EXCEPT ![s] = NoLog]
        /\ UNCHANGED <<slogs, sready, swas, mails>>
    BY <1>10 DEF markAlertLogEmailSent, markAlertLogEmailFailed, Conclude
  <2>3. \/ UNCHANGED status /\ status[k] # "email_ready"
        \/ status[k] = "email_ready" /\ \E to \in {"email_sent", "email_failed"} : Set(k, to)
    BY <1>10, <2>1 DEF markAlertLogEmailSent, markAlertLogEmailFailed, Conclude
  <2>4. \A j \in Logs : j # k => status'[j] = status[j]
    BY <2>3, SetEffect DEF Statuses
  <2>5. \A r \in Sends \ {s} : (Sending(r)' <=> Sending(r)) /\ scur'[r] = scur[r]
    BY <2>2 DEF Sending
  <2>6. CASE l # k
    BY <1>1, <2>1, <2>2, <2>4, <2>5, <2>6, LogRests, AlertConstants
  <2>7. CASE l = k
    <3>1. Holds(s, l) /\ status[l] = "email_ready" /\ \A r \in Sends \ {s} : ~Holds(r, l)
      BY <2>1, <2>7 DEF AloneWith, Holds
    <3>2. \A r \in Sends \ {s} : ~Holds(r, l)'
      BY <2>2, <2>5, <3>1 DEF Holds
    <3>3. l \notin slogs[s] /\ l \notin sready[s] /\ scur'[s] # l
      BY <2>1, <2>2, <2>7, AlertConstants DEF ListInv, Mailing
    <3>4. status'[l] \in {"email_sent", "email_failed"} \/ failures < failures'
      <4>1. PICK to \in {"email_sent", "email_failed"} : Set(k, to)
        BY <2>3, <2>7, <3>1
      <4> QED BY <1>1, <2>7, <4>1, SetEffect DEF Statuses
    <3>5. mails[l] <= 1 + failures
      BY DEF AloneWith
    <3>6. status'[l] \in Due => mails[l] <= failures'
      BY <1>1, <3>4, <3>5 DEF Due
    <3>7. \A r \in Sends : ~Holds(r, l)'
      BY <2>2, <3>2, <3>3 DEF Holds
    <3> QED BY <1>1, <2>2, <3>5, <3>6, <3>7 DEF AloneWith, Holds
  <2> QED BY <2>6, <2>7
<1> QED BY <1>2, <1>3, <1>4, <1>5, <1>6, <1>7, <1>8, <1>9, <1>10
        DEF Next, vars, FindWatchlistItems, CheckEnds, NotTriggered, FindLog

\* A log that two sends have held stays in shared.
LEMMA SharedGrows == [Next]_vars => shared \subseteq shared'
  BY DEF Next, vars, GivesUp, FindWatchlistItems, InsertLog, CheckEnds, NotTriggered, FindLog,
         FindAlertLogs, StartSending, SendEnds, AlreadyReady, markAlertLogEmailReady,
         markAlertLogSkippedNoEmail, sendAlertEmailWithResend, markAlertLogEmailSent,
         markAlertLogEmailFailed, Conclude

AlertInv == TypeInv /\ LoggedOnce /\ SendInv

LEMMA AlertInvHolds == Spec => []AlertInv
<1>1. Init => AlertInv
    BY TypeInvInitial, LoggedOnceInitial, SendInvInitial DEF AlertInv
<1>2. AlertInv /\ [Next]_vars => AlertInv'
    BY TypeInvStep, LoggedOnceStep, ListStep, AloneStep, SharedGrows DEF AlertInv, SendInv
<1> QED BY <1>1, <1>2, PTL DEF Spec

\* No log has been mailed more often than the failures there were explain, unless
\* two sends have had it in their lists at once.
THEOREM MailsAreExplained == Spec => []MailsExplained
<1>1. AlertInv => MailsExplained
    BY DEF AlertInv, SendInv, AloneWith, MailsExplained
<1> QED BY <1>1, AlertInvHolds, PTL

Concluded == {"email_sent", "email_failed", "skipped_no_email"}

\* Whoever writes to a log writes to one that is not concluded: a check to one
\* that does not exist, a send that has it to itself to one that is due.
LEMMA ConcludedStay ==
    ASSUME AlertInv, [Next]_vars, NEW l \in Logs \ shared, status[l] \in Concluded
    PROVE  status'[l] = status[l]
<1> USE DEF AlertInv, TypeInv, Concluded
<1>1. ASSUME NEW c \in Checks, InsertLog(c)
      PROVE  status'[l] = status[l]
  <2>1. PICK k \in Logs : k = <<c, citem[c]>> /\ status[k] = "none"
    BY <1>1 DEF InsertLog, HandInv, Logs, LoggedOnce, OwnInv, Inserting
  <2>2. Set(k, "pending_email")
    BY <1>1, <2>1 DEF InsertLog
  <2> QED BY <2>1, <2>2, SetEffect DEF Statuses
<1>2. ASSUME NEW s \in Sends, NEW k \in Logs,
             markAlertLogEmailReady(s, k) \/ markAlertLogSkippedNoEmail(s, k)
      PROVE  status'[l] = status[l]
  <2>1. k = l => status[k] \in Due
    BY <1>2 DEF markAlertLogEmailReady, markAlertLogSkippedNoEmail, SendInv, AloneWith, Sending
  <2>2. k # l
    BY <2>1 DEF Due
  <2> QED BY <1>2, <2>2, SetEffect
          DEF markAlertLogEmailReady, markAlertLogSkippedNoEmail, Statuses
<1>3. ASSUME NEW s \in Sends, markAlertLogEmailSent(s) \/ markAlertLogEmailFailed(s)
      PROVE  status'[l] = status[l]
  <2>1. PICK k \in Logs : k = scur[s]
    BY <1>3 DEF markAlertLogEmailSent, markAlertLogEmailFailed, Conclude, Mailing, HandInv
  <2>2. \/ UNCHANGED status
        \/ status[k] = "email_ready" /\ \E to \in {"email_sent", "email_failed"} : Set(k, to)
    BY <1>3, <2>1 DEF markAlertLogEmailSent, markAlertLogEmailFailed, Conclude
  <2> QED BY <2>2, SetEffect DEF Statuses
<1> QED BY <1>1, <1>2, <1>3
        DEF Next, GivesUp, FindWatchlistItems, CheckEnds, NotTriggered, FindLog, FindAlertLogs,
            StartSending, SendEnds, AlreadyReady, sendAlertEmailWithResend, vars

\* A log that was sent, failed or skipped stays so, through failures and requests
\* cut short, unless two sends have had it in their lists at once.
THEOREM ConcludedFinal == Spec => ConcludedStays
<1>1. AlertInv /\ [Next]_vars =>
        [\A l \in Logs :
            status[l] \in {"email_sent", "email_failed", "skipped_no_email"} =>
                status'[l] = status[l] \/ l \in shared]_vars
    BY ConcludedStay DEF Concluded
<1> QED BY <1>1, AlertInvHolds, PTL DEF Spec, ConcludedStays
=============================================================================
