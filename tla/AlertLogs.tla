----------------------------- MODULE AlertLogs -----------------------------
(***************************************************************************)
(* The threshold alerts of backend-go/alerts.go: GET /api/alerts/check     *)
(* writes the alert_logs of the watchlist items that trigger, POST         *)
(* /api/alerts/send mails the logs that are due.  Both walk over many      *)
(* documents with one call of MongoDB at a time and hold no lock; nothing  *)
(* keeps two requests of a kind from running at the same time.             *)
(*                                                                         *)
(* An item stands for one deduplication key: its user, fund, threshold and *)
(* the net value date of the day.  A check inserts at most one log per     *)
(* item, so <<check, item>> names the log.  alertSendItem and the counters *)
(* of the responses are left out; so is an email_ready log without an      *)
(* address, which no code writes.                                          *)
(***************************************************************************)
EXTENDS Integers, FiniteSets

CONSTANTS
    Items,        \* watchlist items
    Checks,       \* requests of /api/alerts/check
    Sends,        \* requests of /api/alerts/send
    NoItem, NoLog,
    MaxFailures   \* bound on failed MongoDB calls and crashes

Logs == Checks \X Items

ASSUME AlertConstants ==
    /\ NoItem \notin Items /\ NoLog \notin Logs
    /\ MaxFailures \in Nat

VARIABLES
    status,     \* MongoDB: alert_logs
    cpc,        \* control of a check
    citems,     \* the items it has not looked at
    citem,      \* the item whose log it is about to insert
    spc,        \* control of a send
    slogs,      \* the logs its loop has not handled
    sready,     \* emailReadyLogs
    swas,       \* the logs it found email_ready
    scur,       \* the log it is mailing
    mails,      \* mails the provider accepted for a log
    failures,
    raced,      \* history: items that two checks were about to log at once
    shared      \* history: logs that two sends have held at once

checkVars == <<cpc, citems, citem>>
sendVars == <<spc, slogs, sready, swas, scur>>
vars == <<status, checkVars, sendVars, mails, failures, raced, shared>>

Statuses == {"none", "pending_email", "email_ready", "email_sent", "email_failed",
             "skipped_no_email"}

TypeOK ==
    /\ status \in [Logs -> Statuses]
    /\ cpc \in [Checks -> {"new", "items", "insert", "done"}]
    /\ citems \in [Checks -> SUBSET Items]
    /\ citem \in [Checks -> Items \cup {NoItem}]
    /\ spc \in [Sends -> {"new", "prepare", "send", "mark_sent", "mark_failed", "done"}]
    /\ slogs \in [Sends -> SUBSET Logs]
    /\ sready \in [Sends -> SUBSET Logs]
    /\ swas \in [Sends -> SUBSET Logs]
    /\ scur \in [Sends -> Logs \cup {NoLog}]
    /\ mails \in [Logs -> Nat]
    /\ failures \in 0..MaxFailures
    /\ raced \subseteq Items /\ shared \subseteq Logs

Init ==
    /\ status = [l \in Logs |-> "none"]
    /\ cpc = [c \in Checks |-> "new"]
    /\ citems = [c \in Checks |-> {}]
    /\ citem = [c \in Checks |-> NoItem]
    /\ spc = [s \in Sends |-> "new"]
    /\ slogs = [s \in Sends |-> {}]
    /\ sready = [s \in Sends |-> {}]
    /\ swas = [s \in Sends |-> {}]
    /\ scur = [s \in Sends |-> NoLog]
    /\ mails = [l \in Logs |-> 0]
    /\ failures = 0
    /\ raced = {} /\ shared = {}

Fail == failures < MaxFailures /\ failures' = failures + 1

\* A write that returns an error may have been applied.
Set(l, to) ==
    \/ status' = [status EXCEPT ![l] = to] /\ (UNCHANGED failures \/ Fail)
    \/ Fail /\ UNCHANGED status

-----------------------------------------------------------------------------
(* alertsCheckGinHandler                                                   *)

FindWatchlistItems(c) ==
    /\ cpc[c] = "new"
    /\ \/ /\ cpc' = [cpc EXCEPT ![c] = "items"]
          /\ citems' = [citems EXCEPT ![c] = Items]
          /\ UNCHANGED failures
       \/ Fail /\ cpc' = [cpc EXCEPT ![c] = "done"] /\ UNCHANGED citems
    /\ UNCHANGED <<status, citem, sendVars, mails, raced, shared>>

\* The item is invalid, its fund is unknown or its growth below the threshold.
NotTriggered(c, i) ==
    /\ cpc[c] = "items" /\ i \in citems[c]
    /\ citems' = [citems EXCEPT ![c] = @ \ {i}]
    /\ UNCHANGED <<status, cpc, citem, sendVars, mails, failures, raced, shared>>

Mut_Logged(i) == \E d \in Checks : status[<<d, i>>] \in {"pending_email", "email_ready"}

Logged(i) == \E d \in Checks : status[<<d, i>>] # "none"

Inserting(c, i) == cpc[c] = "insert" /\ citem[c] = i

\* logAlertTrigger, FindOne: a log with the item's key, whatever its status.
FindLog(c, i) ==
    /\ cpc[c] = "items" /\ i \in citems[c]
    /\ citems' = [citems EXCEPT ![c] = @ \ {i}]
    /\ \/ Logged(i) /\ UNCHANGED <<cpc, citem, failures, raced>>
       \/ /\ ~Logged(i)
          /\ cpc' = [cpc EXCEPT ![c] = "insert"]
          /\ citem' = [citem EXCEPT ![c] = i]
          /\ raced' = IF \E d \in Checks : Inserting(d, i) THEN raced \cup {i} ELSE raced
          /\ UNCHANGED failures
       \/ Fail /\ UNCHANGED <<cpc, citem, raced>>
    /\ UNCHANGED <<status, sendVars, mails, shared>>

InsertLog(c) ==
    /\ cpc[c] = "insert"
    /\ Set(<<c, citem[c]>>, "pending_email")
    /\ cpc' = [cpc EXCEPT ![c] = "items"]
    /\ citem' = [citem EXCEPT ![c] = NoItem]
    /\ UNCHANGED <<citems, sendVars, mails, raced, shared>>

CheckEnds(c) ==
    /\ cpc[c] = "items" /\ citems[c] = {}
    /\ cpc' = [cpc EXCEPT ![c] = "done"]
    /\ UNCHANGED <<status, citems, citem, sendVars, mails, failures, raced, shared>>

-----------------------------------------------------------------------------
(* alertsSendGinHandler: prepareAlertLogsForEmail                          *)

Sending(s) == spc[s] \notin {"new", "done"}

\* s has l in one of its lists, or is mailing it.
Holds(s, l) == Sending(s) /\ (l \in slogs[s] \cup sready[s] \/ scur[s] = l)

Mut_Due == {"pending_email", "email_ready", "email_failed"}     \* failures are retried

\* The query also asks for "triggered", which no code writes any more.
Due == {"pending_email", "email_ready"}

FindAlertLogs(s) ==
    LET due == {l \in Logs : status[l] \in Due} IN
    /\ spc[s] = "new"
    /\ spc' = [spc EXCEPT ![s] = IF due = {} THEN "done" ELSE "prepare"]
    /\ slogs' = [slogs EXCEPT ![s] = due]
    /\ swas' = [swas EXCEPT ![s] = {l \in due : status[l] = "email_ready"}]
    /\ shared' = shared \cup {l \in due : \E r \in Sends : Holds(r, l)}
    /\ UNCHANGED <<status, checkVars, sready, scur, mails, failures, raced>>

\* The status and the address were read by the query.
AlreadyReady(s, l) ==
    /\ spc[s] = "prepare" /\ l \in slogs[s] \cap swas[s]
    /\ slogs' = [slogs EXCEPT ![s] = @ \ {l}]
    /\ sready' = [sready EXCEPT ![s] = @ \cup {l}]
    /\ UNCHANGED <<status, checkVars, spc, swas, scur, mails, failures, raced, shared>>

\* updateAlertLogEmailStatus filters by _id alone.  A user lookup that fails
\* ends like a failed update: the log is left out of this request.
markAlertLogEmailReady(s, l) ==
    /\ spc[s] = "prepare" /\ l \in slogs[s] \ swas[s]
    /\ slogs' = [slogs EXCEPT ![s] = @ \ {l}]
    /\ Set(l, "email_ready")
    /\ sready' = IF failures' = failures THEN [sready EXCEPT ![s] = @ \cup {l}] ELSE sready
    /\ UNCHANGED <<checkVars, spc, swas, scur, mails, raced, shared>>

\* The user is gone or has no address.
markAlertLogSkippedNoEmail(s, l) ==
    /\ spc[s] = "prepare" /\ l \in slogs[s] \ swas[s]
    /\ slogs' = [slogs EXCEPT ![s] = @ \ {l}]
    /\ Set(l, "skipped_no_email")
    /\ UNCHANGED <<checkVars, spc, sready, swas, scur, mails, raced, shared>>

\* Nothing to mail, or no key of the mail provider, ends the request.
StartSending(s) ==
    /\ spc[s] = "prepare" /\ slogs[s] = {}
    /\ \/ sready[s] # {} /\ spc' = [spc EXCEPT ![s] = "send"]
       \/ spc' = [spc EXCEPT ![s] = "done"]
    /\ UNCHANGED <<status, checkVars, slogs, sready, swas, scur, mails, failures, raced, shared>>

-----------------------------------------------------------------------------
(* buildAlertSendResponse                                                  *)

Mut_sendAlertEmailWithResend(s, l) ==   \* a second POST when the first one fails
    /\ spc[s] = "send" /\ l \in sready[s]
    /\ sready' = [sready EXCEPT ![s] = @ \ {l}]
    /\ scur' = [scur EXCEPT ![s] = l]
    /\ \/ mails' = [mails EXCEPT ![l] = @ + 1] /\ spc' = [spc EXCEPT ![s] = "mark_sent"]
       \/ mails' = [mails EXCEPT ![l] = @ + 2] /\ spc' = [spc EXCEPT ![s] = "mark_sent"]
       \/ UNCHANGED mails /\ spc' = [spc EXCEPT ![s] = "mark_failed"]
    /\ UNCHANGED <<status, checkVars, slogs, swas, failures, raced, shared>>

\* An error says nothing: the provider may have accepted the mail.
sendAlertEmailWithResend(s, l) ==
    /\ spc[s] = "send" /\ l \in sready[s]
    /\ sready' = [sready EXCEPT ![s] = @ \ {l}]
    /\ scur' = [scur EXCEPT ![s] = l]
    /\ \/ mails' = [mails EXCEPT ![l] = @ + 1] /\ spc' = [spc EXCEPT ![s] = "mark_sent"]
       \/ mails' = [mails EXCEPT ![l] = @ + 1] /\ spc' = [spc EXCEPT ![s] = "mark_failed"]
       \/ UNCHANGED mails /\ spc' = [spc EXCEPT ![s] = "mark_failed"]
    /\ UNCHANGED <<status, checkVars, slogs, swas, failures, raced, shared>>

\* updateAlertLogEmailStatusWithStatus filters by _id and status email_ready.
Conclude(s, from, to) ==
    LET l == scur[s] IN
    /\ spc[s] = from
    /\ IF status[l] = "email_ready"
       THEN Set(l, to)
       ELSE UNCHANGED status /\ (UNCHANGED failures \/ Fail)
    /\ spc' = [spc EXCEPT ![s] = "send"]
    /\ scur' = [scur EXCEPT ![s] = NoLog]
    /\ UNCHANGED <<checkVars, slogs, sready, swas, mails, raced, shared>>

markAlertLogEmailSent(s) == Conclude(s, "mark_sent", "email_sent")

Mut_markAlertLogEmailFailed(s) == Conclude(s, "mark_failed", "email_sent")

markAlertLogEmailFailed(s) == Conclude(s, "mark_failed", "email_failed")

SendEnds(s) ==
    /\ spc[s] = "send" /\ sready[s] = {}
    /\ spc' = [spc EXCEPT ![s] = "done"]
    /\ UNCHANGED <<status, checkVars, slogs, sready, swas, scur, mails, failures, raced, shared>>

\* The backend dies, or the 30 seconds are over and every further call fails.
GivesUp ==
    \/ /\ \E c \in Checks : cpc[c] \in {"items", "insert"} /\ cpc' = [cpc EXCEPT ![c] = "done"]
       /\ Fail /\ UNCHANGED <<status, citems, citem, sendVars, mails, raced, shared>>
    \/ /\ \E s \in Sends : Sending(s) /\ spc' = [spc EXCEPT ![s] = "done"]
       /\ Fail /\ UNCHANGED <<status, checkVars, slogs, sready, swas, scur, mails, raced, shared>>

Next ==
    \/ GivesUp
    \/ \E c \in Checks :
          \/ FindWatchlistItems(c) \/ InsertLog(c) \/ CheckEnds(c)
          \/ \E i \in Items : NotTriggered(c, i) \/ FindLog(c, i)
    \/ \E s \in Sends :
          \/ FindAlertLogs(s) \/ StartSending(s) \/ SendEnds(s)
          \/ markAlertLogEmailSent(s) \/ markAlertLogEmailFailed(s)
          \/ \E l \in Logs :
                \/ AlreadyReady(s, l) \/ markAlertLogEmailReady(s, l)
                \/ markAlertLogSkippedNoEmail(s, l) \/ sendAlertEmailWithResend(s, l)

Spec == Init /\ [][Next]_vars

-----------------------------------------------------------------------------
(* Properties                                                              *)

\* Find-then-insert keeps one log per user, fund, date and threshold through
\* failures and repeated checks, unless two checks had found none and were both
\* about to insert it.
DuplicateLogsExplained ==
    \A c, d \in Checks : \A i \in Items :
        status[<<c, i>>] # "none" /\ status[<<d, i>>] # "none" => c = d \/ i \in raced

\* An alert is mailed again only after a failure, and once for each: a request
\* that could not record its mail; or when two sends had it in their lists.
MailsExplained == \A l \in Logs : mails[l] <= 1 + failures \/ l \in shared

\* The log that says "sent" was mailed.
SentWasMailed == \A l \in Logs : status[l] = "email_sent" => mails[l] > 0

\* A concluded log stays as it is: no later request, with what it read before,
\* makes it due again, unless two sends had it in their lists.
ConcludedStays ==
    [][\A l \in Logs :
          status[l] \in {"email_sent", "email_failed", "skipped_no_email"} =>
              status'[l] = status[l] \/ l \in shared]_vars

\* "Records that are email_sent already are not sent again."
SentIsNotMailedAgain ==
    [][\A l \in Logs : status[l] = "email_sent" => mails'[l] = mails[l]]_vars
=============================================================================
