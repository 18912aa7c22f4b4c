---------------------------- MODULE UpdateWorkers ---------------------------
(***************************************************************************)
(* One update run: executeFundUpdate builds its targets from the default   *)
(* codes and the watchlists, and runUpdateWorkers starts the goroutines -  *)
(* a producer, a pool of workers and the collector, which is the caller -  *)
(* connected by two buffered channels and one context.                     *)
(*                                                                         *)
(* A job is a position in the targets.  The producer sends the jobs in     *)
(* order, so the jobs channel holds those after taken up to fed; of the    *)
(* results channel no property needs the order.  The workers outlive the   *)
(* call when the context expires.                                          *)
(***************************************************************************)
EXTENDS Integers, Sequences, FiniteSets

CONSTANTS
    Codes,      \* texts that isValidFundCode accepts
    Junk,       \* other texts a watchlist may hold
    Padded,     \* texts a watchlist may also hold with blanks around them
    Defaults,   \* defaultFundCodes
    MaxWorkers  \* the 3 workers executeFundUpdate asks for

ASSUME RunConstants ==
    /\ Codes \cap Junk = {}
    /\ Defaults \subseteq Codes /\ Padded \subseteq Codes \cup Junk
    /\ MaxWorkers \in Nat \ {0}

VARIABLES
    ctxDone,    \* the run's context has expired or was cancelled
    caller,     \* control of executeFundUpdate
    listed,     \* what Distinct returned
    todo,       \* the raw codes the loop has still to append
    targets,    \* targetCodes
    skipped,    \* skippedCodes
    producer,   \* control of the producer goroutine
    fed, taken, \* how many jobs were sent, and received
    wpc,        \* control of a worker
    cur,        \* the job it handles
    ok,         \* OK of its result
    results,    \* channel of results
    collected,  \* updateResults
    written     \* MongoDB: the codes whose fund_data this run has upserted

selection == <<listed, todo, targets, skipped>>
pool == <<producer, fed, taken>>
worker == <<wpc, cur, ok>>
vars == <<ctxDone, caller, selection, pool, worker, results, collected, written>>

\* A code as MongoDB holds it, perhaps with blanks around it.
Raw == [text : Codes \cup Junk, padded : {FALSE}] \cup [text : Padded, padded : {TRUE}]
TrimSpace(raw) == raw.text

Workers == 1..MaxWorkers
NoJob == 0
Jobs == 1..Len(targets)
Result == [job : Jobs, ok : BOOLEAN]

workerCount == IF MaxWorkers > Len(targets) THEN Len(targets) ELSE MaxWorkers

JobsCap == workerCount

Mut_ResultsCap == workerCount  \* both channels sized alike

ResultsCap == Len(targets)

TypeOK ==
    /\ ctxDone \in BOOLEAN
    /\ caller \in {"defaults", "watchlist", "collect", "done", "failed"}
    /\ listed \subseteq Raw /\ todo \subseteq Raw
    /\ targets \in Seq(Codes) /\ skipped \subseteq Junk
    /\ producer \in {"new", "feeding", "closed"}
    /\ fed \in 0..Len(targets) /\ taken \in 0..fed
    /\ wpc \in [Workers -> {"new", "recv", "fetch", "upsert", "writing", "send", "exit"}]
    /\ cur \in [Workers -> Jobs \cup {NoJob}]
    /\ ok \in [Workers -> BOOLEAN]
    /\ results \subseteq Result /\ collected \subseteq Result
    /\ written \subseteq Codes

Init ==
    /\ ctxDone = FALSE
    /\ caller = "defaults"
    /\ listed = {} /\ todo = [text : Defaults, padded : {FALSE}]
    /\ targets = <<>> /\ skipped = {}
    /\ producer = "new" /\ fed = 0 /\ taken = 0
    /\ wpc = [w \in Workers |-> "new"]
    /\ cur = [w \in Workers |-> NoJob]
    /\ ok = [w \in Workers |-> FALSE]
    /\ results = {} /\ collected = {} /\ written = {}

-----------------------------------------------------------------------------
(* buildUpdateFundCodes                                                    *)

Seen == {targets[i] : i \in Jobs}

Mut_appendUniqueValidCode(raw) ==   \* compares before trimming
    /\ raw \in todo
    /\ todo' = todo \ {raw}
    /\ IF TrimSpace(raw) \notin Codes
       THEN skipped' = skipped \cup {TrimSpace(raw)} /\ UNCHANGED targets
       ELSE /\ targets' = IF ~raw.padded /\ TrimSpace(raw) \in Seen
                          THEN targets ELSE Append(targets, TrimSpace(raw))
            /\ UNCHANGED skipped
    /\ UNCHANGED <<ctxDone, caller, listed, pool, worker, results, collected, written>>

\* One turn of either loop over raw codes.
appendUniqueValidCode(raw) ==
    /\ raw \in todo
    /\ todo' = todo \ {raw}
    /\ IF TrimSpace(raw) \notin Codes
       THEN skipped' = skipped \cup {TrimSpace(raw)} /\ UNCHANGED targets
       ELSE /\ targets' = IF TrimSpace(raw) \in Seen
                          THEN targets ELSE Append(targets, TrimSpace(raw))
            /\ UNCHANGED skipped
    /\ UNCHANGED <<ctxDone, caller, listed, pool, worker, results, collected, written>>

\* findWatchlistFundCodes: Distinct over the watchlists of all users.
FindWatchlistCodes(found) ==
    /\ caller = "defaults" /\ todo = {}
    /\ caller' = "watchlist"
    /\ listed' = found /\ todo' = found
    /\ UNCHANGED <<ctxDone, targets, skipped, pool, worker, results, collected, written>>

\* The watchlist codes cannot be read: status "failed" and no targets.
BuildFails ==
    /\ caller = "defaults" /\ todo = {}
    /\ caller' = "failed"
    /\ UNCHANGED <<ctxDone, selection, pool, worker, results, collected, written>>

-----------------------------------------------------------------------------
(* runUpdateWorkers and the rest of executeFundUpdate                      *)

StartPool ==
    /\ caller = "watchlist" /\ todo = {}
    /\ IF targets = <<>>
       THEN caller' = "done" /\ UNCHANGED <<producer, wpc>>
       ELSE /\ caller' = "collect"
            /\ producer' = "feeding"
            /\ wpc' = [w \in Workers |-> IF w <= workerCount THEN "recv" ELSE "new"]
    /\ UNCHANGED <<ctxDone, selection, fed, taken, cur, ok, results, collected, written>>

Collect(r) ==
    /\ caller = "collect"
    /\ r \in results
    /\ results' = results \ {r}
    /\ collected' = collected \cup {r}
    /\ caller' = IF Cardinality(collected') = Len(targets) THEN "done" ELSE "collect"
    /\ UNCHANGED <<ctxDone, selection, pool, worker, written>>

\* select between ctx.Done and a result is random when both are ready.
GiveUp ==
    /\ caller = "collect" /\ ctxDone
    /\ caller' = "done"
    /\ UNCHANGED <<ctxDone, selection, pool, worker, results, collected, written>>

\* The deadline, a client that hangs up, or the handler's deferred cancel.
CtxDone ==
    /\ ~ctxDone
    /\ ctxDone' = TRUE
    /\ UNCHANGED <<caller, selection, pool, worker, results, collected, written>>

updatedCodes == {targets[r.job] : r \in {x \in collected : x.ok}}
completedCodes == {targets[r.job] : r \in collected}

Mut_failedCodes == {targets[r.job] : r \in {x \in collected : ~x.ok}}   \* no missing codes

failedCodes == {targets[r.job] : r \in {x \in collected : ~x.ok}} \cup (Seen \ completedCodes)

Status ==
    IF failedCodes = {} THEN "success"
    ELSE IF updatedCodes # {} THEN "partial_success"
    ELSE "failed"

-----------------------------------------------------------------------------
(* The producer goroutine                                                  *)

Feed ==
    /\ producer = "feeding"
    /\ fed < Len(targets) /\ fed - taken < JobsCap
    /\ fed' = fed + 1
    /\ UNCHANGED <<ctxDone, caller, selection, producer, taken, worker, results, collected, written>>

CloseJobs ==
    /\ producer = "feeding"
    /\ fed = Len(targets) \/ ctxDone
    /\ producer' = "closed"
    /\ UNCHANGED <<ctxDone, caller, selection, fed, taken, worker, results, collected, written>>

-----------------------------------------------------------------------------
(* A worker goroutine: range over jobs, updateSingleFund, send             *)

goto(w, from, to) ==
    /\ wpc[w] = from
    /\ wpc' = [wpc EXCEPT ![w] = to]

Take(w) ==
    /\ goto(w, "recv", "fetch")
    /\ taken < fed
    /\ taken' = taken + 1
    /\ cur' = [cur EXCEPT ![w] = taken + 1]
    /\ UNCHANGED <<ctxDone, caller, selection, producer, fed, ok, results, collected, written>>

WorkerExit(w) ==
    /\ goto(w, "recv", "exit")
    /\ taken = fed /\ producer = "closed"
    /\ UNCHANGED <<ctxDone, caller, selection, pool, cur, ok, results, collected, written>>

\* fetchFundBasicInfo and validateFetchedFund.
Fetch(w) ==
    /\ goto(w, "fetch", "upsert") \/ goto(w, "fetch", "send")
    /\ UNCHANGED <<ctxDone, caller, selection, pool, cur, ok, results, collected, written>>

Mut_BeginUpsert(w) ==       \* the upsert has a context of its own
    /\ goto(w, "upsert", "writing")
    /\ UNCHANGED <<ctxDone, caller, selection, pool, cur, ok, results, collected, written>>

\* The driver refuses a call whose context is over.
BeginUpsert(w) ==
    /\ IF ctxDone THEN goto(w, "upsert", "send") ELSE goto(w, "upsert", "writing")
    /\ UNCHANGED <<ctxDone, caller, selection, pool, cur, ok, results, collected, written>>

\* An upsert that returns an error may have been applied.  The snapshot that
\* follows a success is only logged when it fails.
EndUpsert(w) ==
    /\ goto(w, "writing", "send")
    /\ \/ written' = written \cup {targets[cur[w]]} /\ ok' = [ok EXCEPT ![w] = TRUE]
       \/ written' = written \cup {targets[cur[w]]} /\ UNCHANGED ok
       \/ UNCHANGED <<written, ok>>
    /\ UNCHANGED <<ctxDone, caller, selection, pool, cur, results, collected>>

Send(w) ==
    /\ goto(w, "send", "recv")
    /\ Cardinality(results) < ResultsCap
    /\ results' = results \cup {[job |-> cur[w], ok |-> ok[w]]}
    /\ cur' = [cur EXCEPT ![w] = NoJob]
    /\ ok' = [ok EXCEPT ![w] = FALSE]
    /\ UNCHANGED <<ctxDone, caller, selection, pool, collected, written>>

WorkerStep(w) ==
    Take(w) \/ WorkerExit(w) \/ Fetch(w) \/ BeginUpsert(w) \/ EndUpsert(w) \/ Send(w)

CallerStep ==
    \/ \E raw \in todo : appendUniqueValidCode(raw)
    \/ \E found \in SUBSET Raw : FindWatchlistCodes(found)
    \/ BuildFails \/ StartPool \/ GiveUp
    \/ \E r \in results : Collect(r)

ProducerStep == Feed \/ CloseJobs

Next == CtxDone \/ CallerStep \/ ProducerStep \/ \E w \in Workers : WorkerStep(w)

Spec == Init /\ [][Next]_vars

\* Goroutines that can run do; the HTTP client and the driver time out.  The
\* context need not expire.
Fairness ==
    /\ WF_vars(CallerStep)
    /\ WF_vars(ProducerStep)
    /\ \A w \in Workers : WF_vars(WorkerStep(w))

FairSpec == Spec /\ Fairness

-----------------------------------------------------------------------------
(* Properties                                                              *)

\* A job that was taken is in exactly one place until it is collected, and no
\* two jobs are for one fund although the watchlists may name it in several
\* ways: no fund is updated twice in a run and no result is lost.
InHand == {cur[w] : w \in {v \in Workers : cur[v] # NoJob}}
Resulted == {r.job : r \in results}
Collected == {r.job : r \in collected}

CodesConserved ==
    /\ 1..taken = InHand \cup Resulted \cup Collected
    /\ InHand \cap (Resulted \cup Collected) = {}
    /\ Resulted \cap Collected = {}
    /\ \A v, w \in Workers : cur[v] = cur[w] /\ cur[v] # NoJob => v = w
    /\ \A i, j \in Jobs : targets[i] = targets[j] => i = j

\* What the answer claims was written: every updated code, and with status
\* "success" every target.  Every code that was asked for, by default or by a
\* watchlist, is reported exactly once, as updated, failed or skipped.
AnswerIsTrue ==
    caller = "done" =>
        /\ updatedCodes \subseteq written
        /\ updatedCodes \cap failedCodes = {}
        /\ Status = "success" => written = Seen
        /\ updatedCodes \cup failedCodes \cup skipped
              = Defaults \cup {TrimSpace(raw) : raw \in listed}

\* When the call has returned and the lock is about to be released, no upsert
\* starts any more; only those already sent to MongoDB can still land.
NoWriteStartsAfterReturn ==
    [][\A w \in Workers : caller = "done" /\ wpc[w] # "writing" => wpc'[w] # "writing"]_vars

\* Whoever waits at a channel waits for a goroutine that is still there, whether
\* or not the context has expired: a worker finds room for its result, the caller
\* that has not every result and the producer that has a job left have a worker.
NobodyWaitsInVain ==
    /\ \A w \in Workers : wpc[w] = "send" => Cardinality(results) < ResultsCap
    /\ (caller = "collect" /\ results = {} /\ ~ctxDone) \/ producer = "feeding" =>
          \E w \in Workers : wpc[w] \notin {"new", "exit"}

\* The run keeps the promise of UpdateRun: no code has two upserts, none begins
\* outside the call, and the answer calls nothing updated that is not.
At(places) == {targets[cur[w]] : w \in {v \in Workers : wpc[v] \in places}}

progress ==
    [c \in Codes |->
        IF c \in At({"writing"}) THEN "writing"
        ELSE IF c \in {targets[j] : j \in 1..taken} \ At({"fetch", "upsert"}) THEN "settled"
        ELSE IF c \in Seen THEN "pending" ELSE "none"]

phase ==
    IF caller \in {"defaults", "watchlist"} THEN "selecting"
    ELSE IF caller = "collect" THEN "running" ELSE "returned"

updated == IF phase = "returned" THEN updatedCodes ELSE {}

Promise == INSTANCE UpdateRun
ImplementsRun == Promise!Spec

\* Nothing leaks: the run ends, and so do all its goroutines, although after a
\* timeout nobody reads their results.
PoolDrains ==
    caller = "collect" ~>
        caller = "done" /\ producer = "closed" /\ \A w \in Workers : wpc[w] \in {"new", "exit"}
=============================================================================
