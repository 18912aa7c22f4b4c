------------------------ MODULE UpdateWorkersProofs -------------------------
(***************************************************************************)
(* For any codes, watchlists and number of workers: no job is lost or      *)
(* doubled, the answer of a run is true, no upsert starts after it, nobody *)
(* waits for a goroutine that is gone, and the run implements UpdateRun.   *)
(***************************************************************************)
EXTENDS UpdateWorkers, FiniteSetTheorems, TLAPS

Requested == Defaults \cup {TrimSpace(raw) : raw \in listed}
ToAppend == {TrimSpace(raw) : raw \in todo}

\* While the targets are built nothing runs.
Idle ==
    /\ todo # {} => caller \in {"defaults", "watchlist"}
    /\ caller = "defaults" => listed = {}
    /\ caller \in {"defaults", "watchlist", "failed"} =>
          /\ producer = "new" /\ fed = 0
          /\ results = {} /\ collected = {} /\ written = {}
          /\ \A w \in Workers : wpc[w] = "new"

\* The targets are distinct, and with what was skipped and what is still to be
\* appended they are what was asked for.
Selected ==
    /\ \A i, j \in Jobs : targets[i] = targets[j] => i = j
    /\ Seen \cup skipped \cup ToAppend = Requested

\* A worker has a job exactly while it handles one.
Hands ==
    /\ \A w \in Workers : cur[w] # NoJob <=> wpc[w] \in {"fetch", "upsert", "writing", "send"}
    /\ \A w \in Workers : ok[w] => wpc[w] = "send"

\* Every taken job is in one place.
Places ==
    /\ 1..taken = InHand \cup Resulted \cup Collected
    /\ InHand \cap (Resulted \cup Collected) = {}
    /\ Resulted \cap Collected = {}
    /\ \A v, w \in Workers : cur[v] = cur[w] /\ cur[v] # NoJob => v = w
    /\ \A r, q \in results \cup collected : r.job = q.job => r = q

\* A positive result stands for a write.
OkIsWritten ==
    /\ \A w \in Workers : ok[w] => targets[cur[w]] \in written
    /\ \A r \in results \cup collected : r.ok => targets[r.job] \in written
    /\ written \subseteq Seen

\* A caller that did not give up has every result.
AllCollected == caller = "done" /\ ~ctxDone => Collected = Jobs

WorkersInv == TypeOK /\ Idle /\ Selected /\ Hands /\ Places /\ OkIsWritten /\ AllCollected

\* Results for distinct jobs are never more than the jobs, and as many only when
\* there is one for each.
LEMMA ResultsCounted ==
    ASSUME NEW n \in Nat, NEW S, S \subseteq [job : 1..n, ok : BOOLEAN],
           \A r, q \in S : r.job = q.job => r = q
    PROVE  /\ Cardinality(S) \in Nat /\ Cardinality(S) <= n
           /\ Cardinality(S) = n <=> {r.job : r \in S} = 1..n
<1> DEFINE f == [r \in S |-> r.job]
<1>1. f \in Injection(S, 1..n)
    BY DEF Injection, IsInjective
<1>2. IsFiniteSet(1..n) /\ Cardinality(1..n) = n
    BY FS_Interval
<1>3. /\ IsFiniteSet(S) /\ Cardinality(S) <= n
      /\ Cardinality(S) = n <=> f \in Surjection(S, 1..n)
    BY <1>1, <1>2, FS_Injection
<1>4. f \in Surjection(S, 1..n) <=> {r.job : r \in S} = 1..n
    <2>1. ASSUME f \in Surjection(S, 1..n) PROVE {r.job : r \in S} = 1..n
        <3>1. \A j \in 1..n : \E r \in S : r.job = j
            BY <2>1 DEF Surjection
        <3> QED BY <3>1
    <2>2. ASSUME {r.job : r \in S} = 1..n PROVE f \in Surjection(S, 1..n)
        <3>1. \A j \in 1..n : \E r \in S : f[r] = j
            BY <2>2
        <3>2. f \in [S -> 1..n]
            OBVIOUS
        <3> QED BY <3>1, <3>2 DEF Surjection
    <2> QED BY <2>1, <2>2
<1> QED
    BY <1>3, <1>4, FS_CardinalityType

\* What a step leaves alone.
LEMMA PlacesStay ==
    ASSUME Places, UNCHANGED <<taken, cur, results, collected>>
    PROVE  Places'
<1>1. InHand' = InHand /\ Resulted' = Resulted /\ Collected' = Collected
    BY DEF InHand, Resulted, Collected
<1> QED BY <1>1 DEF Places

LEMMA SelectedStays ==
    ASSUME Selected, UNCHANGED selection
    PROVE  Selected' /\ Seen' = Seen /\ Jobs' = Jobs
<1>1. /\ Jobs' = Jobs /\ Seen' = Seen
      /\ ToAppend' = ToAppend /\ Requested' = Requested
    BY DEF Jobs, Seen, ToAppend, Requested, selection
<1> QED BY <1>1 DEF Selected, selection

LEMMA WorkersInvInitial == Init => WorkersInv
<1> SUFFICES ASSUME Init PROVE WorkersInv
    OBVIOUS
<1> USE RunConstants DEF Init
<1>1. Jobs = {} /\ InHand = {} /\ Resulted = {} /\ Collected = {} /\ Seen = {}
    BY DEF Jobs, InHand, Resulted, Collected, Seen
<1>2. TypeOK
    <2>1. todo \subseteq Raw
        BY DEF Raw
    <2>2. targets \in Seq(Codes) /\ Len(targets) = 0
        OBVIOUS
    <2>3. fed \in 0..Len(targets) /\ taken \in 0..fed
        BY <2>2
    <2>4. cur \in [Workers -> Jobs \cup {NoJob}]
        OBVIOUS
    <2> QED BY <2>1, <2>2, <2>3, <2>4 DEF TypeOK
<1>3. Idle /\ Hands /\ OkIsWritten /\ AllCollected
    BY DEF Idle, Hands, OkIsWritten, AllCollected, Workers, NoJob
<1>4. Selected
    <2>1. \A c \in Defaults : [text |-> c, padded |-> FALSE] \in todo
        OBVIOUS
    <2>2. \A raw \in todo : raw.text \in Defaults
        OBVIOUS
    <2>3. ToAppend = {raw.text : raw \in todo}
        BY DEF ToAppend, TrimSpace
    <2>4. {raw.text : raw \in todo} = Defaults
        <3>1. ASSUME NEW c \in Defaults PROVE c \in {raw.text : raw \in todo}
            <4>1. [text |-> c, padded |-> FALSE].text = c
                OBVIOUS
            <4> QED BY <2>1, <4>1
        <3> QED BY <2>2, <3>1
    <2>5. Requested = Defaults
        BY DEF Requested
    <2> QED BY <1>1, <2>3, <2>4, <2>5 DEF Selected, Jobs
<1>5. Places
    BY <1>1 DEF Places, NoJob
<1> QED
    BY <1>2, <1>3, <1>4, <1>5 DEF WorkersInv

\* Appending a code keeps the targets distinct and loses no request.
LEMMA AppendKeeps ==
    ASSUME WorkersInv, NEW raw \in todo, appendUniqueValidCode(raw)
    PROVE  WorkersInv'
<1> USE DEF WorkersInv, appendUniqueValidCode, pool, worker
<1> DEFINE code == TrimSpace(raw)
<1>1. /\ caller \in {"defaults", "watchlist"}
      /\ caller' = caller /\ listed' = listed
      /\ code \in Codes \cup Junk
    BY RunConstants DEF Idle, TypeOK, Raw, TrimSpace
<1>2. /\ producer = "new" /\ fed = 0 /\ taken = 0
      /\ results = {} /\ collected = {} /\ written = {}
      /\ \A w \in Workers : wpc[w] = "new" /\ cur[w] = NoJob /\ ok[w] = FALSE
    BY <1>1 DEF Idle, Hands, TypeOK
<1>3. targets \in Seq(Codes)
    BY DEF TypeOK
<1>4. \/ targets' = targets
      \/ code \in Codes /\ code \notin Seen /\ targets' = Append(targets, code)
    OBVIOUS
<1>5. targets' \in Seq(Codes) /\ skipped' \subseteq Junk
    BY <1>1, <1>3, <1>4 DEF TypeOK
<1>6. TypeOK'
    BY <1>2, <1>5 DEF TypeOK, Jobs, NoJob, Result
<1>7. Seen' \cup skipped' = Seen \cup skipped \cup {code}
    <2>1. CASE targets' = targets
        BY <2>1 DEF Seen, Jobs
    <2>2. CASE code \in Codes /\ code \notin Seen /\ targets' = Append(targets, code)
        <3>1. /\ Len(targets') = Len(targets) + 1
              /\ targets'[Len(targets) + 1] = code
              /\ \A i \in Jobs : targets'[i] = targets[i]
            BY <2>2, <1>3 DEF Jobs
        <3>2. Seen' = Seen \cup {code}
            BY <3>1, <1>3 DEF Seen, Jobs
        <3> QED BY <3>2, <2>2
    <2> QED BY <1>4, <2>1, <2>2
<1>8. ToAppend \subseteq ToAppend' \cup {code} /\ ToAppend' \subseteq ToAppend /\ code \in ToAppend
    BY DEF ToAppend
<1>9. \A i, j \in Jobs' : targets'[i] = targets'[j] => i = j
    <2>1. CASE targets' = targets
        BY <2>1 DEF Selected, Jobs
    <2>2. CASE code \in Codes /\ code \notin Seen /\ targets' = Append(targets, code)
        BY <2>2, <1>3 DEF Selected, Seen, Jobs
    <2> QED BY <1>4, <2>1, <2>2
<1>10. Selected'
    BY <1>1, <1>7, <1>8, <1>9 DEF Selected, Requested
<1>11. Idle' /\ Hands' /\ OkIsWritten' /\ AllCollected'
    BY <1>1, <1>2 DEF Idle, Hands, OkIsWritten, AllCollected, NoJob
<1>12. Places'
    BY <1>2 DEF Places, InHand, Resulted, Collected, NoJob
<1> QED
    BY <1>6, <1>10, <1>11, <1>12

\* The steps before the pool runs, and the context's end.
LEMMA CallerKeeps ==
    ASSUME WorkersInv,
           \/ \E found \in SUBSET Raw : FindWatchlistCodes(found)
           \/ BuildFails \/ StartPool \/ GiveUp \/ CtxDone
    PROVE  WorkersInv'
<1> USE DEF WorkersInv, selection, pool, worker
<1>1. ASSUME NEW found \in SUBSET Raw, FindWatchlistCodes(found) PROVE WorkersInv'
    <2> USE <1>1 DEF FindWatchlistCodes
    <2>1. TypeOK' /\ Idle' /\ Hands' /\ OkIsWritten' /\ AllCollected'
        BY DEF TypeOK, Idle, Hands, OkIsWritten, AllCollected, Jobs, Seen, Result
    <2>2. Places'
        BY PlacesStay
    <2>3. Selected'
        BY DEF Selected, Idle, Requested, ToAppend, Seen, Jobs
    <2> QED BY <2>1, <2>2, <2>3
<1>2. ASSUME BuildFails PROVE WorkersInv'
    <2> USE <1>2 DEF BuildFails
    <2>1. TypeOK' /\ Idle' /\ Hands' /\ OkIsWritten' /\ AllCollected'
        BY DEF TypeOK, Idle, Hands, OkIsWritten, AllCollected, Jobs, Seen, Result
    <2>2. Places' /\ Selected'
        BY PlacesStay, SelectedStays
    <2> QED BY <2>1, <2>2
<1>3. ASSUME StartPool PROVE WorkersInv'
    <2> USE <1>3 DEF StartPool
    <2>1. /\ producer = "new" /\ fed = 0 /\ caller = "watchlist"
          /\ results = {} /\ collected = {} /\ written = {}
          /\ \A w \in Workers : wpc[w] = "new" /\ cur[w] = NoJob /\ ok[w] = FALSE
        BY DEF Idle, Hands, TypeOK
    <2>2. /\ caller' \in {"collect", "done"} /\ producer' \in {"new", "feeding"}
          /\ wpc' \in [Workers -> {"new", "recv"}]
        <3>1. CASE targets = <<>>
            <4>1. wpc = [w \in Workers |-> "new"]
                BY <2>1 DEF TypeOK
            <4> QED BY <3>1, <4>1, <2>1
        <3>2. CASE targets # <<>>
            BY <3>2
        <3> QED BY <3>1, <3>2
    <2>3. TypeOK' /\ Idle' /\ Hands' /\ OkIsWritten'
        BY <2>1, <2>2 DEF TypeOK, Idle, Hands, OkIsWritten, Jobs, Seen, Result
    <2>4. AllCollected'
        <3>1. caller' = "done" => Len(targets) = 0
            OBVIOUS
        <3> QED BY <3>1, <2>1 DEF AllCollected, Collected, Jobs
    <2>5. Places' /\ Selected'
        BY PlacesStay, SelectedStays
    <2> QED BY <2>3, <2>4, <2>5
<1>4. ASSUME GiveUp \/ CtxDone PROVE WorkersInv'
    <2> USE <1>4 DEF GiveUp, CtxDone
    <2>1. TypeOK' /\ Idle' /\ Hands'
        BY DEF TypeOK, Idle, Hands, Jobs, Result
    <2>3. OkIsWritten' /\ AllCollected'
        BY SelectedStays DEF OkIsWritten, AllCollected, Collected
    <2>2. Places' /\ Selected'
        BY PlacesStay, SelectedStays
    <2> QED BY <2>1, <2>2, <2>3
<1> QED
    BY <1>1, <1>2, <1>3, <1>4

\* The collector moves a result, and ends with one for every job.
LEMMA CollectKeeps ==
    ASSUME WorkersInv, NEW r \in results, Collect(r)
    PROVE  WorkersInv'
<1> USE DEF WorkersInv, Collect, selection, pool, worker
<1>1. TypeOK' /\ Idle' /\ Hands' /\ OkIsWritten'
    BY DEF TypeOK, Idle, Hands, OkIsWritten, Jobs, Seen, Result
<1>2. Selected'
    BY SelectedStays
<1>3. r.job \in Resulted /\ r.job \notin Collected /\ r.job \notin InHand
    BY DEF Places, Resulted
<1>4. Collected' = Collected \cup {r.job} /\ InHand' = InHand
    BY DEF Collected, InHand
<1>5. Resulted' \cup {r.job} = Resulted
    BY DEF Resulted
<1>6. r.job \notin Resulted'
    <2>1. \A q \in results : q.job = r.job => q = r
        BY DEF Places
    <2> QED BY <2>1 DEF Resulted
<1>7. Places'
    <2>1. \A p, q \in results' \cup collected' : p.job = q.job => p = q
        BY DEF Places
    <2> QED BY <2>1, <1>3, <1>4, <1>5, <1>6 DEF Places
<1>8. AllCollected'
    <2>1. SUFFICES ASSUME caller' = "done" PROVE Collected' = Jobs'
        BY DEF AllCollected
    <2>2. Cardinality(collected') = Len(targets) /\ Len(targets) \in Nat
        BY <2>1 DEF TypeOK
    <2>3. collected' \subseteq [job : 1..Len(targets), ok : BOOLEAN]
        BY <1>1 DEF TypeOK, Result, Jobs
    <2>4. {q.job : q \in collected'} = 1..Len(targets)
        BY <1>7, <2>2, <2>3, ResultsCounted DEF Places
    <2> QED BY <2>4 DEF Collected, Jobs
<1> QED
    BY <1>1, <1>2, <1>7, <1>8

LEMMA ProducerKeeps ==
    ASSUME WorkersInv, Feed \/ CloseJobs
    PROVE  WorkersInv'
<1> USE DEF WorkersInv, Feed, CloseJobs, selection, worker
<1>1. TypeOK' /\ Idle' /\ Hands' /\ OkIsWritten' /\ AllCollected'
    BY DEF TypeOK, Idle, Hands, OkIsWritten, AllCollected, Jobs, Seen, Result, Collected
<1>2. Places' /\ Selected'
    BY PlacesStay, SelectedStays
<1> QED BY <1>1, <1>2

\* A worker takes the next job: it leaves the channel for the worker's hand.
LEMMA TakeKeeps ==
    ASSUME WorkersInv, NEW w \in Workers, Take(w)
    PROVE  WorkersInv'
<1> USE DEF WorkersInv, Take, goto, selection
<1>1. /\ taken + 1 \in Jobs /\ taken \in Nat
      /\ cur[w] = NoJob /\ wpc[w] = "recv" /\ ok[w] = FALSE
      /\ caller \notin {"defaults", "watchlist", "failed"}
    BY DEF TypeOK, Hands, Jobs, Idle, NoJob
<1>2. TypeOK'
    BY <1>1 DEF TypeOK, Jobs, Result
<1>3. Selected' /\ Seen' = Seen /\ Jobs' = Jobs
    BY SelectedStays
<1>4. Idle' /\ Hands' /\ AllCollected'
    BY <1>1, <1>3 DEF TypeOK, Idle, Hands, AllCollected, Collected, NoJob, Jobs
<1>5. OkIsWritten'
    BY <1>1, <1>3 DEF OkIsWritten, TypeOK
<1>6. /\ Resulted' = Resulted /\ Collected' = Collected
      /\ InHand' = InHand \cup {taken + 1}
    <2>1. \A v \in Workers : cur'[v] = IF v = w THEN taken + 1 ELSE cur[v]
        BY DEF TypeOK
    <2>2. InHand' = InHand \cup {taken + 1}
        BY <2>1, <1>1 DEF InHand, NoJob, Jobs
    <2> QED BY <2>2 DEF Resulted, Collected
<1>7. Places'
    <2>1. taken + 1 \notin 1..taken /\ 1..taken' = 1..taken \cup {taken + 1}
        BY <1>1
    <2>2. \A v \in Workers : cur[v] # NoJob => cur[v] \in 1..taken
        BY DEF Places, InHand
    <2>3. \A v, u \in Workers : cur'[v] = cur'[u] /\ cur'[v] # NoJob => v = u
        BY <2>1, <2>2 DEF Places, TypeOK
    <2> QED BY <1>6, <2>1, <2>3 DEF Places
<1> QED BY <1>2, <1>3, <1>4, <1>5, <1>7

\* The steps of a worker on the job it has.
LEMMA HandleKeeps ==
    ASSUME WorkersInv, NEW w \in Workers,
           WorkerExit(w) \/ Fetch(w) \/ BeginUpsert(w) \/ EndUpsert(w)
    PROVE  WorkersInv'
<1> USE DEF WorkersInv, WorkerExit, Fetch, BeginUpsert, EndUpsert, goto
<1>1. Selected' /\ Seen' = Seen /\ Jobs' = Jobs
    BY SelectedStays DEF selection
<1>2. Places'
    BY PlacesStay DEF pool
<1>3. /\ wpc' \in [Workers -> {"new", "recv", "fetch", "upsert", "writing", "send", "exit"}]
      /\ \A v \in Workers : v # w => wpc'[v] = wpc[v]
      /\ caller' = caller /\ cur' = cur /\ results' = results /\ collected' = collected
    BY DEF TypeOK
<1>4. /\ caller \notin {"defaults", "watchlist", "failed"}
      /\ ok[w] = FALSE
      /\ cur[w] # NoJob <=> wpc'[w] \in {"fetch", "upsert", "writing", "send"}
    BY DEF Idle, Hands, TypeOK
<1>5. /\ written' \subseteq Codes /\ written' \subseteq Seen /\ written \subseteq written'
      /\ ok' \in [Workers -> BOOLEAN]
      /\ \A v \in Workers : v # w => ok'[v] = ok[v]
      /\ ok'[w] => wpc'[w] = "send" /\ targets[cur[w]] \in written'
    <2>1. CASE EndUpsert(w)
        <3>1. cur[w] \in Jobs
            BY <2>1 DEF Hands, TypeOK
        <3>2. targets[cur[w]] \in Seen /\ targets[cur[w]] \in Codes
            BY <3>1 DEF Seen, Jobs, TypeOK
        <3> QED BY <2>1, <3>2, <1>3, <1>4 DEF TypeOK, OkIsWritten
    <2>2. CASE UNCHANGED <<written, ok>>
        BY <2>2, <1>4 DEF TypeOK, OkIsWritten
    <2> QED BY <2>1, <2>2
<1>6. TypeOK' /\ Idle' /\ Hands' /\ AllCollected'
    BY <1>1, <1>3, <1>4, <1>5 DEF TypeOK, Idle, Hands, AllCollected, Collected, pool, selection, Result
<1>7. OkIsWritten'
    BY <1>1, <1>3, <1>5 DEF OkIsWritten, selection
<1> QED BY <1>1, <1>2, <1>6, <1>7

\* A result goes from the worker's hand into the channel.
LEMMA SendKeeps ==
    ASSUME WorkersInv, NEW w \in Workers, Send(w)
    PROVE  WorkersInv'
<1> USE DEF WorkersInv, Send, goto, selection, pool
<1> DEFINE r == [job |-> cur[w], ok |-> ok[w]]
<1>1. /\ cur[w] \in Jobs /\ r \in Result
      /\ caller \notin {"defaults", "watchlist", "failed"}
    BY DEF TypeOK, Hands, Idle, Result
<1>2. /\ \A v \in Workers : cur'[v] = IF v = w THEN NoJob ELSE cur[v]
      /\ \A v \in Workers : ok'[v] = IF v = w THEN FALSE ELSE ok[v]
      /\ \A v \in Workers : wpc'[v] = IF v = w THEN "recv" ELSE wpc[v]
    BY DEF TypeOK
<1>3. Selected' /\ Seen' = Seen /\ Jobs' = Jobs
    BY SelectedStays
<1>4. TypeOK'
    BY <1>1, <1>3 DEF TypeOK, Result
<1>5. Idle'
    BY <1>1 DEF Idle
<1>6. Hands'
    BY <1>2 DEF Hands, TypeOK
<1>7. AllCollected'
    BY <1>3 DEF AllCollected, Collected
<1>8. OkIsWritten'
    <2>1. results' = results \cup {r} /\ r.job = cur[w] /\ r.ok = ok[w]
        OBVIOUS
    <2>2. ok[w] => targets[cur[w]] \in written
        BY DEF OkIsWritten
    <2>3. \A q \in results' \cup collected' : q.ok => targets[q.job] \in written
        BY <2>1, <2>2 DEF OkIsWritten
    <2>4. \A v \in Workers : ok'[v] => targets[cur'[v]] \in written
        BY <1>2 DEF OkIsWritten
    <2> QED BY <2>3, <2>4, <1>3 DEF OkIsWritten
<1>9. Places'
    <2>1. cur[w] \in InHand /\ cur[w] # NoJob
        BY <1>1 DEF InHand, Jobs, NoJob
    <2>2. Resulted' = Resulted \cup {cur[w]} /\ Collected' = Collected
        <3>1. results' = results \cup {r} /\ r.job = cur[w]
            OBVIOUS
        <3> QED BY <3>1 DEF Resulted, Collected
    <2>3. InHand' = InHand \ {cur[w]}
        BY <1>2, <2>1 DEF InHand, Places
    <2>4. \A p, q \in results' \cup collected' : p.job = q.job => p = q
        <3>1. \A p \in results \cup collected : p.job # cur[w]
            BY <2>1 DEF Places, Resulted, Collected
        <3> QED BY <3>1 DEF Places
    <2>5. \A v, u \in Workers : cur'[v] = cur'[u] /\ cur'[v] # NoJob => v = u
        BY <1>2 DEF Places
    <2> QED BY <2>1, <2>2, <2>3, <2>4, <2>5 DEF Places, pool
<1> QED BY <1>3, <1>4, <1>5, <1>6, <1>7, <1>8, <1>9

LEMMA WorkersInvPreserved == WorkersInv /\ [Next]_vars => WorkersInv'
<1> SUFFICES ASSUME WorkersInv, [Next]_vars PROVE WorkersInv'
    OBVIOUS
<1>1. CASE UNCHANGED vars
    <2> USE <1>1 DEF WorkersInv, vars, selection, pool, worker
    <2>1. Selected' /\ Places' /\ Seen' = Seen /\ Jobs' = Jobs
        BY SelectedStays, PlacesStay
    <2>2. TypeOK' /\ Idle' /\ Hands' /\ OkIsWritten' /\ AllCollected'
        BY <2>1 DEF TypeOK, Idle, Hands, OkIsWritten, AllCollected, Collected, Result
    <2> QED BY <2>1, <2>2
<1>2. CASE CallerStep \/ CtxDone
    BY <1>2, AppendKeeps, CallerKeeps, CollectKeeps DEF CallerStep
<1>3. CASE ProducerStep
    BY <1>3, ProducerKeeps DEF ProducerStep
<1>4. ASSUME NEW w \in Workers, WorkerStep(w) PROVE WorkersInv'
    BY <1>4, TakeKeeps, HandleKeeps, SendKeeps DEF WorkerStep
<1> QED
    BY <1>1, <1>2, <1>3, <1>4 DEF Next

THEOREM WorkersInvariant == Spec => []WorkersInv
BY WorkersInvInitial, WorkersInvPreserved, PTL DEF Spec

\* No job is lost or doubled on its way through the channels and workers, and
\* no fund has two jobs (runUpdateWorkers, appendUniqueValidCode).
THEOREM JobsConserved == Spec => []CodesConserved
<1>1. WorkersInv => CodesConserved
    BY DEF WorkersInv, Places, Selected, CodesConserved
<1> QED BY <1>1, WorkersInvariant, PTL

\* What executeFundUpdate answers is what was written, and nothing that was
\* asked for is left out of the answer.
THEOREM AnswersAreTrue == Spec => []AnswerIsTrue
<1>1. WorkersInv => AnswerIsTrue
    <2> SUFFICES ASSUME WorkersInv, caller = "done"
                 PROVE  /\ updatedCodes \subseteq written
                        /\ updatedCodes \cap failedCodes = {}
                        /\ Status = "success" => written = Seen
                        /\ updatedCodes \cup failedCodes \cup skipped = Requested
        BY DEF AnswerIsTrue, Requested
    <2> USE DEF WorkersInv
    <2>1. updatedCodes \subseteq written /\ written \subseteq Seen
        BY DEF updatedCodes, OkIsWritten
    <2>2. updatedCodes \subseteq completedCodes
        BY DEF updatedCodes, completedCodes
    <2>3. \A r, q \in collected : targets[r.job] = targets[q.job] => r = q
        BY DEF Places, Selected, TypeOK, Result
    <2>4. updatedCodes \cap failedCodes = {}
        BY <2>2, <2>3 DEF updatedCodes, failedCodes
    <2>5. completedCodes \subseteq updatedCodes \cup failedCodes
        BY DEF completedCodes, updatedCodes, failedCodes
    <2>6. completedCodes \subseteq Seen
        BY DEF completedCodes, Seen, TypeOK, Result
    <2>7. failedCodes \subseteq Seen
        BY DEF failedCodes, Seen, TypeOK, Result
    <2>8. updatedCodes \cup failedCodes = Seen
        <3>1. Seen \ completedCodes \subseteq failedCodes
            BY DEF failedCodes
        <3> QED BY <3>1, <2>1, <2>5, <2>7
    <2>9. todo = {}
        BY DEF Idle
    <2>10. ToAppend = {}
        BY <2>9 DEF ToAppend
    <2>11. Status = "success" => failedCodes = {}
        BY DEF Status
    <2> QED BY <2>1, <2>4, <2>8, <2>10, <2>11 DEF Selected
<1> QED BY <1>1, WorkersInvariant, PTL

\* After executeFundUpdate has returned no worker begins an upsert: either its
\* context is over, which the driver checks, or it had every result.
THEOREM NoLateWriteStarts == Spec => NoWriteStartsAfterReturn
<1> DEFINE Step == \A w \in Workers :
                caller = "done" /\ wpc[w] # "writing" => wpc'[w] # "writing"
<1>1. WorkersInv /\ [Next]_vars => [Step]_vars
    <2> SUFFICES ASSUME WorkersInv, Next, NEW w \in Workers, caller = "done",
                        wpc[w] # "writing", wpc'[w] = "writing"
                 PROVE  FALSE
        OBVIOUS
    <2> USE DEF WorkersInv
    <2>1. BeginUpsert(w) /\ ~ctxDone /\ wpc[w] = "upsert"
        <3>1. CASE CtxDone \/ CallerStep \/ ProducerStep
            <4>1. ~StartPool
                BY DEF StartPool
            <4> QED BY <3>1, <4>1 DEF CtxDone, CallerStep, ProducerStep, appendUniqueValidCode,
                  FindWatchlistCodes, BuildFails, GiveUp, Collect, Feed, CloseJobs, worker
        <3>2. ASSUME NEW v \in Workers, WorkerStep(v)
              PROVE  v = w /\ BeginUpsert(v) /\ ~ctxDone /\ wpc[v] = "upsert"
            BY <3>2 DEF WorkerStep, Take, WorkerExit, Fetch, BeginUpsert, EndUpsert, Send,
                  goto, TypeOK
        <3> QED BY <3>1, <3>2 DEF Next
    <2>2. Collected = Jobs
        BY <2>1 DEF AllCollected
    <2>3. cur[w] \in Jobs /\ cur[w] \in InHand
        BY <2>1 DEF Hands, TypeOK, InHand
    <2> QED BY <2>2, <2>3 DEF Places
<1> QED
    BY <1>1, WorkersInvariant, PTL DEF Spec, NoWriteStartsAfterReturn

\* The pool is staffed while somebody needs it: a worker leaves only when the
\* jobs are closed and taken, they are closed early only by the context, and a
\* caller that waits misses a result.
Staffed ==
    /\ \A w \in Workers : wpc[w] = "exit" => producer = "closed" /\ taken = fed
    /\ producer = "closed" => fed = Len(targets) \/ ctxDone
    /\ caller = "collect" \/ producer = "feeding" => wpc[1] # "new"
    /\ caller = "collect" => Collected # Jobs

LEMMA StaffedInitial == Init => Staffed
BY DEF Init, Staffed

\* A step of a worker, which begins and ends no goroutine but its own.
LEMMA WorkerStaffs ==
    ASSUME WorkersInv, Staffed, NEW w \in Workers, WorkerStep(w)
    PROVE  Staffed'
<1> USE DEF WorkersInv, Staffed
<1>1. /\ UNCHANGED <<ctxDone, caller, selection, producer, fed, collected>>
      /\ taken' = taken \/ taken < fed
      /\ wpc[w] \notin {"new", "exit"}
    BY DEF WorkerStep, Take, WorkerExit, Fetch, BeginUpsert, EndUpsert, Send, goto, pool
<1>2. /\ \A v \in Workers : v # w => wpc'[v] = wpc[v]
      /\ wpc'[w] # "new"
      /\ wpc'[w] = "exit" => taken = fed /\ producer = "closed" /\ taken' = taken
    BY DEF WorkerStep, Take, WorkerExit, Fetch, BeginUpsert, EndUpsert, Send, goto, pool, TypeOK
<1>3. Collected' = Collected /\ Jobs' = Jobs
    BY <1>1 DEF Collected, Jobs, selection
<1>4. \A v \in Workers : wpc'[v] = "exit" => producer = "closed" /\ taken' = fed
    <2> SUFFICES ASSUME NEW v \in Workers, wpc'[v] = "exit"
                 PROVE  producer = "closed" /\ taken' = fed
        OBVIOUS
    <2>1. CASE v = w
        BY <2>1, <1>2
    <2>2. CASE v # w
        BY <2>2, <1>1, <1>2 DEF TypeOK
    <2> QED BY <2>1, <2>2
<1>5. wpc[1] # "new" => wpc'[1] # "new"
    BY <1>2, RunConstants DEF Workers
<1> QED BY <1>1, <1>3, <1>4, <1>5 DEF selection

LEMMA StaffedPreserved == WorkersInv /\ Staffed /\ [Next]_vars => Staffed'
<1> SUFFICES ASSUME WorkersInv, Staffed, [Next]_vars PROVE Staffed'
    OBVIOUS
<1> USE DEF WorkersInv, Staffed, selection, pool, worker
<1>1. CASE UNCHANGED vars
    BY <1>1 DEF vars, Collected, Jobs
<1>2. ASSUME NEW raw \in todo, appendUniqueValidCode(raw) PROVE Staffed'
    BY <1>2 DEF appendUniqueValidCode, Idle
<1>3. ASSUME \/ \E found \in SUBSET Raw : FindWatchlistCodes(found)
             \/ BuildFails
      PROVE  Staffed'
    BY <1>3 DEF FindWatchlistCodes, BuildFails, Idle
<1>4. CASE StartPool
    <2> USE <1>4 DEF StartPool
    <2>1. producer = "new" /\ collected = {} /\ \A w \in Workers : wpc[w] = "new"
        BY DEF Idle
    <2>2. CASE targets = <<>>
        BY <2>1, <2>2
    <2>3. CASE targets # <<>>
        <3>1. Len(targets) \in Nat /\ Len(targets) > 0 /\ 1 \in Jobs
            BY <2>3 DEF TypeOK, Jobs
        <3>2. 1 \in Workers /\ 1 <= workerCount
            BY <3>1, RunConstants DEF Workers, workerCount
        <3>3. wpc'[1] = "recv" /\ \A w \in Workers : wpc'[w] # "exit"
            BY <2>3, <3>2
        <3>4. Collected' = {} /\ 1 \in Jobs'
            BY <2>1, <3>1 DEF Collected, Jobs
        <3> QED BY <2>3, <3>3, <3>4
    <2> QED BY <2>2, <2>3
<1>5. CASE GiveUp \/ CtxDone
    BY <1>5 DEF GiveUp, CtxDone, Collected, Jobs
<1>6. ASSUME NEW r \in results, Collect(r) PROVE Staffed'
    <2> USE <1>6 DEF Collect
    <2>1. WorkersInv'
        BY CollectKeeps
    <2>2. Len(targets) \in Nat /\ collected' \subseteq [job : 1..Len(targets), ok : BOOLEAN]
        BY <2>1 DEF TypeOK, Result, Jobs
    <2>3. caller' = "collect" => {q.job : q \in collected'} # 1..Len(targets)
        BY <2>1, <2>2, ResultsCounted DEF Places
    <2> QED BY <2>3 DEF Collected, Jobs
<1>7. CASE ProducerStep
    BY <1>7 DEF ProducerStep, Feed, CloseJobs, TypeOK, Collected, Jobs
<1>8. ASSUME NEW w \in Workers, WorkerStep(w) PROVE Staffed'
    BY <1>8, WorkerStaffs
<1> QED
    BY <1>1, <1>2, <1>3, <1>4, <1>5, <1>6, <1>7, <1>8 DEF Next, CallerStep

\* Nobody waits at a channel of runUpdateWorkers for a goroutine that is gone,
\* before or after the timeout: the buffer of results is large enough for
\* whatever the workers still hold, and the pool is staffed while it is needed.
THEOREM PoolNeverSticks == Spec => []NobodyWaitsInVain
<1>1. WorkersInv /\ Staffed => NobodyWaitsInVain
    <2> SUFFICES ASSUME WorkersInv, Staffed PROVE NobodyWaitsInVain
        OBVIOUS
    <2> USE DEF WorkersInv
    <2>1. ASSUME NEW w \in Workers, wpc[w] = "send"
          PROVE  Cardinality(results) < ResultsCap
        <3>1. cur[w] \in Jobs /\ cur[w] \in InHand
            BY <2>1 DEF Hands, TypeOK, InHand
        <3>2. cur[w] \notin {r.job : r \in results}
            BY <3>1 DEF Places, Resulted
        <3>3. Len(targets) \in Nat /\ results \subseteq [job : 1..Len(targets), ok : BOOLEAN]
            BY DEF TypeOK, Result, Jobs
        <3> QED BY <3>1, <3>2, <3>3, ResultsCounted DEF Places, ResultsCap, Jobs
    <2>2. 1 \in Workers
        BY RunConstants DEF Workers
    <2>3. ASSUME producer = "feeding" PROVE wpc[1] \notin {"new", "exit"}
        BY <2>2, <2>3 DEF Staffed
    <2>4. ASSUME caller = "collect", results = {}, ~ctxDone,
                 \A w \in Workers : wpc[w] \in {"new", "exit"}
          PROVE  FALSE
        <3>1. taken = Len(targets)
            BY <2>2, <2>4 DEF Staffed
        <3>2. InHand = {} /\ Resulted = {}
            BY <2>4 DEF Hands, InHand, Resulted
        <3> QED BY <2>4, <3>1, <3>2 DEF Places, Staffed, Jobs
    <2> QED BY <2>1, <2>2, <2>3, <2>4 DEF NobodyWaitsInVain
<1> QED
    BY <1>1, WorkersInvariant, StaffedInitial, StaffedPreserved, WorkersInvInitial, PTL DEF Spec

-----------------------------------------------------------------------------
\* What UpdateRun sees of a worker that has a job.
Held == {"fetch", "upsert", "writing", "send"}
ProgressAt(place) ==
    IF place = "writing" THEN "writing" ELSE IF place = "send" THEN "settled" ELSE "pending"

Taken == {targets[j] : j \in 1..taken}

\* No step that leaves the channel of jobs and these two places alone is seen.
LEMMA ProgressStays ==
    ASSUME UNCHANGED <<targets, taken>>,
           At({"writing"})' = At({"writing"}),
           At({"fetch", "upsert"})' = At({"fetch", "upsert"})
    PROVE  progress' = progress
<1>1. Seen' = Seen
    BY DEF Seen, Jobs
<1> QED BY <1>1 DEF progress

\* Of each code in a worker's hands there is no other trace.
LEMMA OneTrace ==
    ASSUME WorkersInv, NEW w \in Workers, cur[w] # NoJob
    PROVE  /\ targets[cur[w]] \in Codes /\ targets[cur[w]] \in Taken
           /\ \A v \in Workers : cur[v] # NoJob /\ targets[cur[v]] = targets[cur[w]] => v = w
<1> USE DEF WorkersInv
<1>1. \A v \in Workers : cur[v] # NoJob => cur[v] \in Jobs /\ cur[v] \in 1..taken
    BY DEF TypeOK, Places, InHand
<1>2. \A i, j \in Jobs : targets[i] = targets[j] => i = j
    BY DEF Selected
<1>3. \A v \in Workers : cur[v] = cur[w] => v = w
    BY DEF Places
<1> QED BY <1>1, <1>2, <1>3 DEF Taken, TypeOK, Jobs

\* A worker that goes on with its job moves the progress of its code.
LEMMA WorkerAdvances ==
    ASSUME WorkersInv, NEW w \in Workers, NEW from \in Held, NEW to \in Held,
           goto(w, from, to), UNCHANGED <<targets, taken, cur>>
    PROVE  /\ targets[cur[w]] \in Codes
           /\ progress[targets[cur[w]]] = ProgressAt(from)
           /\ progress' = [progress EXCEPT ![targets[cur[w]]] = ProgressAt(to)]
<1> DEFINE c == targets[cur[w]]
<1> USE DEF WorkersInv
<1>1. cur[w] # NoJob /\ wpc[w] = from /\ wpc'[w] = to
    BY DEF goto, Hands, Held, TypeOK
<1>2. \A v \in Workers : v # w => wpc'[v] = wpc[v]
    BY DEF goto, TypeOK
<1>3. /\ c \in Codes /\ c \in Taken /\ c \in Seen
      /\ Seen' = Seen /\ Taken' = Taken
    <2>1. cur[w] \in Jobs
        BY <1>1 DEF TypeOK
    <2>2. Seen' = Seen /\ Taken' = Taken
        BY DEF Seen, Jobs, Taken
    <2> QED BY <1>1, <2>1, <2>2, OneTrace DEF Seen
<1>4. \A v \in Workers : wpc[v] \in Held => cur[v] # NoJob
    BY DEF Hands, Held
<1>5. ASSUME NEW P \in SUBSET Held
      PROVE  /\ c \in At(P) <=> from \in P
             /\ c \in At(P)' <=> to \in P
             /\ \A d \in Codes : d # c => (d \in At(P)' <=> d \in At(P))
    <2>1. At(P) = {targets[cur[v]] : v \in {u \in Workers : wpc[u] \in P}}
        BY DEF At
    <2>2. At(P)' = {targets[cur[v]] : v \in {u \in Workers : wpc'[u] \in P}}
        BY DEF At
    <2>3. \A v \in Workers : cur[v] # NoJob /\ targets[cur[v]] = c => v = w
        BY <1>1, OneTrace
    <2>4. c \in At(P) <=> from \in P
        BY <2>1, <2>3, <1>1, <1>4
    <2>5. c \in At(P)' <=> to \in P
        <3>1. ASSUME c \in At(P)' PROVE to \in P
            <4>1. PICK v \in Workers : wpc'[v] \in P /\ targets[cur[v]] = c
                BY <3>1, <2>2
            <4>2. v = w
                BY <4>1, <2>3, <1>2, <1>4
            <4> QED BY <4>1, <4>2, <1>1
        <3>2. ASSUME to \in P PROVE c \in At(P)'
            BY <3>2, <2>2, <1>1
        <3> QED BY <3>1, <3>2
    <2>6. ASSUME NEW d \in Codes, d # c PROVE d \in At(P)' <=> d \in At(P)
        BY <2>1, <2>2, <2>6, <1>2
    <2> QED BY <2>4, <2>5, <2>6
<1>6. {"writing"} \in SUBSET Held /\ {"fetch", "upsert"} \in SUBSET Held
    BY DEF Held
<1>7. progress[c] = ProgressAt(from)
    BY <1>3, <1>5, <1>6 DEF progress, ProgressAt, Held, Taken
<1>8. progress'[c] = ProgressAt(to)
    BY <1>3, <1>5, <1>6 DEF progress, ProgressAt, Held, Taken
<1>9. ASSUME NEW d \in Codes, d # c PROVE progress'[d] = progress[d]
    BY <1>3, <1>5, <1>6, <1>9 DEF progress, Taken
<1>10. progress' = [progress EXCEPT ![c] = ProgressAt(to)]
    BY <1>3, <1>8, <1>9 DEF progress
<1> QED BY <1>3, <1>7, <1>10

\* What an answer is made of is over.
LEMMA ResultsSettled ==
    ASSUME WorkersInv, NEW r \in results \cup collected
    PROVE  /\ targets[r.job] \in Codes
           /\ progress[targets[r.job]] = "settled"
           /\ r.ok => targets[r.job] \in written
<1> USE DEF WorkersInv
<1> DEFINE c == targets[r.job]
<1>1. r.job \in Jobs /\ r.job \in 1..taken /\ r.job \notin InHand
    BY DEF TypeOK, Result, Places, Resulted, Collected
<1>2. c \in Codes /\ c \in Taken
    BY <1>1 DEF TypeOK, Jobs, Taken
<1>3. \A v \in Workers : wpc[v] \in Held => targets[cur[v]] # c
    BY <1>1 DEF Hands, Held, TypeOK, Selected, InHand
<1>4. c \notin At({"writing"}) /\ c \notin At({"fetch", "upsert"})
    BY <1>3 DEF At, Held
<1> QED BY <1>2, <1>4 DEF progress, Taken, OkIsWritten

\* Before the pool runs the progress of a code is whether it is a target.
LEMMA NothingTaken ==
    ASSUME taken = 0, \A w \in Workers : wpc[w] \in {"new", "recv"}
    PROVE  /\ At({"writing"}) = {} /\ At({"fetch", "upsert"}) = {}
           /\ progress = [c \in Codes |-> IF c \in Seen THEN "pending" ELSE "none"]
<1>1. At({"writing"}) = {} /\ At({"fetch", "upsert"}) = {}
    BY DEF At
<1> QED BY <1>1 DEF progress

PromiseVars == <<phase, progress, written, updated>>

\* Steps of which a caller notices nothing.
LEMMA HiddenSteps ==
    ASSUME WorkersInv,
           \/ CtxDone \/ ProducerStep
           \/ \E found \in SUBSET Raw : FindWatchlistCodes(found)
           \/ \E w \in Workers : Take(w) \/ WorkerExit(w) \/ Send(w)
    PROVE  UNCHANGED PromiseVars
<1> USE DEF WorkersInv
<1>1. /\ phase' = phase /\ UNCHANGED <<targets, written, collected>>
      /\ updated' = updated
    <2>1. phase' = phase /\ UNCHANGED <<targets, written, collected>>
        BY DEF CtxDone, ProducerStep, Feed, CloseJobs, FindWatchlistCodes, Take, WorkerExit, Send,
               phase, selection, pool
    <2>2. updatedCodes' = updatedCodes
        BY <2>1 DEF updatedCodes
    <2> QED BY <2>1, <2>2 DEF updated
<1>2. ASSUME CtxDone \/ ProducerStep \/ \E found \in SUBSET Raw : FindWatchlistCodes(found)
      PROVE  progress' = progress
    <2>1. UNCHANGED <<targets, taken, wpc, cur>>
        BY <1>2 DEF CtxDone, ProducerStep, Feed, CloseJobs, FindWatchlistCodes, selection, pool, worker
    <2> QED BY <2>1, ProgressStays DEF At
<1>3. ASSUME NEW w \in Workers, WorkerExit(w) \/ Send(w) PROVE progress' = progress
    <2>1. /\ UNCHANGED <<targets, taken>>
          /\ wpc[w] \notin {"fetch", "upsert", "writing"}
          /\ wpc'[w] \notin {"fetch", "upsert", "writing"}
          /\ \A v \in Workers : v # w => wpc'[v] = wpc[v] /\ cur'[v] = cur[v]
        BY <1>3 DEF WorkerExit, Send, goto, selection, pool, TypeOK
    <2>2. \A v \in Workers :
            /\ wpc'[v] \in {"writing"} <=> wpc[v] \in {"writing"}
            /\ wpc'[v] \in {"fetch", "upsert"} <=> wpc[v] \in {"fetch", "upsert"}
            /\ wpc[v] \in {"fetch", "upsert", "writing"} => cur'[v] = cur[v]
        BY <2>1
    <2> QED BY <2>1, <2>2, ProgressStays DEF At
<1>4. ASSUME NEW w \in Workers, Take(w) PROVE progress' = progress
    <2> DEFINE c == targets[taken + 1]
    <2>1. /\ targets' = targets /\ taken' = taken + 1 /\ taken \in Nat /\ taken + 1 \in Jobs
          /\ wpc[w] = "recv" /\ wpc'[w] = "fetch" /\ cur'[w] = taken + 1
          /\ \A v \in Workers : v # w => wpc'[v] = wpc[v] /\ cur'[v] = cur[v]
        BY <1>4 DEF Take, goto, selection, TypeOK, Jobs
    <2>2. At({"writing"})' = At({"writing"})
        BY <2>1 DEF At
    <2>3. At({"fetch", "upsert"})' = At({"fetch", "upsert"}) \cup {c}
        <3> DEFINE In == {v \in Workers : wpc[v] \in {"fetch", "upsert"}}
        <3>1. In' = In \cup {w} /\ w \notin In
            BY <2>1
        <3>2. \A v \in In : targets'[cur'[v]] = targets[cur[v]]
            BY <2>1
        <3>3. targets'[cur'[w]] = c
            BY <2>1
        <3> QED BY <3>1, <3>2, <3>3 DEF At
    <2>4. Taken' = Taken \cup {c} /\ c \notin Taken
        <3>1. 1..taken' = 1..taken \cup {taken + 1}
            BY <2>1
        <3>2. \A j \in 1..taken : targets[j] # c
            BY <2>1 DEF Selected, Jobs
        <3> QED BY <2>1, <3>1, <3>2 DEF Taken
    <2>5. Taken' \ At({"fetch", "upsert"})' = Taken \ At({"fetch", "upsert"})
        BY <2>3, <2>4
    <2>6. Seen' = Seen
        BY <2>1 DEF Seen, Jobs
    <2> QED BY <2>2, <2>5, <2>6 DEF progress, Taken
<1> QED
    BY <1>1, <1>2, <1>3, <1>4 DEF PromiseVars

\* Building the targets and starting the pool.
LEMMA SelectingSteps ==
    ASSUME WorkersInv,
           (\E raw \in todo : appendUniqueValidCode(raw)) \/ BuildFails \/ StartPool
    PROVE  [Promise!Next]_PromiseVars
<1> USE DEF WorkersInv, PromiseVars, pool, worker, selection
<1>1. /\ caller \in {"defaults", "watchlist"} /\ collected = {} /\ taken = 0
      /\ UNCHANGED <<written, taken, collected>>
      /\ \A w \in Workers : wpc[w] = "new" /\ wpc'[w] \in {"new", "recv"}
    BY DEF Idle, TypeOK, appendUniqueValidCode, BuildFails, StartPool
<1>2. /\ progress = [c \in Codes |-> IF c \in Seen THEN "pending" ELSE "none"]
      /\ progress' = [c \in Codes |-> IF c \in Seen' THEN "pending" ELSE "none"]
    BY <1>1, NothingTaken DEF At, progress
<1>3. phase = "selecting" /\ updated = {} /\ updated' = {}
    <2>1. updatedCodes' = {}
        BY <1>1 DEF updatedCodes
    <2>2. phase = "selecting"
        BY <1>1 DEF phase
    <2> QED BY <2>1, <2>2 DEF updated
<1>4. ASSUME NEW raw \in todo, appendUniqueValidCode(raw) PROVE [Promise!Next]_PromiseVars
    <2> USE <1>4 DEF appendUniqueValidCode
    <2> DEFINE code == TrimSpace(raw)
    <2>1. phase' = phase
        BY DEF phase
    <2>2. CASE targets' = targets
        <3>1. Seen' = Seen
            BY <2>2 DEF Seen, Jobs
        <3> QED BY <3>1, <2>1, <1>1, <1>2, <1>3
    <2>3. CASE code \in Codes /\ code \notin Seen /\ targets' = Append(targets, code)
        <3>1. Seen' = Seen \cup {code}
            <4>1. /\ Len(targets') = Len(targets) + 1 /\ Len(targets) \in Nat
                  /\ targets'[Len(targets) + 1] = code
                  /\ \A i \in Jobs : targets'[i] = targets[i]
                BY <2>3 DEF Jobs, TypeOK
            <4> QED BY <4>1 DEF Seen, Jobs
        <3>2. progress' = [progress EXCEPT ![code] = "pending"] /\ progress[code] = "none"
            BY <3>1, <2>3, <1>2
        <3>3. Promise!Select(code)
            BY <3>2, <2>1, <1>1, <1>3 DEF Promise!Select, Promise!Advance
        <3> QED BY <3>3, <2>3 DEF Promise!Next
    <2> QED BY <2>2, <2>3
<1>5. ASSUME BuildFails \/ (StartPool /\ targets = <<>>) PROVE Promise!Return({})
    <2>1. phase' = "returned" /\ targets' = targets
        BY <1>5 DEF BuildFails, StartPool, phase
    <2>2. Seen' = Seen
        BY <2>1 DEF Seen, Jobs
    <2> QED BY <2>1, <2>2, <1>1, <1>2, <1>3 DEF Promise!Return
<1>6. ASSUME StartPool, targets # <<>> PROVE Promise!Start
    <2>1. phase' = "running" /\ targets' = targets
        BY <1>6 DEF StartPool, phase
    <2>2. Seen' = Seen
        BY <2>1 DEF Seen, Jobs
    <2> QED BY <2>1, <2>2, <1>1, <1>2, <1>3 DEF Promise!Start
<1> QED
    BY <1>4, <1>5, <1>6 DEF Promise!Next

\* The collector answers, with what it has at that moment.
LEMMA CollectorSteps ==
    ASSUME WorkersInv, GiveUp \/ \E r \in results : Collect(r)
    PROVE  [Promise!Next]_PromiseVars
<1> USE DEF PromiseVars, pool, worker, selection
<1>1. /\ caller = "collect" /\ caller' \in {"collect", "done"}
      /\ UNCHANGED <<targets, taken, wpc, cur, written>>
      /\ collected' \subseteq results \cup collected
    BY DEF GiveUp, Collect
<1>2. progress' = progress
    BY <1>1, ProgressStays DEF At
<1>3. CASE caller' = "collect"
    BY <1>1, <1>2, <1>3 DEF phase, updated
<1>4. CASE caller' = "done"
    <2>1. \A c \in updatedCodes' : c \in Codes /\ progress[c] = "settled" /\ c \in written
        BY <1>1, ResultsSettled DEF updatedCodes
    <2>2. phase = "running" /\ phase' = "returned" /\ updated' = updatedCodes'
        BY <1>1, <1>4 DEF phase, updated
    <2>3. Promise!Return(updatedCodes')
        BY <2>1, <2>2, <1>1, <1>2 DEF Promise!Return
    <2>4. updatedCodes' \in SUBSET Codes
        BY <2>1
    <2> QED BY <2>3, <2>4 DEF Promise!Next
<1> QED BY <1>1, <1>3, <1>4

\* A worker on its job: one upsert at most, begun while the call runs.
LEMMA JobSteps ==
    ASSUME WorkersInv, NEW w \in Workers, Fetch(w) \/ BeginUpsert(w) \/ EndUpsert(w)
    PROVE  [Promise!Next]_PromiseVars
<1> USE DEF PromiseVars, pool, selection
<1> DEFINE c == targets[cur[w]]
<1>1. /\ UNCHANGED <<targets, taken, cur, caller, collected>>
      /\ phase' = phase /\ updated' = updated
    <2>1. UNCHANGED <<targets, taken, cur, caller, collected>>
        BY DEF Fetch, BeginUpsert, EndUpsert
    <2> QED BY <2>1 DEF phase, updated, updatedCodes
<1>2. phase # "selecting"
    BY DEF WorkersInv, Idle, TypeOK, phase, Fetch, BeginUpsert, EndUpsert, goto
<1>3. ASSUME goto(w, "fetch", "upsert"), Fetch(w) PROVE UNCHANGED PromiseVars
    <2>1. progress' = [progress EXCEPT ![c] = "pending"] /\ progress[c] = "pending"
        BY <1>1, <1>3, WorkerAdvances DEF Held, ProgressAt
    <2>2. progress' = progress
        BY <2>1 DEF progress
    <2> QED BY <2>2, <1>1, <1>3 DEF Fetch
<1>4. ASSUME goto(w, "fetch", "send") \/ goto(w, "upsert", "send"), Fetch(w) \/ BeginUpsert(w)
      PROVE  c \in Codes /\ Promise!Skip(c)
    <2>1. /\ c \in Codes /\ progress[c] = "pending"
          /\ progress' = [progress EXCEPT ![c] = "settled"]
        BY <1>1, <1>4, WorkerAdvances DEF Held, ProgressAt
    <2> QED BY <2>1, <1>1, <1>2, <1>4 DEF Promise!Skip, Promise!Advance, Fetch, BeginUpsert
<1>5. ASSUME goto(w, "upsert", "writing"), BeginUpsert(w), ~ctxDone
      PROVE  c \in Codes /\ Promise!BeginUpsert(c)
    <2>1. /\ c \in Codes /\ progress[c] = "pending"
          /\ progress' = [progress EXCEPT ![c] = "writing"]
        BY <1>1, <1>5, WorkerAdvances DEF Held, ProgressAt
    <2>2. caller # "done"
        <3>1. cur[w] \in Jobs /\ cur[w] \in InHand
            BY <1>5 DEF goto, WorkersInv, Hands, TypeOK, InHand
        <3> QED BY <3>1, <1>5 DEF WorkersInv, AllCollected, Places
    <2>3. phase = "running"
        BY <2>2, <1>5 DEF WorkersInv, Idle, TypeOK, goto, phase
    <2> QED BY <2>1, <2>3, <1>1, <1>5 DEF Promise!BeginUpsert, Promise!Advance, BeginUpsert
<1>6. ASSUME EndUpsert(w) PROVE c \in Codes /\ Promise!EndUpsert(c)
    <2>1. /\ c \in Codes /\ progress[c] = "writing"
          /\ progress' = [progress EXCEPT ![c] = "settled"]
        BY <1>1, <1>6, WorkerAdvances DEF Held, ProgressAt, EndUpsert
    <2>2. written' \in {written, written \cup {c}}
        BY <1>6 DEF EndUpsert
    <2> QED BY <2>1, <2>2, <1>1 DEF Promise!EndUpsert, Promise!Advance
<1> QED
    BY <1>3, <1>4, <1>5, <1>6 DEF Fetch, BeginUpsert, Promise!Next

\* A run is what UpdateRun says, for any codes, watchlists and number of
\* workers: executeFundUpdate with its producer, pool, channels and context does
\* nothing to fund_data that the specification of one call does not allow.
THEOREM RunIsAsPromised == Spec => ImplementsRun
<1>1. Init => Promise!Init
    <2> SUFFICES ASSUME Init PROVE Promise!Init
        OBVIOUS
    <2>1. phase = "selecting" /\ written = {} /\ updated = {}
        BY DEF Init, phase, updated
    <2>2. Seen = {}
        BY DEF Init, Seen, Jobs
    <2>3. progress = [c \in Codes |-> "none"]
        BY <2>2, NothingTaken DEF Init
    <2> QED BY <2>1, <2>3 DEF Promise!Init
<1>2. WorkersInv /\ [Next]_vars => [Promise!Next]_PromiseVars
    <2> SUFFICES ASSUME WorkersInv, [Next]_vars PROVE [Promise!Next]_PromiseVars
        OBVIOUS
    <2>1. CASE UNCHANGED vars
        <3>1. progress' = progress
            BY <2>1, ProgressStays DEF vars, selection, pool, worker, At
        <3> QED BY <2>1, <3>1 DEF vars, selection, phase, updated, updatedCodes, PromiseVars
    <2>2. CASE CtxDone \/ CallerStep \/ ProducerStep
        BY <2>2, HiddenSteps, SelectingSteps, CollectorSteps DEF CallerStep
    <2>3. ASSUME NEW w \in Workers, WorkerStep(w) PROVE [Promise!Next]_PromiseVars
        BY <2>3, HiddenSteps, JobSteps DEF WorkerStep
    <2> QED BY <2>1, <2>2, <2>3 DEF Next
<1> QED
    BY <1>1, <1>2, WorkersInvariant, PTL DEF Spec, ImplementsRun, Promise!Spec, PromiseVars, Promise!vars
=============================================================================
