--------------------------- MODULE UpdatePipeline ---------------------------
(***************************************************************************)
(* The fund update pipeline of backend-go/internal/update: the synchronous *)
(* POST /api/update, the asynchronous POST /api/update/async, the RabbitMQ *)
(* queue between the latter and the consumer goroutine of every backend    *)
(* instance, the task records in Redis and the Redis update lock.          *)
(*                                                                         *)
(* A run of the update itself is one step with one outcome here; its       *)
(* goroutines are module UpdateWorkers, the read caches are ReadCaches.    *)
(***************************************************************************)
EXTENDS Integers, UpdateTasks

CONSTANTS
    Workers,      \* one consumer goroutine per backend instance
    Syncs,        \* the synchronous requests
    Free,         \* the lock key does not exist
    Orphan,       \* the lock key holds a token that no live process remembers
    LockTTL,      \* updateLockTTL, 5 minutes, in ticks
    SyncLimit,    \* how long a synchronous handler holds the lock: 30 seconds
    RunLimit,     \* how long a worker holds the lock: 2 minutes and two calls
    MaxFailures,  \* bound on crashes and lost broker connections
    Faults,       \* TRUE: a call of Redis or RabbitMQ may fail
    Prompt        \* TRUE: a holder keeps to its limit;
                  \* FALSE: its process may be paused for longer than the TTL

Procs == Workers \cup Syncs

ASSUME PipelineConstants ==
    /\ Workers \cap Syncs = {}
    /\ {Free, Orphan} \cap Procs = {}
    /\ Free # Orphan
    /\ LockTTL \in Nat \ {0} /\ SyncLimit \in Nat /\ RunLimit \in Nat
    /\ SyncLimit < LockTTL
    /\ RunLimit < LockTTL
    /\ MaxFailures \in Nat
    /\ Faults \in BOOLEAN
    /\ Prompt \in BOOLEAN

VARIABLES
    record,     \* Redis: fund:update:task:<t>
    lock,       \* Redis: the token in lock:fundtracking:update, named by its owner
    lockLeft,   \* ticks before Redis expires the lock
    queue,      \* RabbitMQ: the tasks of the messages ready for delivery
    hpc,        \* control of POST /api/update/async, per task
    pc,         \* control of the workers and of POST /api/update
    age,        \* ticks since the process acquired the lock
    task,       \* the task of the message a worker handles
    local,      \* the worker's copy of the record ("task" in the code)
    connected,  \* the worker's AMQP channel is open
    failures,   \* crashes and lost connections so far
    shared,     \* history: the tasks that two workers have held at once
    erred       \* history: the tasks whose last delivery met a failing call

workerVars == <<pc, age, task, local, connected>>
lockVars == <<lock, lockLeft>>
history == <<shared, erred>>
vars == <<record, lockVars, queue, hpc, workerVars, failures, history>>

Record == [status : {"none", "pending", "running", "success", "failed", "expired"},
           error : {"none", "publish", "busy", "update"}]

NoRecord == [status |-> "none", error |-> "none"]
Missing(t) == record[t].status \in {"none", "expired"}

\* From a successful SETNX until its release a process holds the lock: it runs
\* the update, saves the result and releases.
Holding == {"run", "save", "release"}
Limit(p) == IF p \in Syncs THEN SyncLimit ELSE RunLimit

\* "stopped": the consumer goroutine has returned, its process lives on.
\* "dead": the process is gone.
Vacant == {"idle", "stopped", "dead"}
WorkerPC == Holding \cup Vacant \cup {"load", "mark", "lock", "busy", "settle"}
SyncPC == {"lock", "run", "release", "ok", "conflict", "error"}

TypeOK ==
    /\ record \in [Tasks -> Record]
    /\ lock \in Procs \cup {Free, Orphan}
    /\ lockLeft \in 0 .. LockTTL
    /\ queue \subseteq Tasks
    /\ hpc \in [Tasks -> {"create", "publish", "reject", "accepted", "error"}]
    /\ pc \in [Procs -> WorkerPC \cup SyncPC]
    /\ \A s \in Syncs : pc[s] \in SyncPC
    /\ age \in [Procs -> 0 .. LockTTL]
    /\ task \in [Workers -> Tasks \cup {NoTask}]
    /\ local \in [Workers -> Record]
    /\ connected \in [Workers -> BOOLEAN]
    /\ failures \in 0 .. MaxFailures
    /\ shared \subseteq Tasks
    /\ erred \subseteq Tasks

Init ==
    /\ record = [t \in Tasks |-> NoRecord]
    /\ lock = Free
    /\ lockLeft = 0
    /\ queue = {}
    /\ hpc = [t \in Tasks |-> "create"]
    /\ pc = [p \in Procs |-> IF p \in Workers THEN "idle" ELSE "lock"]
    /\ age = [p \in Procs |-> 0]
    /\ task = [w \in Workers |-> NoTask]
    /\ local = [w \in Workers |-> NoRecord]
    /\ connected = [w \in Workers |-> TRUE]
    /\ failures = 0
    /\ shared = {}
    /\ erred = {}

-----------------------------------------------------------------------------
(* Redis: the task records and the update lock.  A call that returns an    *)
(* error may have been applied or not.                                     *)

\* A whole-record SET.
saveUpdateTask(t, r) == record' = [record EXCEPT ![t] = r]
SaveError(t, r) == Faults /\ (UNCHANGED record \/ saveUpdateTask(t, r))

\* The worker's handler ends with an error: its message will be rejected.
Err(w) == erred' = erred \cup {task[w]}

goto(p, next) == pc' = [pc EXCEPT ![p] = next]

Mut_SetNX(p) ==             \* SET: an existing key is overwritten
    /\ lock' = p
    /\ lockLeft' = LockTTL

SetNX(p) ==
    /\ lock = Free
    /\ lock' = p
    /\ lockLeft' = LockTTL

\* SETNX with a TTL and a fresh token.  If the reply to a SETNX that was applied
\* is lost, nobody knows the token that now sits in the key: the caller gets an
\* error, or a refusal if go-redis has repeated the call.
acquireUpdateLock(p, refused, error) ==
    /\ pc[p] = "lock"
    /\ \/ SetNX(p) /\ goto(p, "run")
       \/ lock # Free /\ UNCHANGED lockVars /\ goto(p, refused)
       \/ /\ Faults
          /\ \/ UNCHANGED lockVars /\ goto(p, error)
             \/ /\ lock = Free /\ lock' = Orphan /\ lockLeft' = LockTTL
                /\ goto(p, error) \/ goto(p, refused)
    /\ UNCHANGED age

Mut_Del(p) ==               \* DEL without the comparison of tokens
    /\ lock' = Free
    /\ lockLeft' = 0

\* The Lua script: GET, compare with p's token, DEL.
Del(p) ==
    /\ lock' = IF lock = p THEN Free ELSE lock
    /\ lockLeft' = IF lock = p THEN 0 ELSE lockLeft

\* The process forgets its token; the key, if it holds it, lives until its TTL.
Forget(p) ==
    /\ lock' = IF lock = p THEN Orphan ELSE lock
    /\ UNCHANGED lockLeft

releaseUpdateLock(p) ==
    /\ Del(p) \/ (Faults /\ Forget(p))
    /\ age' = [age EXCEPT ![p] = 0]

\* Time passes: the key's TTL runs down and the holders grow older.
Mut_Tick ==                 \* a key without a TTL
    /\ \E p \in Procs : pc[p] \in Holding
    /\ Prompt => \A p \in Procs : pc[p] \in Holding => age[p] < Limit(p)
    /\ UNCHANGED lockVars
    /\ age' = [p \in Procs |-> IF pc[p] \in Holding /\ age[p] < LockTTL
                               THEN age[p] + 1 ELSE age[p]]
    /\ UNCHANGED <<record, queue, hpc, pc, task, local, connected, failures, history>>

Tick ==
    /\ lock # Free
    /\ Prompt => \A p \in Procs : pc[p] \in Holding => age[p] < Limit(p)
    /\ lockLeft' = lockLeft - 1
    /\ lock' = IF lockLeft = 1 THEN Free ELSE lock
    /\ age' = [p \in Procs |-> IF pc[p] \in Holding /\ age[p] < LockTTL
                               THEN age[p] + 1 ELSE age[p]]
    /\ UNCHANGED <<record, queue, hpc, pc, task, local, connected, failures, history>>

\* A record lives for an hour after its last SET; no request or worker is
\* between two of its calls for that long.
Expire(t) ==
    /\ ~Missing(t)
    /\ hpc[t] \notin {"publish", "reject"}
    /\ \A w \in Workers : task[w] = t => pc[w] \in {"load", "mark", "settle"}
    /\ record' = [record EXCEPT ![t].status = "expired"]
    /\ UNCHANGED <<lockVars, queue, hpc, workerVars, failures, history>>

-----------------------------------------------------------------------------
(* POST /api/update                                                        *)

SyncAcquire(s) ==
    /\ acquireUpdateLock(s, "conflict", "error")
    /\ UNCHANGED <<record, queue, hpc, task, local, connected, failures, history>>

\* executeFundUpdate and the invalidation of the caches: no pipeline state.
SyncRun(s) ==
    /\ pc[s] = "run"
    /\ goto(s, "release")
    /\ UNCHANGED <<record, lockVars, queue, hpc, age, task, local, connected, failures, history>>

\* The deferred release, then the answer 200 leaves.
SyncRelease(s) ==
    /\ pc[s] = "release"
    /\ releaseUpdateLock(s)
    /\ goto(s, "ok")
    /\ UNCHANGED <<record, queue, hpc, task, local, connected, failures, history>>

SyncStep(s) == SyncAcquire(s) \/ SyncRun(s) \/ SyncRelease(s)

-----------------------------------------------------------------------------
(* POST /api/update/async                                                  *)

Mut_CreateTask(t) ==        \* published before it is saved
    /\ hpc[t] = "create"
    /\ \/ t \notin queue /\ queue' = queue \cup {t} /\ UNCHANGED <<record, hpc>>
       \/ /\ t \in queue
          /\ saveUpdateTask(t, [status |-> "pending", error |-> "none"])
          /\ hpc' = [hpc EXCEPT ![t] = "accepted"]
          /\ UNCHANGED queue
    /\ UNCHANGED <<lockVars, workerVars, failures, history>>

CreateTask(t) ==
    LET pending == [status |-> "pending", error |-> "none"] IN
    /\ hpc[t] = "create"
    /\ \/ saveUpdateTask(t, pending) /\ hpc' = [hpc EXCEPT ![t] = "publish"]
       \/ SaveError(t, pending) /\ hpc' = [hpc EXCEPT ![t] = "error"]
    /\ UNCHANGED <<lockVars, queue, workerVars, failures, history>>

Mut_PublishTask(t) ==       \* an error although the message reached the queue
    /\ hpc[t] = "publish"
    /\ queue' = queue \cup {t}
    /\ hpc' = [hpc EXCEPT ![t] = IF Faults THEN "reject" ELSE "accepted"]
    /\ UNCHANGED <<record, lockVars, workerVars, failures, history>>

\* There is no publisher confirm: a publish without an error may be lost.  One
\* with an error left nothing in the queue.  Both happen when the connection,
\* which publisher and consumer of a process share, is lost.
PublishTask(t) ==
    /\ hpc[t] = "publish"
    /\ \/ queue' = queue \cup {t} /\ hpc' = [hpc EXCEPT ![t] = "accepted"]
       \/ /\ Faults \/ \E w \in Workers : ~connected[w]
          /\ UNCHANGED queue
          /\ \E next \in {"accepted", "reject"} : hpc' = [hpc EXCEPT ![t] = next]
    /\ UNCHANGED <<record, lockVars, workerVars, failures, history>>

RejectTask(t) ==
    LET rejected == [status |-> "failed", error |-> "publish"] IN
    /\ hpc[t] = "reject"
    /\ saveUpdateTask(t, rejected) \/ SaveError(t, rejected)
    /\ hpc' = [hpc EXCEPT ![t] = "error"]
    /\ UNCHANGED <<lockVars, queue, workerVars, failures, history>>

AsyncStep(t) == CreateTask(t) \/ PublishTask(t) \/ RejectTask(t)

-----------------------------------------------------------------------------
(* The worker: HandleUpdateTaskMessage, one message at a time              *)

Deliver(w, t) ==
    /\ pc[w] = "idle" /\ connected[w] /\ t \in queue
    /\ queue' = queue \ {t}
    /\ task' = [task EXCEPT ![w] = t]
    /\ goto(w, "load")
    /\ shared' = IF \E v \in Workers : task[v] = t THEN shared \cup {t} ELSE shared
    /\ erred' = erred \ {t}
    /\ UNCHANGED <<record, lockVars, hpc, age, local, connected, failures>>

Mut_LoadTask(w) ==          \* a task that has succeeded is run again
    /\ pc[w] = "load"
    /\ \/ /\ ~Missing(task[w])
          /\ local' = [local EXCEPT ![w] = record[task[w]]]
          /\ goto(w, "mark")
          /\ UNCHANGED erred
       \/ /\ Missing(task[w]) \/ Faults
          /\ UNCHANGED local
          /\ goto(w, "settle")
          /\ Err(w)
    /\ UNCHANGED <<record, lockVars, queue, hpc, age, task, connected, failures, shared>>

LoadTask(w) ==
    LET r == record[task[w]] IN
    /\ pc[w] = "load"
    /\ \/ /\ ~Missing(task[w]) /\ r.status # "success"
          /\ local' = [local EXCEPT ![w] = r]
          /\ goto(w, "mark")
          /\ UNCHANGED erred
       \/ r.status = "success" /\ goto(w, "settle") /\ UNCHANGED <<local, erred>>
       \/ /\ Missing(task[w]) \/ Faults
          /\ goto(w, "settle") /\ Err(w) /\ UNCHANGED local
    /\ UNCHANGED <<record, lockVars, queue, hpc, age, task, connected, failures, shared>>

MarkRunning(w) ==
    LET running == [local[w] EXCEPT !.status = "running"] IN
    /\ pc[w] = "mark"
    /\ \/ saveUpdateTask(task[w], running) /\ goto(w, "lock") /\ UNCHANGED erred
       \/ SaveError(task[w], running) /\ goto(w, "settle") /\ Err(w)
    /\ local' = [local EXCEPT ![w] = running]
    /\ UNCHANGED <<lockVars, queue, hpc, age, task, connected, failures, shared>>

WorkerAcquire(w) ==
    /\ acquireUpdateLock(w, "busy", "settle")
    /\ IF pc'[w] = "settle" THEN Err(w) ELSE UNCHANGED erred
    /\ UNCHANGED <<record, queue, hpc, task, local, connected, failures, shared>>

Mut_finishUpdateTaskAsFailed(w) ==      \* the record is not saved
    /\ pc[w] = "busy"
    /\ goto(w, "settle")
    /\ UNCHANGED <<record, lockVars, queue, hpc, age, task, local, connected, failures, history>>

finishUpdateTaskAsFailed(w) ==
    LET failed == [status |-> "failed", error |-> "busy"] IN
    /\ pc[w] = "busy"
    /\ \/ saveUpdateTask(task[w], failed) /\ UNCHANGED erred
       \/ SaveError(task[w], failed) /\ Err(w)
    /\ goto(w, "settle")
    /\ UNCHANGED <<lockVars, queue, hpc, age, task, local, connected, failures, shared>>

Mut_RunUpdate(w) ==         \* success keeps the error of an earlier attempt
    /\ pc[w] = "run"
    /\ \/ local' = [local EXCEPT ![w].status = "success"]
       \/ local' = [local EXCEPT ![w] = [status |-> "failed", error |-> "update"]]
    /\ goto(w, "save")
    /\ UNCHANGED <<record, lockVars, queue, hpc, age, task, connected, failures, history>>

Mut_RunUpdateStatus(w) ==   \* the response's status is the task's
    /\ pc[w] = "run"
    /\ \E status \in {"success", "partial_success", "failed"} :
          local' = [local EXCEPT ![w] = [status |-> status, error |-> "none"]]
    /\ goto(w, "save")
    /\ UNCHANGED <<record, lockVars, queue, hpc, age, task, connected, failures, history>>

RunUpdate(w) ==
    /\ pc[w] = "run"
    /\ \E r \in {[status |-> "success", error |-> "none"],
                 [status |-> "failed", error |-> "update"]} :
          local' = [local EXCEPT ![w] = r]
    /\ goto(w, "save")
    /\ UNCHANGED <<record, lockVars, queue, hpc, age, task, connected, failures, history>>

SaveResult(w) ==
    /\ pc[w] = "save"
    /\ \/ saveUpdateTask(task[w], local[w]) /\ UNCHANGED erred
       \/ SaveError(task[w], local[w]) /\ Err(w)
    /\ goto(w, "release")
    /\ UNCHANGED <<lockVars, queue, hpc, age, task, local, connected, failures, shared>>

WorkerRelease(w) ==
    /\ pc[w] = "release"
    /\ releaseUpdateLock(w)
    /\ goto(w, "settle")
    /\ UNCHANGED <<record, queue, hpc, task, local, connected, failures, history>>

Mut_Settle(w) ==            \* Nack with requeue
    /\ pc[w] = "settle"
    /\ queue' = IF Missing(task[w]) THEN queue \cup {task[w]} ELSE queue
    /\ task' = [task EXCEPT ![w] = NoTask]
    /\ local' = [local EXCEPT ![w] = NoRecord]
    /\ goto(w, IF connected[w] THEN "idle" ELSE "stopped")
    /\ UNCHANGED <<record, lockVars, hpc, age, connected, failures, history>>

\* Ack after nil, Nack without requeue after an error: either way the message
\* is gone.  On a closed channel both fail, the delivery channel is closed and
\* the consumer goroutine returns for good.
Settle(w) ==
    /\ pc[w] = "settle"
    /\ task' = [task EXCEPT ![w] = NoTask]
    /\ local' = [local EXCEPT ![w] = NoRecord]
    /\ goto(w, IF connected[w] THEN "idle" ELSE "stopped")
    /\ UNCHANGED <<record, lockVars, queue, hpc, age, connected, failures, history>>

WorkerStep(w) ==
    \/ \E t \in Tasks : Deliver(w, t)
    \/ LoadTask(w) \/ MarkRunning(w) \/ WorkerAcquire(w)
    \/ finishUpdateTaskAsFailed(w)
    \/ RunUpdate(w) \/ SaveResult(w) \/ WorkerRelease(w) \/ Settle(w)

-----------------------------------------------------------------------------
(* Failures                                                                *)

Mut_Requeue(w) == UNCHANGED queue    \* a consumer with autoAck

\* The message a worker has not settled goes back to the queue.
Requeue(w) ==
    queue' = IF connected[w] /\ task[w] # NoTask THEN queue \cup {task[w]} ELSE queue

\* The broker closes the channel or the connection breaks.  A consumer between two
\* messages returns at once, one that handles a message after it; nothing in the
\* process notices, and it lives on.
ConnectionLost(w) ==
    /\ connected[w]
    /\ failures < MaxFailures /\ failures' = failures + 1
    /\ Requeue(w)
    /\ connected' = [connected EXCEPT ![w] = FALSE]
    /\ pc' = IF pc[w] = "idle" THEN [pc EXCEPT ![w] = "stopped"] ELSE pc
    /\ UNCHANGED <<record, lockVars, hpc, age, task, local, history>>

WorkerCrash(w) ==
    /\ pc[w] # "dead"
    /\ failures < MaxFailures /\ failures' = failures + 1
    /\ Requeue(w)
    /\ Forget(w)
    /\ goto(w, "dead")
    /\ age' = [age EXCEPT ![w] = 0]
    /\ task' = [task EXCEPT ![w] = NoTask]
    /\ local' = [local EXCEPT ![w] = NoRecord]
    /\ connected' = [connected EXCEPT ![w] = FALSE]
    /\ UNCHANGED <<record, hpc, history>>

\* A process starts, after its death or because somebody restarts one that lives
\* without a consumer.  If RabbitMQ does not answer, it runs without a consumer.
Restart(w) ==
    /\ pc[w] \in {"stopped", "dead"}
    /\ \/ /\ goto(w, "idle")
          /\ connected' = [connected EXCEPT ![w] = TRUE]
          /\ UNCHANGED failures
       \/ /\ pc[w] = "dead"
          /\ failures < MaxFailures /\ failures' = failures + 1
          /\ goto(w, "stopped")
          /\ UNCHANGED connected
    /\ UNCHANGED <<record, lockVars, queue, hpc, age, task, local, history>>

SyncCrash(s) ==
    /\ pc[s] \in {"run", "release"}
    /\ failures < MaxFailures /\ failures' = failures + 1
    /\ Forget(s)
    /\ goto(s, "error")
    /\ age' = [age EXCEPT ![s] = 0]
    /\ UNCHANGED <<record, queue, hpc, task, local, connected, history>>

AsyncCrash(t) ==
    /\ hpc[t] \in {"publish", "reject"}
    /\ failures < MaxFailures /\ failures' = failures + 1
    /\ hpc' = [hpc EXCEPT ![t] = "error"]
    /\ UNCHANGED <<record, lockVars, queue, workerVars, history>>

Next ==
    \/ Tick
    \/ \E t \in Tasks : AsyncStep(t) \/ Expire(t) \/ AsyncCrash(t)
    \/ \E s \in Syncs : SyncStep(s) \/ SyncCrash(s)
    \/ \E w \in Workers : WorkerStep(w) \/ ConnectionLost(w) \/ WorkerCrash(w) \/ Restart(w)

Spec == Init /\ [][Next]_vars

\* Redis's clock runs, a goroutine that can step does, and a process that died
\* is started again.  Requests arrive or not.  Nothing is assumed of a process
\* that has lost its consumer: nobody may ever restart it.
Fairness ==
    /\ WF_vars(Tick)
    /\ \A w \in Workers :
          WF_vars(WorkerStep(w)) /\ WF_vars(pc[w] = "dead" /\ Restart(w))
    /\ \A s \in Syncs : WF_vars(SyncStep(s))

FairSpec == Spec /\ Fairness

-----------------------------------------------------------------------------
(* Properties                                                              *)

\* Two update runs are never inside the lock at once: the sync handler and the
\* workers write the funds under lock:fundtracking:update.  It rests on the
\* timeouts being shorter than the TTL (Prompt).
MutualExclusion ==
    \A p, q \in Procs : pc[p] \in Holding /\ pc[q] \in Holding => p = q

\* However long a holder is paused, the key leaves it only by its own release,
\* by its own death or by the TTL: the token check of the Lua script.
LeaseLostOnlyByOwner ==
    [][\A p \in Procs :
          lock = p /\ lock' # p => pc'[p] # pc[p] \/ lockLeft = 1]_vars

\* A message in RabbitMQ or in a worker's hands names a task that was saved:
\* the worker finds it unless its hour is over.
PublishedIsSaved ==
    \A t \in Tasks :
        t \in queue \/ (\E w \in Workers : task[w] = t) => record[t].status # "none"

\* A task that failed before, was delivered again and then succeeded does not
\* show the old error.
SuccessIsClean == \A t \in Tasks : record[t].status = "success" => record[t].error = "none"

\* The task records live as TaskLifecycle promises: a message that comes again
\* neither runs a task that has succeeded nor takes its success back; one that
\* has failed may run again.  With one consumer; a second one can overwrite what
\* the first has saved (README).
statuses == [t \in Tasks |-> record[t].status]
Lifecycle == INSTANCE TaskLifecycle WITH status <- statuses
ImplementsLifecycle == Lifecycle!Spec

\* What is left of that promise with any number of consumers, through crashes,
\* lost channels and redeliveries: it is kept to every task that two consumers
\* have never held at once.  Only a message that comes again while its first
\* worker still runs can take a success back (worker.go:72).
LifecycleUnlessShared ==
    [][\A t \in Tasks \ shared :
          statuses'[t] # statuses[t] => Lifecycle!Change(t)]_vars

\* A task answered with a publish error never runs.
RejectedNeverRuns ==
    \A t \in Tasks : hpc[t] \in {"reject", "error"} =>
        t \notin queue /\ record[t].status \notin {"running", "success"}

\* "The in-process RabbitMQ consumer updates the task status to running, then
\* to success or failed": so a running task is in a worker's hands, or its message
\* will come again.
RunningIsHandled ==
    \A t \in Tasks : record[t].status = "running" =>
        t \in queue \/ \E w \in Workers : task[w] = t

\* What is true of that: a task may be left running for nobody if the handler of
\* its last message ended in an error, whose message is rejected, or if two
\* workers have held it at once - and for no other reason, whoever crashes and
\* whichever channel is lost.
RunningIsExplained ==
    \A t \in Tasks \ (shared \cup erred) : record[t].status = "running" =>
        t \in queue \/ \E w \in Workers : task[w] = t

\* Whoever dies with the lock, or never learns that it has it, blocks updates
\* for the TTL at most.
LockIsFreed == lock # Free ~> lock = Free

\* Every consumer is gone and its process is not.
NoConsumer == \A w \in Workers : pc[w] = "stopped"

\* Every message is settled after finitely many deliveries, through crashes, lost
\* channels and failing calls, unless in the end every backend runs without its
\* consumer and nobody restarts one: then it stays in the queue (worker.go:34).
MessageIsSettled ==
    \A t \in Tasks : t \in queue ~>
        \/ t \notin queue /\ \A w \in Workers : task[w] # t
        \/ []NoConsumer

\* A task that started to run gets a result, through crashes and redeliveries,
\* unless a call for it fails or the consumers are gone for good.
RunningEnds ==
    \A t \in Tasks : record[t].status = "running" ~>
        \/ record[t].status \in {"success", "failed", "expired"}
        \/ t \in erred
        \/ []NoConsumer
=============================================================================
