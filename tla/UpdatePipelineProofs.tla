------------------------ MODULE UpdatePipelineProofs ------------------------
(***************************************************************************)
(* Theorems about UpdatePipeline, for every number of tasks, workers and   *)
(* synchronous requests, every TTL and every pair of limits below it.      *)
(***************************************************************************)
EXTENDS UpdatePipeline, UpdatePage, TLAPS

\* The lock key exists exactly while its TTL has not run out.
LockTimed == lock = Free <=> lockLeft = 0

\* A worker between deliveries has no task, and it has one otherwise.
TaskInHand == \A w \in Workers : task[w] = NoTask <=> pc[w] \in Vacant

TypeInv == TypeOK /\ LockTimed /\ TaskInHand

\* Type correctness of every variable, and the agreement of key and TTL.
LEMMA TypeInvInitial == Init => TypeInv
  BY PipelineConstants, TaskIds DEF Init, TypeInv, TypeOK, LockTimed, TaskInHand, Procs, Record, NoRecord,
     WorkerPC, SyncPC, Holding, Vacant

\* A record that is saved, whether or not an error is reported, is a record.
LEMMA SaveTyped ==
    ASSUME record \in [Tasks -> Record], NEW t \in Tasks, NEW r \in Record,
           saveUpdateTask(t, r) \/ SaveError(t, r)
    PROVE  record' \in [Tasks -> Record]
  BY DEF saveUpdateTask, SaveError

\* Every step of a request, of a worker, of time or of a failure keeps TypeInv.
LEMMA TypeInvStep == TypeInv /\ [Next]_vars => TypeInv'
<1> SUFFICES ASSUME TypeInv, [Next]_vars PROVE TypeInv'
    OBVIOUS
<1> USE PipelineConstants, TaskIds DEF TypeInv, TypeOK, LockTimed, TaskInHand, Procs, Record, NoRecord,
        WorkerPC, SyncPC, Holding, Vacant, goto, saveUpdateTask, SaveError, Err, history
<1>1. CASE Tick
    BY <1>1 DEF Tick
<1>2. ASSUME NEW t \in Tasks, AsyncStep(t)
      PROVE  TypeInv'
  <2>1. CASE CreateTask(t)
    <3>1. [status |-> "pending", error |-> "none"] \in Record
      OBVIOUS
    <3>2. record' \in [Tasks -> Record]
      BY <2>1, <3>1, SaveTyped DEF CreateTask
    <3>3. hpc' \in [Tasks -> {"create", "publish", "reject", "accepted", "error"}]
      BY <2>1 DEF CreateTask
    <3>4. UNCHANGED <<lockVars, queue, workerVars, failures, history>>
      BY <2>1 DEF CreateTask
    <3> HIDE DEF Record
    <3> QED BY <3>2, <3>3, <3>4 DEF workerVars, lockVars
  <2>2. CASE PublishTask(t)
    BY <2>2 DEF PublishTask, workerVars, lockVars
  <2>3. CASE RejectTask(t)
    BY <2>3 DEF RejectTask, workerVars, lockVars
  <2> QED BY <1>2, <2>1, <2>2, <2>3 DEF AsyncStep
<1>3. ASSUME NEW t \in Tasks, Expire(t)
      PROVE  TypeInv'
    BY <1>3 DEF Expire, workerVars, lockVars
<1>4. ASSUME NEW t \in Tasks, AsyncCrash(t)
      PROVE  TypeInv'
    BY <1>4 DEF AsyncCrash, workerVars, lockVars
<1>5. ASSUME NEW s \in Syncs, SyncStep(s)
      PROVE  TypeInv'
  <2>1. CASE SyncAcquire(s)
    <3>1. /\ lock' \in Procs \cup {Free, Orphan} /\ lockLeft' \in 0 .. LockTTL
          /\ lock' = Free <=> lockLeft' = 0
      BY <2>1 DEF SyncAcquire, acquireUpdateLock, SetNX, lockVars
    <3>2. \/ pc' = [pc EXCEPT ![s] = "run"]
          \/ pc' = [pc EXCEPT ![s] = "conflict"]
          \/ pc' = [pc EXCEPT ![s] = "error"]
      BY <2>1 DEF SyncAcquire, acquireUpdateLock
    <3>3. UNCHANGED <<record, queue, hpc, age, task, local, connected, failures, history>>
      BY <2>1 DEF SyncAcquire, acquireUpdateLock
    <3> HIDE DEF Record
    <3> QED BY <3>1, <3>2, <3>3
  <2>2. CASE SyncRun(s)
    BY <1>5, <2>2 DEF SyncRun, lockVars
  <2>3. CASE SyncRelease(s)
    BY <1>5, <2>3 DEF SyncRelease, releaseUpdateLock, Del, Forget
  <2> QED BY <1>5, <2>1, <2>2, <2>3 DEF SyncStep
<1>6. ASSUME NEW s \in Syncs, SyncCrash(s)
      PROVE  TypeInv'
    BY <1>6 DEF SyncCrash, Forget
<1>7. ASSUME NEW w \in Workers, WorkerStep(w)
      PROVE  TypeInv'
  <2>1. ASSUME NEW t \in Tasks, Deliver(w, t) PROVE TypeInv'
    BY <2>1 DEF Deliver, lockVars
  <2>2. CASE LoadTask(w)
    <3>1. pc[w] = "load" /\ w \notin Syncs
      BY <2>2 DEF LoadTask
    <3>2. local' \in [Workers -> Record]
      BY <2>2 DEF LoadTask, Missing
    <3>3. \/ pc' = [pc EXCEPT ![w] = "mark"]
          \/ pc' = [pc EXCEPT ![w] = "settle"]
      BY <2>2 DEF LoadTask
    <3>4. pc' \in [Procs -> WorkerPC \cup SyncPC]
      BY <3>3
    <3>5. /\ \A s \in Syncs : pc'[s] = pc[s]
          /\ \A v \in Workers \ {w} : pc'[v] = pc[v]
          /\ pc'[w] \in {"mark", "settle"}
      BY <3>1, <3>3
    <3>6. /\ UNCHANGED <<record, lock, lockLeft, queue, hpc, age, task, connected, failures, shared>>
          /\ erred' \subseteq Tasks
      BY <2>2 DEF LoadTask, lockVars
    <3> HIDE DEF Record
    <3> QED BY <3>1, <3>2, <3>4, <3>5, <3>6
  <2>3. CASE MarkRunning(w)
    <3> DEFINE running == [local[w] EXCEPT !.status = "running"]
    <3>1. running \in Record
      BY DEF Record
    <3>2. pc[w] = "mark" /\ w \notin Syncs /\ task[w] \in Tasks
      BY <2>3 DEF MarkRunning
    <3>3. record' \in [Tasks -> Record]
      <4>1. saveUpdateTask(task[w], running) \/ SaveError(task[w], running)
        BY <2>3 DEF MarkRunning
      <4> HIDE DEF Record, running, saveUpdateTask, SaveError
      <4> QED BY <3>1, <3>2, <4>1, SaveTyped
    <3>4. local' \in [Workers -> Record]
      BY <2>3, <3>1 DEF MarkRunning
    <3>5. \/ pc' = [pc EXCEPT ![w] = "lock"]
          \/ pc' = [pc EXCEPT ![w] = "settle"]
      BY <2>3 DEF MarkRunning
    <3>6. /\ UNCHANGED <<lock, lockLeft, queue, hpc, age, task, connected, failures, shared>>
          /\ erred' \subseteq Tasks
      BY <2>3 DEF MarkRunning, lockVars
    <3> HIDE DEF Record, running
    <3> QED BY <3>2, <3>3, <3>4, <3>5, <3>6
  <2>4. CASE WorkerAcquire(w)
    <3>1. pc[w] = "lock" /\ w \notin Syncs
      BY <2>4 DEF WorkerAcquire, acquireUpdateLock
    <3>2. /\ lock' \in Procs \cup {Free, Orphan} /\ lockLeft' \in 0 .. LockTTL
          /\ lock' = Free <=> lockLeft' = 0
      BY <2>4 DEF WorkerAcquire, acquireUpdateLock, SetNX, lockVars
    <3>3. \/ pc' = [pc EXCEPT ![w] = "run"]
          \/ pc' = [pc EXCEPT ![w] = "busy"]
          \/ pc' = [pc EXCEPT ![w] = "settle"]
      BY <2>4 DEF WorkerAcquire, acquireUpdateLock
    <3>4. /\ UNCHANGED <<record, queue, hpc, age, task, local, connected, failures, shared>>
          /\ erred' \subseteq Tasks
      BY <2>4, <3>1 DEF WorkerAcquire, acquireUpdateLock
    <3> HIDE DEF Record
    <3> QED BY <3>1, <3>2, <3>3, <3>4
  <2>5. CASE finishUpdateTaskAsFailed(w)
    <3>1. [status |-> "failed", error |-> "busy"] \in Record
      OBVIOUS
    <3>2. pc[w] = "busy" /\ w \notin Syncs /\ task[w] \in Tasks
      BY <2>5 DEF finishUpdateTaskAsFailed
    <3>3. record' \in [Tasks -> Record]
      BY <2>5, <3>1, <3>2, SaveTyped DEF finishUpdateTaskAsFailed
    <3>4. /\ pc' = [pc EXCEPT ![w] = "settle"]
          /\ UNCHANGED <<lock, lockLeft, queue, hpc, age, task, local, connected, failures, shared>>
          /\ erred' \subseteq Tasks
      BY <2>5 DEF finishUpdateTaskAsFailed, lockVars
    <3> HIDE DEF Record
    <3> QED BY <3>2, <3>3, <3>4
  <2>6. CASE RunUpdate(w)
    BY <2>6 DEF RunUpdate, lockVars
  <2>7. CASE SaveResult(w)
    BY <2>7 DEF SaveResult, lockVars
  <2>8. CASE WorkerRelease(w)
    BY <2>8 DEF WorkerRelease, releaseUpdateLock, Del, Forget
  <2>9. CASE Settle(w)
    BY <2>9 DEF Settle, lockVars
  <2> QED BY <1>7, <2>1, <2>2, <2>3, <2>4, <2>5, <2>6, <2>7, <2>8, <2>9 DEF WorkerStep
<1>8. ASSUME NEW w \in Workers, ConnectionLost(w)
      PROVE  TypeInv'
    BY <1>8 DEF ConnectionLost, Requeue, lockVars
<1>9. ASSUME NEW w \in Workers, WorkerCrash(w)
      PROVE  TypeInv'
    BY <1>9 DEF WorkerCrash, Requeue, Forget
<1>10. ASSUME NEW w \in Workers, Restart(w)
      PROVE  TypeInv'
  <2>1. UNCHANGED <<record, lock, lockLeft, queue, hpc, age, task, local, history>>
    BY <1>10 DEF Restart, lockVars
  <2>2. /\ pc[w] \in {"stopped", "dead"}
        /\ \/ pc' = [pc EXCEPT ![w] = "idle"]
           \/ pc' = [pc EXCEPT ![w] = "stopped"]
    BY <1>10 DEF Restart
  <2>3. UNCHANGED failures \/ (failures < MaxFailures /\ failures' = failures + 1)
    BY <1>10 DEF Restart
  <2>4. connected' = connected \/ connected' = [connected EXCEPT ![w] = TRUE]
    BY <1>10 DEF Restart
  <2>5. failures' \in 0 .. MaxFailures
    BY <2>3
  <2>6. connected' \in [Workers -> BOOLEAN]
    BY <2>4
  <2> HIDE DEF Record
  <2> QED BY <2>1, <2>2, <2>5, <2>6
<1>11. CASE UNCHANGED vars
    BY <1>11 DEF vars, workerVars, lockVars
<1> QED
    BY <1>1, <1>2, <1>3, <1>4, <1>5, <1>6, <1>7, <1>8, <1>9, <1>10, <1>11 DEF Next

\* Every variable keeps its type, for every value of the constants.
THEOREM TypeCorrect == Spec => []TypeOK
<1>1. Spec => []TypeInv
    BY TypeInvInitial, TypeInvStep, PTL DEF Spec
<1>2. TypeInv => TypeOK
    BY DEF TypeInv
<1> QED BY <1>1, <1>2, PTL

-----------------------------------------------------------------------------
\* Why the lock excludes.  A holder owns the key, and the key outlives it:
\* whatever the holder has consumed of its limit, the TTL has more than the
\* rest left.  MutualExclusion alone is not inductive, because nothing in it
\* stops the key from expiring under its holder.
HolderInv ==
    \A p \in Procs :
        IF pc[p] \in Holding
        THEN Prompt => /\ lock = p
                       /\ age[p] <= Limit(p)
                       /\ lockLeft >= LockTTL - age[p]
        ELSE age[p] = 0

\* A step of acquireUpdateLock: whoever takes the key found it free.
LEMMA AcquireKeepsHolder ==
    ASSUME TypeInv, HolderInv, NEW q \in Procs, NEW refused, NEW error,
           refused \notin Holding, error \notin Holding,
           acquireUpdateLock(q, refused, error)
    PROVE  HolderInv'
<1> USE PipelineConstants, TaskIds DEF TypeInv, TypeOK, Procs, Holding, goto, Limit
<1>1. pc[q] = "lock" /\ UNCHANGED age /\ age[q] = 0
    BY DEF acquireUpdateLock, HolderInv
<1>2. CASE SetNX(q) /\ goto(q, "run")
  <2>1. \A p \in Procs : Prompt => pc[p] \notin Holding
    BY <1>2 DEF SetNX, HolderInv
  <2> QED BY <1>1, <1>2, <2>1 DEF SetNX, HolderInv
<1>3. ASSUME goto(q, refused) \/ goto(q, error),
             (lock' = lock /\ lockLeft' = lockLeft) \/ lock = Free
      PROVE  HolderInv'
  <2>1. pc'[q] \notin Holding /\ \A p \in Procs \ {q} : pc'[p] = pc[p]
    BY <1>3
  <2> QED BY <1>1, <1>3, <2>1 DEF HolderInv
<1> QED BY <1>2, <1>3 DEF acquireUpdateLock, lockVars

\* A process that leaves its critical section touches no key but its own.
LEMMA LeaveKeepsHolder ==
    ASSUME TypeInv, HolderInv, NEW q \in Procs, NEW next, next \notin Holding,
           Del(q) \/ Forget(q), goto(q, next), age' = [age EXCEPT ![q] = 0]
    PROVE  HolderInv'
<1> USE PipelineConstants, TaskIds DEF TypeInv, TypeOK, Procs, Holding, goto, Limit
<1>1. pc'[q] \notin Holding /\ age'[q] = 0
    OBVIOUS
<1>2. ASSUME NEW p \in Procs \ {q}
      PROVE  /\ pc'[p] = pc[p] /\ age'[p] = age[p]
             /\ lock = p => lock' = p /\ lockLeft' = lockLeft
    BY DEF Del, Forget
<1> QED BY <1>1, <1>2 DEF HolderInv

\* A step within the critical section, or outside it, that leaves the lock alone.
LEMMA OtherKeepsHolder ==
    ASSUME HolderInv, UNCHANGED <<lock, lockLeft, age>>,
           \A p \in Procs : pc'[p] \in Holding <=> pc[p] \in Holding
    PROVE  HolderInv'
  BY DEF HolderInv, Limit

\* Every step keeps each holder inside the TTL of the key it owns; the only one
\* that lets it grow older is Tick, which Prompt stops at its limit.
LEMMA HolderInvStep == TypeInv /\ HolderInv /\ [Next]_vars => HolderInv'
<1> SUFFICES ASSUME TypeInv, HolderInv, [Next]_vars PROVE HolderInv'
    OBVIOUS
<1>1. CASE Tick
  <2> USE PipelineConstants, TaskIds DEF TypeInv, TypeOK, LockTimed, Procs, Limit
  <2> SUFFICES ASSUME NEW p \in Procs
               PROVE  HolderInv!(p)'
    BY DEF HolderInv
  <2>1. CASE pc[p] \notin Holding
    BY <1>1, <2>1 DEF Tick, HolderInv
  <2>2. CASE pc[p] \in Holding /\ Prompt
    <3>1. age[p] < Limit(p) /\ lock = p /\ lockLeft >= LockTTL - age[p]
      BY <1>1, <2>2 DEF Tick, HolderInv
    <3>2. age'[p] = age[p] + 1 /\ lockLeft' = lockLeft - 1 /\ lockLeft > 1
      BY <1>1, <2>2, <3>1 DEF Tick
    <3> QED BY <1>1, <2>2, <3>1, <3>2 DEF Tick
  <2>3. CASE pc[p] \in Holding /\ ~Prompt
    BY <1>1, <2>3 DEF Tick
  <2> QED BY <2>1, <2>2, <2>3
<1>2. ASSUME NEW t \in Tasks, AsyncStep(t) \/ Expire(t) \/ AsyncCrash(t)
      PROVE  HolderInv'
    BY <1>2, OtherKeepsHolder
       DEF AsyncStep, CreateTask, PublishTask, RejectTask, Expire, AsyncCrash, workerVars, lockVars
<1>3. ASSUME NEW s \in Syncs, SyncStep(s) \/ SyncCrash(s)
      PROVE  HolderInv'
  <2>0. s \in Procs
    BY DEF Procs
  <2>1. CASE SyncAcquire(s)
    BY <2>0, <2>1, AcquireKeepsHolder DEF SyncAcquire, Holding
  <2>2. CASE SyncRun(s)
    BY <2>0, <2>2, OtherKeepsHolder DEF SyncRun, lockVars, goto, Holding, TypeInv, TypeOK
  <2>3. CASE SyncRelease(s)
    BY <2>0, <2>3, LeaveKeepsHolder DEF SyncRelease, releaseUpdateLock, Holding
  <2>4. CASE SyncCrash(s)
    BY <2>0, <2>4, LeaveKeepsHolder DEF SyncCrash, Holding
  <2> QED BY <1>3, <2>1, <2>2, <2>3, <2>4 DEF SyncStep
<1>4. ASSUME NEW w \in Workers,
             WorkerStep(w) \/ ConnectionLost(w) \/ WorkerCrash(w) \/ Restart(w)
      PROVE  HolderInv'
  <2>0. w \in Procs
    BY DEF Procs
  <2>1. CASE WorkerAcquire(w)
    BY <2>0, <2>1, AcquireKeepsHolder DEF WorkerAcquire, Holding
  <2>2. CASE WorkerRelease(w)
    BY <2>0, <2>2, LeaveKeepsHolder DEF WorkerRelease, releaseUpdateLock, Holding
  <2>3. CASE WorkerCrash(w)
    BY <2>0, <2>3, LeaveKeepsHolder DEF WorkerCrash, Holding
  <2> USE DEF lockVars, goto, Holding, TypeInv, TypeOK
  <2>4. ASSUME NEW t \in Tasks, Deliver(w, t) PROVE HolderInv'
    BY <2>0, <2>4, OtherKeepsHolder DEF Deliver
  <2>5. CASE LoadTask(w) \/ MarkRunning(w) \/ finishUpdateTaskAsFailed(w)
    BY <2>0, <2>5, OtherKeepsHolder DEF LoadTask, MarkRunning, finishUpdateTaskAsFailed
  <2>6. CASE RunUpdate(w) \/ SaveResult(w)
    BY <2>0, <2>6, OtherKeepsHolder DEF RunUpdate, SaveResult
  <2>7. CASE Settle(w) \/ ConnectionLost(w) \/ Restart(w)
    BY <2>0, <2>7, OtherKeepsHolder DEF Settle, ConnectionLost, Restart
  <2> QED BY <1>4, <2>1, <2>2, <2>3, <2>4, <2>5, <2>6, <2>7 DEF WorkerStep
<1>5. CASE UNCHANGED vars
    BY <1>5, OtherKeepsHolder DEF vars, workerVars, lockVars
<1> QED BY <1>1, <1>2, <1>3, <1>4, <1>5 DEF Next

\* At most one update run is inside the lock, for any number of backend
\* instances and requests, provided the limits are below the TTL.
THEOREM LockExcludes == Prompt => (Spec => []MutualExclusion)
<1> SUFFICES ASSUME Prompt PROVE Spec => []MutualExclusion
    OBVIOUS
<1>1. Init => HolderInv
    BY PipelineConstants, TaskIds DEF Init, HolderInv, Holding, Procs
<1>2. Spec => [](TypeInv /\ HolderInv)
    BY <1>1, TypeInvInitial, TypeInvStep, HolderInvStep, PTL DEF Spec
<1>3. HolderInv => MutualExclusion
    BY DEF HolderInv, MutualExclusion
<1> QED BY <1>2, <1>3, PTL

-----------------------------------------------------------------------------
\* The token check: with or without pauses, the key is lost only by a step of
\* its owner or at the end of its TTL.
THEOREM LeaseSafe == Spec => LeaseLostOnlyByOwner
<1>1. ASSUME TypeInv, [Next]_vars, NEW p \in Procs, lock = p, lock' # p
      PROVE  pc'[p] # pc[p] \/ lockLeft = 1
  <2> USE PipelineConstants, TaskIds DEF TypeInv, TypeOK, Procs, goto
  <2>1. CASE Tick
    BY <1>1, <2>1 DEF Tick
  <2>2. ASSUME NEW q \in Procs, NEW refused, NEW error, acquireUpdateLock(q, refused, error)
        PROVE  FALSE
    BY <1>1, <2>2 DEF acquireUpdateLock, SetNX, lockVars
  <2>3. ASSUME NEW q \in Procs, NEW next, goto(q, next), pc[q] # next, Del(q) \/ Forget(q)
        PROVE  pc'[p] # pc[p]
    BY <1>1, <2>3 DEF Del, Forget
  <2>4. ASSUME NEW s \in Syncs, SyncStep(s) \/ SyncCrash(s)
        PROVE  pc'[p] # pc[p]
    BY <1>1, <2>2, <2>3, <2>4
       DEF SyncStep, SyncAcquire, SyncRun, SyncRelease, releaseUpdateLock, SyncCrash, lockVars
  <2>5. ASSUME NEW w \in Workers,
               WorkerStep(w) \/ ConnectionLost(w) \/ WorkerCrash(w) \/ Restart(w)
        PROVE  pc'[p] # pc[p]
    BY <1>1, <2>2, <2>3, <2>5
       DEF WorkerStep, Deliver, LoadTask, MarkRunning, WorkerAcquire, finishUpdateTaskAsFailed,
           RunUpdate, SaveResult, WorkerRelease, releaseUpdateLock, Settle, ConnectionLost,
           WorkerCrash, Restart, lockVars
  <2>6. CASE \E t \in Tasks : AsyncStep(t) \/ Expire(t) \/ AsyncCrash(t)
    BY <1>1, <2>6 DEF AsyncStep, CreateTask, PublishTask, RejectTask, Expire, AsyncCrash, lockVars
  <2>7. CASE UNCHANGED vars
    BY <1>1, <2>7 DEF vars, lockVars
  <2> QED BY <1>1, <2>1, <2>4, <2>5, <2>6, <2>7 DEF Next
<1>2. TypeInv /\ [Next]_vars
        => [\A p \in Procs : lock = p /\ lock' # p => pc'[p] # pc[p] \/ lockLeft = 1]_vars
    BY <1>1
<1>3. Spec => []TypeInv
    BY TypeInvInitial, TypeInvStep, PTL DEF Spec
<1> QED BY <1>2, <1>3, PTL DEF Spec, LeaseLostOnlyByOwner

-----------------------------------------------------------------------------
\* What the record and the queue say of one another.  A task whose request got
\* no 202 is in no queue and in no worker's hands, so nothing runs it; one that
\* got past its first SET has a record; and what a worker is about to save as
\* a success carries no error.
RecordInv ==
    /\ \A t \in Tasks :
          /\ hpc[t] # "accepted" =>
                /\ t \notin queue
                /\ \A w \in Workers : task[w] # t
                /\ record[t].status \notin {"running", "success"}
          /\ hpc[t] \notin {"create", "error"} => record[t].status # "none"
          /\ record[t].status = "success" => record[t].error = "none"
    /\ \A w \in Workers :
          /\ pc[w] = "save" => local[w] \in {[status |-> "success", error |-> "none"],
                                             [status |-> "failed", error |-> "update"]}
          /\ pc[w] = "mark" => local[w].status # "none"

\* Every step keeps records, queue, requests and workers in agreement, with any
\* number of consumers.
LEMMA RecordInvStep == TypeInv /\ RecordInv /\ [Next]_vars => RecordInv'
<1> SUFFICES ASSUME TypeInv, RecordInv, [Next]_vars PROVE RecordInv'
    OBVIOUS
<1> USE PipelineConstants, TaskIds
        DEF TypeInv, TypeOK, TaskInHand, RecordInv, Procs, goto, saveUpdateTask, SaveError
<1>1. CASE Tick
    BY <1>1 DEF Tick
<1>2. ASSUME NEW t \in Tasks, AsyncStep(t) \/ Expire(t) \/ AsyncCrash(t)
      PROVE  RecordInv'
  <2>1. CASE CreateTask(t)
    BY <2>1 DEF CreateTask, workerVars
  <2>2. CASE PublishTask(t)
    BY <2>2 DEF PublishTask, workerVars
  <2>3. CASE RejectTask(t)
    BY <2>3 DEF RejectTask, workerVars
  <2>4. CASE Expire(t)
    BY <2>4 DEF Expire, workerVars, Missing, Record
  <2>5. CASE AsyncCrash(t)
    BY <2>5 DEF AsyncCrash, workerVars
  <2> QED BY <1>2, <2>1, <2>2, <2>3, <2>4, <2>5 DEF AsyncStep
<1>3. ASSUME NEW s \in Syncs, SyncStep(s) \/ SyncCrash(s)
      PROVE  RecordInv'
  <2>1. UNCHANGED <<record, queue, hpc, task, local>>
    BY <1>3 DEF SyncStep, SyncAcquire, SyncRun, SyncRelease, SyncCrash
  <2>2. \A w \in Workers : pc'[w] = pc[w]
    BY <1>3 DEF SyncStep, SyncAcquire, acquireUpdateLock, SyncRun, SyncRelease, SyncCrash
  <2> QED BY <2>1, <2>2
<1>4. ASSUME NEW w \in Workers,
             WorkerStep(w) \/ ConnectionLost(w) \/ WorkerCrash(w) \/ Restart(w)
      PROVE  RecordInv'
  <2>1. ASSUME NEW t \in Tasks, Deliver(w, t) PROVE RecordInv'
    BY <2>1 DEF Deliver
  <2>2. CASE LoadTask(w)
    BY <2>2 DEF LoadTask, Missing
  <2>3. CASE MarkRunning(w)
    BY <2>3 DEF MarkRunning, Record
  <2>4. CASE WorkerAcquire(w)
    BY <2>4 DEF WorkerAcquire, acquireUpdateLock
  <2>5. CASE finishUpdateTaskAsFailed(w)
    BY <2>5 DEF finishUpdateTaskAsFailed
  <2>6. CASE RunUpdate(w)
    BY <2>6 DEF RunUpdate
  <2>7. CASE SaveResult(w)
    BY <2>7 DEF SaveResult
  <2>8. CASE WorkerRelease(w) \/ Settle(w) \/ Restart(w)
    BY <2>8 DEF WorkerRelease, Settle, Restart
  <2>9. CASE ConnectionLost(w)
    BY <2>9 DEF ConnectionLost, Requeue
  <2>10. CASE WorkerCrash(w)
    BY <2>10 DEF WorkerCrash, Requeue
  <2> QED BY <1>4, <2>1, <2>2, <2>3, <2>4, <2>5, <2>6, <2>7, <2>8, <2>9, <2>10 DEF WorkerStep
<1>5. CASE UNCHANGED vars
    BY <1>5 DEF vars, workerVars
<1> QED BY <1>1, <1>2, <1>3, <1>4, <1>5 DEF Next

\* The records, the queue and the handlers agree, with any number of consumers.
LEMMA RecordsAgree == Spec => [](RejectedNeverRuns /\ PublishedIsSaved /\ SuccessIsClean)
<1>1. Init => RecordInv
    BY PipelineConstants, TaskIds DEF Init, RecordInv, NoRecord, Procs
<1>2. Spec => [](TypeInv /\ RecordInv)
    BY <1>1, TypeInvInitial, TypeInvStep, RecordInvStep, PTL DEF Spec
<1>3. TypeInv /\ RecordInv => RejectedNeverRuns /\ PublishedIsSaved /\ SuccessIsClean
    BY DEF TypeInv, TypeOK, RecordInv, RejectedNeverRuns, PublishedIsSaved, SuccessIsClean
<1> QED BY <1>2, <1>3, PTL

\* A task that was answered with a publish error never runs.
THEOREM RejectionIsFinal == Spec => []RejectedNeverRuns
BY RecordsAgree, PTL

\* The consumer finds a record for every message.
THEOREM QueuedWasSaved == Spec => []PublishedIsSaved
BY RecordsAgree, PTL

\* No success carries the error of an earlier attempt, whatever is delivered again.
THEOREM SuccessesAreClean == Spec => []SuccessIsClean
BY RecordsAgree, PTL

-----------------------------------------------------------------------------
\* A task that two consumers have never held at once is in the hands of one at
\* most: nobody else touches its record, so from the SET of "running" to the SET of
\* the result it reads "running".
OneHolder ==
    \A v, w \in Workers :
        task[v] \in Tasks \ shared /\ task[v] = task[w] => v = w

SoloInv ==
    /\ OneHolder
    /\ \A t \in Tasks :
          /\ hpc[t] = "create" => record[t].status = "none"
          /\ hpc[t] \in {"publish", "reject"} => record[t].status = "pending"
    /\ \A w \in Workers : task[w] \notin shared =>
          /\ pc[w] \in {"lock", "busy", "run", "save"} => record[task[w]].status = "running"
          /\ pc[w] = "mark" => record[task[w]].status \notin {"none", "success"}

\* Nobody else writes the record of a task that one worker holds, and a second one
\* that takes it makes it a shared one.
LEMMA SoloInvStep == TypeInv /\ RecordInv /\ SoloInv /\ [Next]_vars => SoloInv'
<1> SUFFICES ASSUME TypeInv, RecordInv, SoloInv, [Next]_vars PROVE SoloInv'
    OBVIOUS
<1> USE PipelineConstants, TaskIds
        DEF OneHolder, TypeInv, TypeOK, TaskInHand, Vacant, RecordInv, SoloInv, Procs, goto,
            saveUpdateTask, SaveError, history
<1>1. CASE Tick
    BY <1>1 DEF Tick
<1>2. ASSUME NEW t \in Tasks, AsyncStep(t) \/ Expire(t) \/ AsyncCrash(t)
      PROVE  SoloInv'
  <2>1. CASE CreateTask(t)
    BY <2>1 DEF CreateTask, workerVars
  <2>2. CASE PublishTask(t)
    BY <2>2 DEF PublishTask, workerVars
  <2>3. CASE RejectTask(t)
    BY <2>3 DEF RejectTask, workerVars
  <2>4. CASE Expire(t)
    BY <2>4 DEF Expire, workerVars, Missing, Record
  <2>5. CASE AsyncCrash(t)
    BY <2>5 DEF AsyncCrash, workerVars
  <2> QED BY <1>2, <2>1, <2>2, <2>3, <2>4, <2>5 DEF AsyncStep
<1>3. ASSUME NEW s \in Syncs, SyncStep(s) \/ SyncCrash(s)
      PROVE  SoloInv'
  <2>1. UNCHANGED <<record, hpc, task, shared>>
    BY <1>3 DEF SyncStep, SyncAcquire, SyncRun, SyncRelease, SyncCrash
  <2>2. \A w \in Workers : pc'[w] = pc[w]
    BY <1>3 DEF SyncStep, SyncAcquire, acquireUpdateLock, SyncRun, SyncRelease, SyncCrash
  <2> QED BY <2>1, <2>2
<1>4. ASSUME NEW w \in Workers,
             WorkerStep(w) \/ ConnectionLost(w) \/ WorkerCrash(w) \/ Restart(w)
      PROVE  SoloInv'
  <2>1. ASSUME NEW t \in Tasks, Deliver(w, t) PROVE SoloInv'
    BY <2>1 DEF Deliver
  <2>2. CASE LoadTask(w)
    BY <2>2 DEF LoadTask, Missing
  <2>3. CASE MarkRunning(w)
    <3> DEFINE running == [local[w] EXCEPT !.status = "running"]
    <3>0. running.status = "running"
      BY DEF Record
    <3>1. running.status = "running" /\ pc[w] = "mark" /\ task[w] \in Tasks
      BY <2>3, <3>0 DEF MarkRunning
    <3>2. record' = [record EXCEPT ![task[w]] = running] \/ UNCHANGED record
      BY <2>3 DEF MarkRunning
    <3>3. \/ pc' = [pc EXCEPT ![w] = "lock"] /\ record'[task[w]] = running
          \/ pc' = [pc EXCEPT ![w] = "settle"]
      BY <2>3, <3>1 DEF MarkRunning
    <3>4. UNCHANGED <<task, hpc>> /\ hpc[task[w]] = "accepted"
      BY <2>3, <3>1 DEF MarkRunning
    <3> HIDE DEF running
    <3>5. \A v \in Workers \ {w} : task[v] \in Tasks \ shared =>
              record'[task[v]] = record[task[v]] /\ pc'[v] = pc[v]
      BY <3>1, <3>2, <3>3
    <3>6. UNCHANGED shared
      BY <2>3 DEF MarkRunning
    <3> QED BY <3>1, <3>2, <3>3, <3>4, <3>5, <3>6
  <2>4. CASE WorkerAcquire(w)
    BY <2>4 DEF WorkerAcquire, acquireUpdateLock
  <2>5. CASE finishUpdateTaskAsFailed(w)
    BY <2>5 DEF finishUpdateTaskAsFailed
  <2>6. CASE RunUpdate(w)
    BY <2>6 DEF RunUpdate
  <2>7. CASE SaveResult(w)
    BY <2>7 DEF SaveResult
  <2>8. CASE WorkerRelease(w) \/ Settle(w) \/ Restart(w)
    BY <2>8 DEF WorkerRelease, Settle, Restart
  <2>9. CASE ConnectionLost(w)
    BY <2>9 DEF ConnectionLost
  <2>10. CASE WorkerCrash(w)
    BY <2>10 DEF WorkerCrash
  <2> QED BY <1>4, <2>1, <2>2, <2>3, <2>4, <2>5, <2>6, <2>7, <2>8, <2>9, <2>10 DEF WorkerStep
<1>5. CASE UNCHANGED vars
    BY <1>5 DEF vars, workerVars
<1> QED BY <1>1, <1>2, <1>3, <1>4, <1>5 DEF Next

\* One SET of a record, seen as the map of all statuses.
LEMMA StatusOfSet ==
    ASSUME TypeOK, NEW t \in Tasks, NEW r, saveUpdateTask(t, r)
    PROVE  statuses' = [statuses EXCEPT ![t] = r.status]
  BY DEF TypeOK, saveUpdateTask, statuses

\* A step that writes the record of t alone, and writes it as TaskLifecycle says if
\* t was never shared.
ChangeOf(t) ==
    /\ \A u \in Tasks \ {t} : statuses'[u] = statuses[u]
    /\ t \notin shared => Lifecycle!Change(t)

\* Every step leaves all the statuses alone or is such a change of one of them.
LEMMA StatusStep ==
    TypeInv /\ RecordInv /\ SoloInv /\ [Next]_vars
      => UNCHANGED statuses \/ \E t \in Tasks : ChangeOf(t)
<1> DEFINE Goal == UNCHANGED statuses \/ \E t \in Tasks : ChangeOf(t)
<1> SUFFICES ASSUME TypeInv, RecordInv, SoloInv, [Next]_vars
             PROVE  Goal
    OBVIOUS
<1> USE DEF TypeInv
<1>1. CASE UNCHANGED record
    BY <1>1 DEF statuses
<1>2. ASSUME NEW t \in Tasks, NEW r, saveUpdateTask(t, r),
             \/ t \in shared
             \/ record[t].status = "none" /\ r.status = "pending"
             \/ record[t].status = "pending" /\ r.status = "failed"
             \/ /\ record[t].status \in {"pending", "running", "failed", "expired"}
                /\ r.status = "running"
             \/ record[t].status = "running" /\ r.status \in {"success", "failed"}
             \/ /\ record[t].status \in Lifecycle!Statuses \ {"none"}
                /\ r.status = "expired"
      PROVE  Goal
  <2>1. statuses' = [statuses EXCEPT ![t] = r.status] /\ statuses[t] = record[t].status
    BY <1>2, StatusOfSet DEF statuses
  <2>2. ASSUME NEW from, statuses[t] \in from PROVE Lifecycle!Become(t, from, r.status)
    BY <2>1, <2>2 DEF Lifecycle!Become
  <2>3. \A u \in Tasks \ {t} : statuses'[u] = statuses[u]
    BY <2>1 DEF statuses
  <2>4. CASE t \in shared
    BY <2>3, <2>4 DEF ChangeOf
  <2>5. CASE record[t].status = "none" /\ r.status = "pending"
    BY <2>1, <2>2, <2>3, <2>5 DEF ChangeOf, Lifecycle!Change, Lifecycle!Create
  <2>6. CASE record[t].status = "pending" /\ r.status = "failed"
    BY <2>1, <2>2, <2>3, <2>6 DEF ChangeOf, Lifecycle!Change, Lifecycle!Reject
  <2>7. CASE /\ record[t].status \in {"pending", "running", "failed", "expired"}
             /\ r.status = "running"
    BY <2>1, <2>2, <2>3, <2>7 DEF ChangeOf, Lifecycle!Change, Lifecycle!Start
  <2>8. CASE record[t].status = "running" /\ r.status \in {"success", "failed"}
    BY <2>1, <2>2, <2>3, <2>8 DEF ChangeOf, Lifecycle!Change, Lifecycle!Finish
  <2>9. CASE /\ record[t].status \in Lifecycle!Statuses \ {"none"}
             /\ r.status = "expired"
    BY <2>1, <2>2, <2>3, <2>9 DEF ChangeOf, Lifecycle!Change, Lifecycle!Expire
  <2> QED BY <1>2, <2>4, <2>5, <2>6, <2>7, <2>8, <2>9
<1> HIDE DEF Goal
<1>3. ASSUME NEW t \in Tasks, AsyncStep(t) \/ Expire(t) \/ AsyncCrash(t)
      PROVE  UNCHANGED record \/ Goal
  <2>1. CASE CreateTask(t)
    BY <2>1, <1>2 DEF CreateTask, SaveError, SoloInv
  <2>2. CASE RejectTask(t)
    BY <2>2, <1>2 DEF RejectTask, SaveError, SoloInv
  <2>3. CASE Expire(t)
    <3>1. saveUpdateTask(t, [record[t] EXCEPT !.status = "expired"])
      BY <2>3 DEF Expire, saveUpdateTask, TypeOK
    <3>2. record[t].status \in Lifecycle!Statuses \ {"none"}
      BY <2>3 DEF Expire, Missing, TypeOK, Record, Lifecycle!Statuses
    <3>3. [record[t] EXCEPT !.status = "expired"].status = "expired"
      BY DEF TypeOK, Record
    <3> QED BY <3>1, <3>2, <3>3, <1>2
  <2> QED BY <1>3, <2>1, <2>2, <2>3 DEF AsyncStep, PublishTask, AsyncCrash
<1>4. ASSUME NEW s \in Syncs, SyncStep(s) \/ SyncCrash(s)
      PROVE  UNCHANGED record
    BY <1>4 DEF SyncStep, SyncAcquire, SyncRun, SyncRelease, SyncCrash
<1>5. ASSUME NEW w \in Workers,
             WorkerStep(w) \/ ConnectionLost(w) \/ WorkerCrash(w) \/ Restart(w)
      PROVE  UNCHANGED record \/ Goal
  <2>0. pc[w] \notin Vacant => task[w] \in Tasks /\ record[task[w]] \in Record
    BY DEF TypeOK, TaskInHand, Procs
  <2> USE DEF Vacant
  <2>1. CASE MarkRunning(w)
    <3>1. [local[w] EXCEPT !.status = "running"].status = "running"
      BY DEF TypeOK, Record
    <3>2. \/ task[w] \in shared
          \/ record[task[w]].status \in {"pending", "running", "failed", "expired"}
      BY <2>0, <2>1 DEF MarkRunning, SoloInv, Record
    <3> QED BY <2>0, <2>1, <3>1, <3>2, <1>2 DEF MarkRunning, SaveError
  <2>2. CASE finishUpdateTaskAsFailed(w)
    BY <2>0, <2>2, <1>2 DEF finishUpdateTaskAsFailed, SaveError, SoloInv
  <2>3. CASE SaveResult(w)
    BY <2>0, <2>3, <1>2 DEF SaveResult, SaveError, SoloInv, RecordInv
  <2> QED BY <1>5, <2>1, <2>2, <2>3
          DEF WorkerStep, Deliver, LoadTask, WorkerAcquire, RunUpdate, WorkerRelease, Settle,
              ConnectionLost, WorkerCrash, Restart
<1> QED BY <1>1, <1>3, <1>4, <1>5 DEF Goal, Next, Tick, vars

\* A request, a worker or a process that has just started is alone with its task.
LEMMA SoloInvInitial == Init => RecordInv /\ SoloInv
BY PipelineConstants, TaskIds DEF Init, RecordInv, SoloInv, OneHolder, NoRecord, Procs

\* The invariants hold with any number of consumers and whatever fails.
LEMMA SoloInvHolds == Spec => [](TypeInv /\ RecordInv /\ SoloInv)
BY SoloInvInitial, SoloInvStep, TypeInvInitial, TypeInvStep, RecordInvStep, PTL DEF Spec

\* With any number of consumers, through crashes, lost channels, redeliveries and
\* failing calls, the record of a task changes only as TaskLifecycle allows until
\* two consumers have held the task at once.
THEOREM UnsharedTasksKeepLifecycle == Spec => LifecycleUnlessShared
<1>1. TypeInv /\ RecordInv /\ SoloInv /\ [Next]_vars
        => [\A t \in Tasks \ shared :
               statuses'[t] # statuses[t] => Lifecycle!Change(t)]_vars
    BY StatusStep DEF ChangeOf
<1> QED BY <1>1, SoloInvHolds, PTL DEF Spec, LifecycleUnlessShared

-----------------------------------------------------------------------------
\* One consumer shares its tasks with nobody.
SingleConsumer == \A v, w \in Workers : v = w

\* A delivery is all that makes a task a shared one.
LEMMA NothingShared == SingleConsumer => (Spec => [](shared = {}))
<1> SUFFICES ASSUME SingleConsumer PROVE Spec => [](shared = {})
    OBVIOUS
<1>1. Init => shared = {}
    BY DEF Init
<1>2. TypeInv /\ shared = {} /\ [Next]_vars => (shared = {})'
  <2> SUFFICES ASSUME TypeInv, shared = {}, [Next]_vars PROVE (shared = {})'
    OBVIOUS
  <2>1. ASSUME NEW w \in Workers, NEW t \in Tasks, Deliver(w, t) PROVE UNCHANGED shared
    BY <2>1, TaskIds DEF Deliver, SingleConsumer, TypeInv, TypeOK, TaskInHand, Vacant
  <2>2. ASSUME NEW t \in Tasks, AsyncStep(t) \/ Expire(t) \/ AsyncCrash(t) PROVE UNCHANGED shared
    BY <2>2 DEF AsyncStep, CreateTask, PublishTask, RejectTask, Expire, AsyncCrash, history
  <2>3. ASSUME NEW s \in Syncs, SyncStep(s) \/ SyncCrash(s) PROVE UNCHANGED shared
    BY <2>3 DEF SyncStep, SyncAcquire, SyncRun, SyncRelease, SyncCrash, history
  <2>4. ASSUME NEW w \in Workers,
               WorkerStep(w) \/ ConnectionLost(w) \/ WorkerCrash(w) \/ Restart(w)
        PROVE  UNCHANGED shared
    BY <2>1, <2>4
       DEF WorkerStep, LoadTask, MarkRunning, WorkerAcquire, finishUpdateTaskAsFailed,
           RunUpdate, SaveResult, WorkerRelease, Settle, ConnectionLost, WorkerCrash, Restart,
           history
  <2>5. Tick \/ UNCHANGED vars => UNCHANGED shared
    BY DEF Tick, vars, history
  <2> QED BY <2>2, <2>3, <2>4, <2>5 DEF Next
<1>3. Spec => []TypeInv
    BY TypeInvInitial, TypeInvStep, PTL DEF Spec
<1> QED BY <1>1, <1>2, <1>3, PTL DEF Spec

\* With one consumer, through crashes, redeliveries and lost calls, the records
\* change only as TaskLifecycle allows.
THEOREM RefinesLifecycle == SingleConsumer => (Spec => ImplementsLifecycle)
<1> SUFFICES ASSUME SingleConsumer PROVE Spec => ImplementsLifecycle
    OBVIOUS
<1>1. Init => Lifecycle!Init
    BY DEF Init, NoRecord, Lifecycle!Init, statuses
<1>2. TypeInv /\ RecordInv /\ SoloInv /\ shared = {} /\ [Next]_vars
        => [Lifecycle!Next]_statuses
    BY StatusStep DEF ChangeOf, Lifecycle!Next
<1> QED BY <1>1, <1>2, SoloInvHolds, NothingShared, PTL
        DEF Spec, ImplementsLifecycle, Lifecycle!Spec

\* The abstract lifecycle never takes a success back, and so neither does the
\* pipeline: worker.go skips the message of a task that has succeeded.
THEOREM SuccessStays == SingleConsumer => (Spec => Lifecycle!SuccessIsFinal)
<1> DEFINE st == statuses
<1>1. ASSUME [Lifecycle!Next]_st
      PROVE  [\A t \in Tasks : st[t] = "success" => st'[t] \in {"success", "expired"}]_st
  <2> SUFFICES ASSUME NEW u \in Tasks, Lifecycle!Next, st[u] = "success"
               PROVE  st'[u] \in {"success", "expired"}
      BY <1>1
  <2>1. PICK t \in Tasks : Lifecycle!Change(t)
      BY DEF Lifecycle!Next
  <2> QED BY <2>1 DEF Lifecycle!Change, Lifecycle!Create, Lifecycle!Reject, Lifecycle!Start, Lifecycle!Finish,
                      Lifecycle!Expire, Lifecycle!Become, Lifecycle!Statuses, statuses
<1>2. Lifecycle!Spec => Lifecycle!SuccessIsFinal
    BY <1>1, PTL DEF Lifecycle!Spec, Lifecycle!SuccessIsFinal
<1> QED BY <1>2, RefinesLifecycle DEF ImplementsLifecycle

-----------------------------------------------------------------------------
\* Why no running task is forgotten.  Until two workers have held a task at once or
\* its handler has ended in an error, the record says "running" only as long as a
\* message stands for it: a worker that settles has saved a result first, and one
\* whose channel is closed - its Ack will fail, its death will requeue nothing -
\* handles a message that is back in the queue.
HandledInv ==
    /\ RunningIsExplained
    /\ \A w \in Workers :
          /\ ~connected[w] /\ task[w] \in Tasks \ shared => task[w] \in queue
          /\ pc[w] \in {"release", "settle"} /\ task[w] \notin shared \cup erred
                => record[task[w]].status # "running"

\* Every step, crashes, lost channels and failing calls included, keeps a message
\* for each such task that runs.
LEMMA HandledInvStep == TypeInv /\ RecordInv /\ SoloInv /\ HandledInv /\ [Next]_vars => HandledInv'
<1> SUFFICES ASSUME TypeInv, RecordInv, SoloInv, HandledInv, [Next]_vars
             PROVE  HandledInv'
    OBVIOUS
<1> USE PipelineConstants, TaskIds
        DEF TypeInv, TypeOK, TaskInHand, Vacant, OneHolder, SoloInv, HandledInv,
            RunningIsExplained, Procs, goto, saveUpdateTask, SaveError, Err, history
<1>1. CASE Tick
    BY <1>1 DEF Tick
<1>2. ASSUME NEW t \in Tasks, AsyncStep(t) \/ Expire(t) \/ AsyncCrash(t)
      PROVE  HandledInv'
  <2>1. CASE CreateTask(t)
    BY <2>1 DEF CreateTask, workerVars, RecordInv
  <2>2. CASE PublishTask(t)
    BY <2>2 DEF PublishTask, workerVars
  <2>3. CASE RejectTask(t)
    BY <2>3 DEF RejectTask, workerVars
  <2>4. CASE Expire(t)
    BY <2>4 DEF Expire, workerVars, Record
  <2>5. CASE AsyncCrash(t)
    BY <2>5 DEF AsyncCrash, workerVars
  <2> QED BY <1>2, <2>1, <2>2, <2>3, <2>4, <2>5 DEF AsyncStep
<1>3. ASSUME NEW s \in Syncs, SyncStep(s) \/ SyncCrash(s)
      PROVE  HandledInv'
  <2>1. UNCHANGED <<record, queue, task, connected, shared, erred>>
    BY <1>3 DEF SyncStep, SyncAcquire, SyncRun, SyncRelease, SyncCrash
  <2>2. \A w \in Workers : pc'[w] = pc[w]
    BY <1>3 DEF SyncStep, SyncAcquire, acquireUpdateLock, SyncRun, SyncRelease, SyncCrash
  <2> QED BY <2>1, <2>2
<1>4. ASSUME NEW w \in Workers,
             WorkerStep(w) \/ ConnectionLost(w) \/ WorkerCrash(w) \/ Restart(w)
      PROVE  HandledInv'
  <2>1. ASSUME NEW t \in Tasks, Deliver(w, t) PROVE HandledInv'
    BY <2>1 DEF Deliver
  <2>2. CASE LoadTask(w)
    BY <2>2 DEF LoadTask, Missing
  <2>3. CASE MarkRunning(w)
    <3>1. pc[w] = "mark" /\ task[w] \in Tasks /\ UNCHANGED <<queue, task, connected, shared>>
      BY <2>3 DEF MarkRunning
    <3>2. \A t \in Tasks \ {task[w]} : record'[t] = record[t]
      BY <2>3, <3>1 DEF MarkRunning
    <3>3. \/ pc' = [pc EXCEPT ![w] = "lock"] /\ UNCHANGED erred
          \/ pc' = [pc EXCEPT ![w] = "settle"] /\ erred' = erred \cup {task[w]}
      BY <2>3 DEF MarkRunning
    <3>4. \A v \in Workers \ {w} : task[v] \in Tasks \ shared =>
              record'[task[v]] = record[task[v]] /\ pc'[v] = pc[v]
      BY <3>1, <3>2, <3>3
    <3> QED BY <3>1, <3>2, <3>3, <3>4
  <2>4. CASE WorkerAcquire(w)
    BY <2>4 DEF WorkerAcquire, acquireUpdateLock
  <2>5. CASE finishUpdateTaskAsFailed(w)
    BY <2>5 DEF finishUpdateTaskAsFailed
  <2>6. CASE RunUpdate(w)
    BY <2>6 DEF RunUpdate
  <2>7. CASE SaveResult(w)
    BY <2>7 DEF SaveResult, RecordInv
  <2>8. CASE WorkerRelease(w)
    BY <2>8 DEF WorkerRelease
  <2>9. CASE Settle(w)
    BY <2>9 DEF Settle
  <2>10. CASE ConnectionLost(w)
    BY <2>10 DEF ConnectionLost, Requeue
  <2>11. CASE WorkerCrash(w)
    BY <2>11 DEF WorkerCrash, Requeue
  <2>12. CASE Restart(w)
    BY <2>12 DEF Restart
  <2> QED
    BY <1>4, <2>1, <2>2, <2>3, <2>4, <2>5, <2>6, <2>7, <2>8, <2>9, <2>10, <2>11, <2>12
       DEF WorkerStep
<1>5. CASE UNCHANGED vars
    BY <1>5 DEF vars, workerVars
<1> QED BY <1>1, <1>2, <1>3, <1>4, <1>5 DEF Next

\* With any number of consumers, a task that reads "running" is in a worker's hands
\* or its message will come again, through crashes, closed channels and processes
\* paused past the TTL of the lock - or the handler of its last message ended in an
\* error, or two workers have held it at once.
THEOREM RunningIsNeverForgotten == Spec => []RunningIsExplained
<1>1. Init => HandledInv
    BY PipelineConstants, TaskIds DEF Init, HandledInv, RunningIsExplained, NoRecord, Procs
<1>2. Spec => []HandledInv
    BY <1>1, SoloInvHolds, HandledInvStep, PTL DEF Spec
<1>3. HandledInv => RunningIsExplained
    BY DEF HandledInv
<1> QED BY <1>2, <1>3, PTL

-----------------------------------------------------------------------------
(* The page that waits for a task.  Of the pipeline it sees the statuses of   *)
(* the records alone: UpdatePage, over statuses that live as TaskLifecycle    *)
(* says.                                                                      *)
\* Which of its three ways of waiting the page is in.  PageFollows alone is not
\* inductive: it would let the poll of the current task end, or the answer to a
\* click come for a page that already follows another task.
Waiting ==
    /\ starting # NoTask => updateStatus = "pending" /\ updateTaskId = NoTask
    /\ isUpdateRunning => starting # NoTask \/ updateTaskId # NoTask
    /\ updateTaskId # NoTask =>
          \/ poll[updateTaskId] \in {"timer", "query"} /\ isUpdateRunning
          \/ poll[updateTaskId] = "funds" /\ updateStatus = "success"
    /\ \A t \in Tasks : poll[t] = "timer" => updateTaskId = t

PageInv == PageTypeOK /\ Waiting

\* A fresh page waits for nothing.
LEMMA PageInvInitial == PageInit => PageInv
<1> SUFFICES ASSUME PageInit PROVE PageInv
    OBVIOUS
<1>1. PageTypeOK
  <2>0. starts = 0
    BY DEF PageInit
  <2>1. starts \in 0 .. MaxStarts
    BY <2>0, PageConstants
  <2>2. status \in [Tasks -> Server!Statuses]
    BY DEF PageInit, Server!Init, Server!Statuses
  <2> QED BY <2>1, <2>2 DEF PageInit, PageTypeOK, Server!TypeOK
<1>2. Waiting
    BY DEF PageInit, Waiting, isUpdateRunning
<1> QED BY <1>1, <1>2 DEF PageInv

\* The server changes statuses only.
LEMMA ServerStep ==
    ASSUME PageInv, NEW t \in Tasks,
           Create(t) \/ RecordExpires(t) \/ Work(t)
    PROVE  PageInv'
<1>1. UNCHANGED pageVars
    BY DEF Create, RecordExpires, Work
<1>2. starts' \in 0 .. MaxStarts
  <2>0. starts \in 0 .. MaxStarts
    BY DEF PageInv, PageTypeOK
  <2>1. starts' = starts \/ (starts < MaxStarts /\ starts' = starts + 1)
    BY DEF Create, RecordExpires, Work
  <2> QED BY <2>0, <2>1, PageConstants
<1>3. status' \in [Tasks -> Server!Statuses]
    BY DEF PageInv, PageTypeOK, Server!TypeOK, Server!Statuses, Create,
       RecordExpires, Work, Server!Create, Server!Expire, Server!Start,
       Server!Reject, Server!Finish, Server!Become
<1> QED
    BY <1>1, <1>2, <1>3
       DEF PageInv, Waiting, isUpdateRunning, PageTypeOK, Server!TypeOK, pageVars

\* A new task for the effect stops the timer of the old one.
LEMMA EffectChanges ==
    ASSUME NEW t \in Tasks \cup {NoTask}, NEW polls \in [Tasks -> {"none", "timer", "query", "funds"}],
           setUpdateTaskId(t, polls)
    PROVE  /\ updateTaskId' = t
           /\ poll' \in [Tasks -> {"none", "timer", "query", "funds"}]
           /\ \A u \in Tasks : poll'[u] = "timer" => u = t
           /\ t # NoTask => poll'[t] = "timer"
  BY TaskIds DEF setUpdateTaskId

\* An answer for the task of the effect moves the effect on; any other is dropped.
LEMMA PageStep ==
    ASSUME PageInv, NEW t \in Tasks,
           \/ Click(t) \/ Started(t) \/ StartFailed(t) \/ PollSent(t)
           \/ PollAnswered(t) \/ FundsLoaded(t) \/ PollFailed(t)
    PROVE  PageInv'
<1> USE TaskIds DEF PageInv, PageTypeOK, Waiting, isUpdateRunning, active
<1>1. CASE Click(t)
    BY <1>1, EffectChanges DEF Click, serverVars, Server!TypeOK
<1>2. CASE Started(t)
    BY <1>2, EffectChanges DEF Started, serverVars, Server!TypeOK
<1>3. CASE StartFailed(t)
    BY <1>3 DEF StartFailed, serverVars, Server!TypeOK
<1>4. CASE PollSent(t)
    BY <1>4 DEF PollSent, Waits, serverVars, Server!TypeOK
<1>5. CASE PollAnswered(t)
  <2> DEFINE answer == IF NotFound(t) THEN "failed" ELSE status[t]
  <2>1. answer \in {"pending", "running", "success", "failed"}
    BY DEF NotFound, Server!TypeOK, Server!Statuses
  <2>2. UNCHANGED <<status, starts, starting, clicked>> /\ poll[t] = "query"
    BY <1>5 DEF PollAnswered, serverVars
  <2>3. CASE ~active(t)
    BY <1>5, <2>2, <2>3 DEF PollAnswered, Waits, Server!TypeOK
  <2>4. CASE active(t) /\ answer = "failed"
    <3>1. setUpdateTaskId(NoTask, Waits(t, "none")) /\ updateStatus' = "failed"
      BY <1>5, <2>4 DEF PollAnswered
    <3>2. Waits(t, "none") \in [Tasks -> {"none", "timer", "query", "funds"}]
      BY DEF Waits
    <3>3. /\ updateTaskId' = NoTask
          /\ poll' \in [Tasks -> {"none", "timer", "query", "funds"}]
          /\ \A u \in Tasks : poll'[u] # "timer"
      BY <3>1, <3>2, EffectChanges
    <3> QED BY <2>2, <2>4, <3>1, <3>3 DEF Server!TypeOK
  <2>5. CASE active(t) /\ answer # "failed"
    <3>1. /\ poll' = [poll EXCEPT ![t] = IF answer = "success" THEN "funds" ELSE "timer"]
          /\ updateStatus' = answer /\ UNCHANGED updateTaskId
      BY <1>5, <2>5 DEF PollAnswered, Waits
    <3> HIDE DEF answer
    <3> QED BY <2>1, <2>2, <2>5, <3>1 DEF Server!TypeOK
  <2> QED BY <2>3, <2>4, <2>5
<1>6. ASSUME NEW next, updateStatus' = next, next \in {updateStatus, "failed"},
             poll[t] \in {"query", "funds"}, next = updateStatus => poll[t] = "funds",
             active(t), setUpdateTaskId(NoTask, Waits(t, "none")),
             UNCHANGED <<serverVars, starting, clicked>>
      PROVE  PageInv'
  <2>1. Waits(t, "none") \in [Tasks -> {"none", "timer", "query", "funds"}]
    BY DEF Waits
  <2>2. /\ updateTaskId' = NoTask
        /\ poll' \in [Tasks -> {"none", "timer", "query", "funds"}]
        /\ \A u \in Tasks : poll'[u] # "timer"
    BY <1>6, <2>1, EffectChanges
  <2>3. UNCHANGED <<status, starts, starting, clicked>> /\ starting = NoTask
    BY <1>6 DEF serverVars
  <2>4. updateStatus' \in {"success", "failed"}
    BY <1>6
  <2> QED BY <2>2, <2>3, <2>4 DEF Server!TypeOK
<1>7. ASSUME poll[t] \in {"query", "funds"}, ~active(t), poll' = Waits(t, "none"),
             UNCHANGED <<serverVars, updateStatus, updateTaskId, starting, clicked>>
      PROVE  PageInv'
    BY <1>7 DEF Waits, serverVars, Server!TypeOK
<1>8. CASE FundsLoaded(t)
    BY <1>6, <1>7, <1>8 DEF FundsLoaded
<1>9. CASE PollFailed(t)
    BY <1>6, <1>7, <1>9 DEF PollFailed
<1> QED BY <1>1, <1>2, <1>3, <1>4, <1>5, <1>8, <1>9

\* Every step of server, network and user keeps the page waiting for something
\* that will answer.
LEMMA PageInvStep == PageInv /\ [PageNext]_clientVars => PageInv'
<1> SUFFICES ASSUME PageInv, [PageNext]_clientVars PROVE PageInv'
    OBVIOUS
<1>1. CASE Leave
    BY <1>1, EffectChanges, TaskIds
       DEF Leave, PageInv, PageTypeOK, Waiting, isUpdateRunning, serverVars,
           Server!TypeOK
<1>2. CASE UNCHANGED clientVars
    BY <1>2 DEF clientVars, serverVars, pageVars, PageInv, PageTypeOK, Waiting,
       isUpdateRunning, Server!TypeOK
<1> QED BY <1>1, <1>2, ServerStep, PageStep DEF PageNext, Proceeds

\* The page keeps to the invariant.
LEMMA PageInvHolds == PageSpec => []PageInv
BY PageInvInitial, PageInvStep, PTL DEF PageSpec

\* The page's variables keep their types.
THEOREM PageTypeCorrect == PageSpec => []PageTypeOK
<1>1. PageInv => PageTypeOK
    BY DEF PageInv
<1> QED BY <1>1, PageInvHolds, PTL

\* While the button is disabled the page has an answer or a timer to wait for, and
\* no timer runs for a task it no longer follows: for any number of clicks, lost
\* answers and visits, and whatever the server does with the records.
THEOREM ButtonIsServed == PageSpec => []PageFollows
<1>1. PageInv => PageFollows
    BY DEF PageInv, PageTypeOK, Waiting, PageFollows, active, isUpdateRunning
<1> QED BY <1>1, PageInvHolds, PTL
=============================================================================
