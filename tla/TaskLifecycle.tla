--------------------------- MODULE TaskLifecycle ----------------------------
(***************************************************************************)
(* What POST /api/update/async and GET /api/update/tasks/:id promise about *)
(* a task: the life of its status in Redis, whatever queue, worker and     *)
(* lock do to bring it about.                                              *)
(***************************************************************************)
CONSTANT Tasks

VARIABLE status     \* "none" before the task is created

Statuses == {"none", "pending", "running", "success", "failed", "expired"}

TypeOK == status \in [Tasks -> Statuses]

Init == status = [t \in Tasks |-> "none"]

Become(t, from, to) ==
    /\ status[t] \in from
    /\ status' = [status EXCEPT ![t] = to]

Create(t) == Become(t, {"none"}, "pending")

\* The task could not be published.
Reject(t) == Become(t, {"pending"}, "failed")

\* A worker takes the task, for the first time or again after a redelivery; it
\* may have read the record just before its hour was over.
Start(t) == Become(t, {"pending", "running", "failed", "expired"}, "running")

Finish(t) == Become(t, {"running"}, "success") \/ Become(t, {"running"}, "failed")

Expire(t) == Become(t, Statuses \ {"none"}, "expired")

Change(t) == Create(t) \/ Reject(t) \/ Start(t) \/ Finish(t) \/ Expire(t)

Next == \E t \in Tasks : Change(t)

Spec == Init /\ [][Next]_status

\* A task reported as success stays so until its record expires.
SuccessIsFinal ==
    [][\A t \in Tasks : status[t] = "success" => status'[t] \in {"success", "expired"}]_status
=============================================================================
