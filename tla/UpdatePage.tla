----------------------------- MODULE UpdatePage -----------------------------
(***************************************************************************)
(* The update button of the home page (client/src/pages/index.js): a click *)
(* starts a task, an effect on the task's id polls its record every two    *)
(* seconds and reloads the funds once it has succeeded.                    *)
(*                                                                         *)
(* Of the server the page sees the records alone, so the server is what    *)
(* TaskLifecycle promises of them and UpdatePipeline implements.  Nginx    *)
(* adds the key and forwards both requests unchanged.                      *)
(*                                                                         *)
(* An effect belongs to the id it was created for and ids never repeat, so *)
(* the "active" of its closure is updateTaskId = t; its cleanup clears the *)
(* timer but not a request that is already on its way.                     *)
(*                                                                         *)
(* Init, Next and Spec carry the page's name here, so that one module can  *)
(* speak of the page and of UpdatePipeline.                                *)
(***************************************************************************)
EXTENDS Integers, UpdateTasks

CONSTANT
    MaxStarts   \* bound on how often workers start tasks: deliveries are repeated
                \* after crashes, of which there are finitely many

ASSUME PageConstants == MaxStarts \in Nat

VARIABLES
    status,         \* Redis: the status of fund:update:task:<t>
    starts,         \* how often a worker started a task
    updateStatus,   \* "" before the first click
    updateTaskId,   \* the task the effect is for
    starting,       \* the task of the click whose answer the page awaits
    poll,           \* per task: what the effect created for it waits for
    clicked         \* the tasks that were asked for

serverVars == <<status, starts>>
pageVars == <<updateStatus, updateTaskId, starting, poll, clicked>>
clientVars == <<serverVars, pageVars>>

Server == INSTANCE TaskLifecycle

isUpdateRunning == updateStatus \in {"pending", "accepted", "running"}
active(t) == updateTaskId = t

Mut_NotFound(t) == status[t] = "none"      \* an expired record is answered with 200
NotFound(t) == status[t] \in {"none", "expired"}

PageTypeOK ==
    /\ Server!TypeOK
    /\ starts \in 0..MaxStarts
    /\ updateStatus \in {"", "pending", "accepted", "running", "success", "failed"}
    /\ {updateTaskId, starting} \subseteq Tasks \cup {NoTask}
    /\ poll \in [Tasks -> {"none", "timer", "query", "funds"}]
    /\ clicked \subseteq Tasks

PageInit ==
    /\ Server!Init
    /\ starts = 0
    /\ updateStatus = ""
    /\ updateTaskId = NoTask /\ starting = NoTask
    /\ poll = [t \in Tasks |-> "none"]
    /\ clicked = {}

-----------------------------------------------------------------------------
(* The server                                                              *)

\* The handler runs when the click's request has arrived.
Create(t) == t \in clicked /\ Server!Create(t) /\ UNCHANGED <<starts, pageVars>>

RecordExpires(t) == ~NotFound(t) /\ Server!Expire(t) /\ UNCHANGED <<starts, pageVars>>

\* The publish error, and the worker.
Work(t) ==
    /\ \/ Server!Start(t) /\ starts < MaxStarts /\ starts' = starts + 1
       \/ (Server!Reject(t) \/ Server!Finish(t)) /\ UNCHANGED starts
    /\ UNCHANGED pageVars

-----------------------------------------------------------------------------
(* The page                                                                *)

Waits(t, for) == [poll EXCEPT ![t] = for]

\* setUpdateTaskId: the cleanup of the old effect clears its timer, the new
\* effect sets one.
setUpdateTaskId(t, polls) ==
    /\ updateTaskId' = t
    /\ poll' = [u \in Tasks |-> IF u = t THEN "timer"
                                ELSE IF polls[u] = "timer" THEN "none" ELSE polls[u]]

\* handleAsyncUpdate up to its await; the button is disabled meanwhile.
Click(t) ==
    /\ ~isUpdateRunning
    /\ t \notin clicked /\ clicked' = clicked \cup {t}
    /\ updateStatus' = "pending"
    /\ setUpdateTaskId(NoTask, poll)
    /\ starting' = t
    /\ UNCHANGED serverVars

\* The answer 202 leaves the server when the record has been saved.
Started(t) ==
    /\ starting = t /\ status[t] # "none"
    /\ starting' = NoTask
    /\ updateStatus' = "accepted"
    /\ setUpdateTaskId(t, poll)
    /\ UNCHANGED <<serverVars, clicked>>

\* An error of the server, or of the network: the task may be created, and run,
\* all the same.
StartFailed(t) ==
    /\ starting = t
    /\ starting' = NoTask
    /\ updateStatus' = "failed"
    /\ UNCHANGED <<serverVars, updateTaskId, poll, clicked>>

\* The timer fires.
PollSent(t) ==
    /\ poll[t] = "timer"
    /\ poll' = Waits(t, "query")
    /\ UNCHANGED <<serverVars, updateStatus, updateTaskId, starting, clicked>>

Mut_PollAnswered(t) ==      \* a task that is not found is asked for again
    /\ poll[t] = "query"
    /\ IF active(t) /\ ~NotFound(t)
       THEN /\ updateStatus' = status[t]
            /\ \/ /\ status[t] = "failed"
                  /\ setUpdateTaskId(NoTask, Waits(t, "none"))
               \/ /\ status[t] # "failed"
                  /\ poll' = Waits(t, IF status[t] = "success" THEN "funds" ELSE "timer")
                  /\ UNCHANGED updateTaskId
       ELSE /\ poll' = Waits(t, IF active(t) THEN "timer" ELSE "none")
            /\ UNCHANGED <<updateStatus, updateTaskId>>
    /\ UNCHANGED <<serverVars, starting, clicked>>

\* The answer of GET /api/update/tasks/:id; a 404 throws, as every error does.
PollAnswered(t) ==
    LET answer == IF NotFound(t) THEN "failed" ELSE status[t] IN
    /\ poll[t] = "query"
    /\ IF active(t)
       THEN /\ updateStatus' = answer
            /\ \/ /\ answer = "failed"
                  /\ setUpdateTaskId(NoTask, Waits(t, "none"))
               \/ /\ answer # "failed"
                  /\ poll' = Waits(t, IF answer = "success" THEN "funds" ELSE "timer")
                  /\ UNCHANGED updateTaskId
       ELSE poll' = Waits(t, "none") /\ UNCHANGED <<updateStatus, updateTaskId>>
    /\ UNCHANGED <<serverVars, starting, clicked>>

Mut_FundsLoaded(t) ==       \* without the second "if (active)"
    /\ poll[t] = "funds"
    /\ setUpdateTaskId(NoTask, Waits(t, "none"))
    /\ UNCHANGED <<serverVars, updateStatus, starting, clicked>>

\* getFunds has answered.
FundsLoaded(t) ==
    /\ poll[t] = "funds"
    /\ IF active(t)
       THEN setUpdateTaskId(NoTask, Waits(t, "none"))
       ELSE poll' = Waits(t, "none") /\ UNCHANGED updateTaskId
    /\ UNCHANGED <<serverVars, updateStatus, starting, clicked>>

\* A status query or getFunds throws: the polling ends, whatever the task does.
PollFailed(t) ==
    /\ poll[t] \in {"query", "funds"}
    /\ IF active(t)
       THEN updateStatus' = "failed" /\ setUpdateTaskId(NoTask, Waits(t, "none"))
       ELSE poll' = Waits(t, "none") /\ UNCHANGED <<updateStatus, updateTaskId>>
    /\ UNCHANGED <<serverVars, starting, clicked>>

\* The user leaves the page and may come back to a fresh one.
Leave ==
    /\ updateStatus # ""
    /\ updateStatus' = "" /\ starting' = NoTask
    /\ setUpdateTaskId(NoTask, poll)
    /\ UNCHANGED <<serverVars, clicked>>

Proceeds(t) == Started(t) \/ PollSent(t) \/ PollAnswered(t) \/ FundsLoaded(t)

PageNext ==
    \/ Leave
    \/ \E t \in Tasks :
          \/ Create(t) \/ RecordExpires(t) \/ Work(t)
          \/ Click(t) \/ Proceeds(t) \/ StartFailed(t) \/ PollFailed(t)

PageSpec == PageInit /\ [][PageNext]_clientVars

\* Requests arrive and are answered, timers fire, and Redis expires a record an
\* hour after its last SET.  No worker need ever take the message: it may be
\* lost, as publishes are not confirmed.
PageFairness ==
    \A t \in Tasks :
        /\ WF_clientVars(Create(t))
        /\ WF_clientVars(RecordExpires(t))
        /\ WF_clientVars(Proceeds(t))

PageFairSpec == PageSpec /\ PageFairness

-----------------------------------------------------------------------------
(* Properties                                                              *)

\* While the button is disabled something will enable it: the page waits for
\* the answer to the click, or its one live poll is for the task it was told of.
PageFollows ==
    /\ isUpdateRunning =>
          starting # NoTask \/ \E t \in Tasks : active(t) /\ poll[t] \in {"timer", "query"}
    /\ \A t \in Tasks : poll[t] = "timer" => active(t)

\* The button is enabled again, whatever became of the task: also when its
\* message was lost and its record stays pending for its hour.
PageSettles == isUpdateRunning ~> ~isUpdateRunning
=============================================================================
