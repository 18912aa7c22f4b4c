---------------------------- MODULE UpdateTasks -----------------------------
(***************************************************************************)
(* The ids of the update tasks, which the pipeline and the page share.     *)
(***************************************************************************)
CONSTANTS
    Tasks,      \* every task is named by the request, or the click, it is for
    NoTask      \* no id: '' on the page, no message in a worker's hands

ASSUME TaskIds == NoTask \notin Tasks
=============================================================================
