----------------------------- MODULE UpdateRun ------------------------------
(***************************************************************************)
(* What executeFundUpdate promises to whoever calls it, and so to everyone *)
(* who shares fund_data with it: at most one upsert of each fund it was    *)
(* asked for, begun while the call runs; an answer that names only upserts *)
(* which are over and succeeded.  After the answer, what is under way may  *)
(* still land, and nothing else does.                                      *)
(***************************************************************************)
CONSTANT Codes

VARIABLES
    phase,      \* "selecting" its targets, "running" or "returned"
    progress,   \* of each code in this run
    written,    \* the codes this run has upserted
    updated     \* the codes its answer calls updated

vars == <<phase, progress, written, updated>>

Init ==
    /\ phase = "selecting"
    /\ progress = [c \in Codes |-> "none"]
    /\ written = {} /\ updated = {}

Advance(c, from, to) ==
    /\ progress[c] = from
    /\ progress' = [progress EXCEPT ![c] = to]

Select(c) ==
    /\ phase = "selecting"
    /\ Advance(c, "none", "pending")
    /\ UNCHANGED <<phase, written, updated>>

Start ==
    /\ phase = "selecting" /\ phase' = "running"
    /\ UNCHANGED <<progress, written, updated>>

BeginUpsert(c) ==
    /\ phase = "running"
    /\ Advance(c, "pending", "writing")
    /\ UNCHANGED <<phase, written, updated>>

\* An upsert that failed may have been applied.
EndUpsert(c) ==
    /\ Advance(c, "writing", "settled")
    /\ written' \in {written, written \cup {c}}
    /\ UNCHANGED <<phase, updated>>

\* The fund could not be fetched, or the run is out of time.
Skip(c) ==
    /\ phase # "selecting"
    /\ Advance(c, "pending", "settled")
    /\ UNCHANGED <<phase, written, updated>>

Return(answer) ==
    /\ phase # "returned" /\ phase' = "returned"
    /\ \A c \in answer : progress[c] = "settled" /\ c \in written
    /\ updated' = answer
    /\ UNCHANGED <<progress, written>>

Next ==
    \/ Start
    \/ \E answer \in SUBSET Codes : Return(answer)
    \/ \E c \in Codes : Select(c) \/ BeginUpsert(c) \/ EndUpsert(c) \/ Skip(c)

Spec == Init /\ [][Next]_vars
=============================================================================
