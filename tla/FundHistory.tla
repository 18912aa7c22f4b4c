---------------------------- MODULE FundHistory ----------------------------
(***************************************************************************)
(* The daily snapshots of one fund, backend-go/history.go: update runs add *)
(* a day and delete the days behind the retention, while readers ask for a *)
(* range of days and for the snapshot of a purchase date.  Each computes   *)
(* its dates from the clock first and calls MongoDB with them afterwards,  *)
(* so that midnight can come in between.                                   *)
(*                                                                         *)
(* A date is the number of its UTC day.  The unique index that              *)
(* ensureFundDailySnapshotIndexes creates at the start makes the snapshots *)
(* of the fund a set of days; their net values are left out.               *)
(***************************************************************************)
EXTENDS Integers

CONSTANTS
    Retention,  \* fundHistoryRetentionDays, 30 in the code
    Ranges,     \* days of a range: 7 and 30 in the code
    LastDay,    \* bound on the days
    Updates,    \* workers that handle the fund: the run's and a straggler's
    Cleanups,   \* update runs at their end
    Readers,    \* GET /api/funds/:code/history
    Lookups,    \* updates of a watchlist item with a purchase date
    None

ASSUME HistoryConstants ==
    /\ Retention \in Nat /\ LastDay \in Nat
    /\ Ranges \subseteq Nat \ {0}
    /\ \A days \in Ranges : days <= Retention
    /\ None \notin Int

Days == 0..LastDay

VARIABLES
    today,      \* the day of time.Now().UTC()
    snaps,      \* MongoDB: the days of fund_daily_snapshots
    fetched,    \* the net value date an update is about to save
    cutoff,     \* cutoffDate of a cleanup
    started,    \* the day on which a reader asked
    from,       \* cutoffDate of a reader
    points,     \* its answer
    lpc,        \* control of a lookup
    purchase,   \* its purchaseDate
    snapshot,   \* its answer
    saved,      \* history: the days ever saved
    kept        \* history: the days that were there all through the lookup

updateVars == <<fetched, cutoff>>
readVars == <<started, from, points>>
lookupVars == <<lpc, purchase, snapshot>>
vars == <<today, snaps, updateVars, readVars, lookupVars, saved, kept>>

TypeOK ==
    /\ today \in Days
    /\ snaps \subseteq saved /\ saved \subseteq Days
    /\ fetched \in [Updates -> Days \cup {None}]
    /\ cutoff \in [Cleanups -> Int \cup {None}]
    /\ started \in [Readers -> Days \cup {None}]
    /\ from \in [Readers -> Int \cup {None}]
    /\ points \in [Readers -> (SUBSET Days) \cup {None}]
    /\ lpc \in [Lookups -> {"new", "before", "after", "done"}]
    /\ purchase \in [Lookups -> Days \cup {None}]
    /\ snapshot \in [Lookups -> Days \cup {None}]
    /\ kept \in [Lookups -> SUBSET Days]

Init ==
    /\ today = 0 /\ snaps = {} /\ saved = {}
    /\ fetched = [u \in Updates |-> None]
    /\ cutoff = [c \in Cleanups |-> None]
    /\ started = [r \in Readers |-> None]
    /\ from = [r \in Readers |-> None]
    /\ points = [r \in Readers |-> None]
    /\ lpc = [l \in Lookups |-> "new"]
    /\ purchase = [l \in Lookups |-> None]
    /\ snapshot = [l \in Lookups |-> None]
    /\ kept = [l \in Lookups |-> {}]

\* Every request sees the collection as it becomes.
Becomes(days) ==
    /\ snaps' = days
    /\ kept' = [l \in Lookups |-> kept[l] \cap days]

-----------------------------------------------------------------------------
(* The update run                                                          *)

\* Midnight.  A query has 10 seconds, so it sees at most one.
Tick ==
    /\ today < LastDay
    /\ \A r \in Readers : started[r] \in {today, None}
    /\ today' = today + 1
    /\ UNCHANGED <<snaps, updateVars, readVars, lookupVars, saved, kept>>

\* The date the fund site gives may lie days back: weekends, suspended funds.
Fetch(u) ==
    /\ fetched[u] = None
    /\ \E d \in 0..today : fetched' = [fetched EXCEPT ![u] = d]
    /\ UNCHANGED <<today, snaps, cutoff, readVars, lookupVars, saved, kept>>

\* An error of upsertFundDailySnapshot is only logged.
upsertFundDailySnapshot(u) ==
    /\ fetched[u] # None
    /\ fetched' = [fetched EXCEPT ![u] = None]
    /\ \/ Becomes(snaps \cup {fetched[u]}) /\ saved' = saved \cup {fetched[u]}
       \/ UNCHANGED <<snaps, saved, kept>>
    /\ UNCHANGED <<today, cutoff, readVars, lookupVars>>

Mut_CutoffDate(c) ==        \* a day less
    /\ cutoff[c] = None
    /\ cutoff' = [cutoff EXCEPT ![c] = today - (Retention - 1)]
    /\ UNCHANGED <<today, snaps, fetched, readVars, lookupVars, saved, kept>>

\* cleanupOldFundDailySnapshots, for all funds at once
CutoffDate(c) ==
    /\ cutoff[c] = None
    /\ cutoff' = [cutoff EXCEPT ![c] = today - Retention]
    /\ UNCHANGED <<today, snaps, fetched, readVars, lookupVars, saved, kept>>

\* The deletes of a DeleteMany that fails may have been applied.
DeleteMany(c) ==
    /\ cutoff[c] # None
    /\ cutoff' = [cutoff EXCEPT ![c] = None]
    /\ \/ Becomes({d \in snaps : d >= cutoff[c]})
       \/ UNCHANGED <<snaps, kept>>
    /\ UNCHANGED <<today, fetched, readVars, lookupVars, saved>>

-----------------------------------------------------------------------------
(* findFundHistory                                                         *)

AskRange(r, days) ==
    /\ started[r] = None
    /\ started' = [started EXCEPT ![r] = today]
    /\ from' = [from EXCEPT ![r] = today - (days - 1)]
    /\ points' = [points EXCEPT ![r] = None]
    /\ UNCHANGED <<today, snaps, updateVars, lookupVars, saved, kept>>

\* The answer, or an error.
FindRange(r) ==
    /\ started[r] # None
    /\ started' = [started EXCEPT ![r] = None]
    /\ points' \in {points, [points EXCEPT ![r] = {d \in snaps : d >= from[r]}]}
    /\ UNCHANGED <<today, snaps, from, updateVars, lookupVars, saved, kept>>

-----------------------------------------------------------------------------
(* findPurchaseSnapshot: two queries                                       *)

\* Any valid date is accepted, those to come as well.
AskPurchase(l, day) ==
    /\ lpc[l] = "new"
    /\ lpc' = [lpc EXCEPT ![l] = "before"]
    /\ purchase' = [purchase EXCEPT ![l] = day]
    /\ kept' = [kept EXCEPT ![l] = snaps]
    /\ UNCHANGED <<today, snaps, updateVars, readVars, snapshot, saved>>

Latest(d, days) == d \in days /\ \A e \in days : e <= d
Earliest(d, days) == d \in days /\ \A e \in days : d <= e

Answer(l, d) ==
    /\ lpc' = [lpc EXCEPT ![l] = "done"]
    /\ snapshot' = [snapshot EXCEPT ![l] = d]

Mut_FindBefore(l) ==        \* the sort direction forgotten
    LET days == {d \in snaps : d <= purchase[l]} IN
    /\ lpc[l] = "before"
    /\ \/ \E d \in days : Earliest(d, days) /\ Answer(l, d)
       \/ days = {} /\ lpc' = [lpc EXCEPT ![l] = "after"] /\ UNCHANGED snapshot
    /\ UNCHANGED <<today, snaps, updateVars, readVars, purchase, saved, kept>>

\* The last day up to the purchase; an error ends the request elsewhere.
FindBefore(l) ==
    LET days == {d \in snaps : d <= purchase[l]} IN
    /\ lpc[l] = "before"
    /\ \/ \E d \in days : Latest(d, days) /\ Answer(l, d)
       \/ days = {} /\ lpc' = [lpc EXCEPT ![l] = "after"] /\ UNCHANGED snapshot
    /\ UNCHANGED <<today, snaps, updateVars, readVars, purchase, saved, kept>>

\* Without one, the first day from it on.
FindAfter(l) ==
    LET days == {d \in snaps : d >= purchase[l]} IN
    /\ lpc[l] = "after"
    /\ \/ \E d \in days : Earliest(d, days) /\ Answer(l, d)
       \/ days = {} /\ Answer(l, None)
    /\ UNCHANGED <<today, snaps, updateVars, readVars, purchase, saved, kept>>

\* The request is over, with an answer or an error in either query.
EndLookup(l) ==
    /\ lpc[l] # "new"
    /\ lpc' = [lpc EXCEPT ![l] = "new"]
    /\ purchase' = [purchase EXCEPT ![l] = None]
    /\ snapshot' = [snapshot EXCEPT ![l] = None]
    /\ kept' = [kept EXCEPT ![l] = {}]
    /\ UNCHANGED <<today, snaps, updateVars, readVars, saved>>

-----------------------------------------------------------------------------
Next ==
    \/ Tick
    \/ \E u \in Updates : Fetch(u) \/ upsertFundDailySnapshot(u)
    \/ \E c \in Cleanups : CutoffDate(c) \/ DeleteMany(c)
    \/ \E r \in Readers : FindRange(r) \/ \E days \in Ranges : AskRange(r, days)
    \/ \E l \in Lookups :
          \/ FindBefore(l) \/ FindAfter(l) \/ EndLookup(l)
          \/ \E day \in Days : AskPurchase(l, day)

Spec == Init /\ [][Next]_vars

-----------------------------------------------------------------------------
(* Properties                                                              *)

\* The retention is as long as the longest range, and a cleanup keeps the day
\* its cutoff falls on: no range lacks a day that was ever saved, not even when
\* midnight passes between the reader's cutoff, the cleanup's and their calls.
RangeIsWhole ==
    [][\A r \in Readers : points'[r] # points[r] /\ points'[r] # None =>
          points'[r] = {d \in saved : d >= from[r]}]_vars

\* Two queries are not one, but a day that is there all through the lookup is
\* not passed over: one up to the purchase date is answered by itself or a later
\* one up to that date, one after it by itself or an earlier one.
LookupMissesNothing ==
    \A l \in Lookups : lpc[l] = "done" =>
        \A d \in kept[l] :
            /\ snapshot[l] # None
            /\ IF d <= purchase[l] THEN snapshot[l] \in d..purchase[l]
                                   ELSE snapshot[l] <= d
=============================================================================
