---------------------------- MODULE ReadCaches ----------------------------
(***************************************************************************)
(* The three cache-aside read caches in Redis: fund:detail:<code>,         *)
(* fund:search:<query> and user:<id>:watchlist, for one fund, one query    *)
(* that finds it and one user.  A request that finds its key answers with  *)
(* it and changes nothing; one that does not reads MongoDB and sets the    *)
(* key.  Writers delete the key after the write - or do not.               *)
(*                                                                         *)
(* The documents are abstracted to versions: each write makes the next.    *)
(***************************************************************************)
EXTENDS Integers

CONSTANTS
    Readers,     \* requests of the three GET routes
    Writers,     \* update runs, imports, watchlist requests
    DetailTTL, SearchTTL, WatchlistTTL,     \* 60 s, 5 min, 1 min, in ticks
    FillLimit,   \* longest time from the read of MongoDB to the SET
    MaxVersion,  \* bound on the writes
    None,        \* the key does not exist
    Faults       \* TRUE: a call of Redis may fail

Keys == {"detail", "search", "watchlist"}
Sources == {"fund", "watchlist"}        \* fund_data, watchlists
Versions == 0..MaxVersion

Source(k) == IF k = "watchlist" THEN "watchlist" ELSE "fund"

TTL(k) ==
    CASE k = "detail" -> DetailTTL
      [] k = "search" -> SearchTTL
      [] OTHER -> WatchlistTTL

ASSUME CacheConstants ==
    /\ DetailTTL \in Nat \ {0} /\ SearchTTL \in Nat \ {0} /\ WatchlistTTL \in Nat \ {0}
    /\ FillLimit \in Nat /\ MaxVersion \in Nat
    /\ None \notin Nat
    /\ Faults \in BOOLEAN

VARIABLES
    db,         \* the current version of each source
    retired,    \* ticks since a version was superseded
    entry,      \* Redis: the version a key holds
    left,       \* ticks before Redis expires the key
    rpc,        \* control of a reader: "idle", "read" after a miss, "fill"
    rkey,       \* the key it asked for
    rval,       \* what it read from MongoDB
    rage,       \* ticks since it read it
    wpc,        \* control of a writer: "idle", or "delete" after its write
    wsrc,       \* what it wrote
    expired,    \* its context is over
    excused     \* history: keys whose old entry a missed delete or a race explains

readers == <<rpc, rkey, rval, rage>>
writers == <<wpc, wsrc, expired>>
vars == <<db, retired, entry, left, readers, writers, excused>>

TypeOK ==
    /\ db \in [Sources -> Versions]
    /\ retired \in [Sources -> [Versions -> Nat]]
    /\ entry \in [Keys -> Versions \cup {None}]
    /\ left \in [Keys -> Nat]
    /\ rpc \in [Readers -> {"idle", "read", "fill"}]
    /\ rkey \in [Readers -> Keys]
    /\ rval \in [Readers -> Versions]
    /\ rage \in [Readers -> Nat]
    /\ wpc \in [Writers -> {"idle", "delete"}]
    /\ wsrc \in [Writers -> Sources]
    /\ expired \in [Writers -> BOOLEAN]
    /\ excused \subseteq Keys

Init ==
    /\ db = [s \in Sources |-> 0]
    /\ retired = [s \in Sources |-> [v \in Versions |-> 0]]
    /\ entry = [k \in Keys |-> None]
    /\ left = [k \in Keys |-> 0]
    /\ rpc = [r \in Readers |-> "idle"]
    /\ rkey = [r \in Readers |-> "detail"]
    /\ rval = [r \in Readers |-> 0]
    /\ rage = [r \in Readers |-> 0]
    /\ wpc = [w \in Writers |-> "idle"]
    /\ wsrc = [w \in Writers |-> "fund"]
    /\ expired = [w \in Writers |-> FALSE]
    /\ excused = {}

\* A hit of k would answer with a version that has been superseded.
Stale(k) == entry[k] # None /\ entry[k] # db[Source(k)]

Excuse(k) == excused' = IF Stale(k) THEN excused \cup {k} ELSE excused

-----------------------------------------------------------------------------
(* Redis                                                                   *)

Set(k, v) ==
    /\ entry' = [entry EXCEPT ![k] = v]
    /\ left' = [left EXCEPT ![k] = TTL(k)]

Del(k) ==
    /\ entry' = [entry EXCEPT ![k] = None]
    /\ left' = [left EXCEPT ![k] = 0]

\* Cap keeps the ages finite: nothing is asked of a version retired for longer.
MaxTTL == CHOOSE t \in {TTL(k) : k \in Keys} : \A k \in Keys : TTL(k) <= t
Cap == MaxTTL + FillLimit + 1

Older(s, v) ==
    IF v < db[s] /\ retired[s][v] < Cap THEN retired[s][v] + 1 ELSE retired[s][v]

\* Time passes while no reader has overrun FillLimit: MongoDB's answer is
\* bounded by 10 or 30 seconds, the SET by the timeouts of the Redis client.
Tick ==
    /\ \A r \in Readers : rpc[r] = "fill" => rage[r] < FillLimit
    /\ retired' = [s \in Sources |-> [v \in Versions |-> Older(s, v)]]
    /\ entry' = [k \in Keys |-> IF left[k] <= 1 THEN None ELSE entry[k]]
    /\ left' = [k \in Keys |-> IF left[k] <= 1 THEN 0 ELSE left[k] - 1]
    /\ excused' = {k \in excused : left[k] > 1}
    /\ rage' = [r \in Readers |-> IF rpc[r] = "fill" THEN rage[r] + 1 ELSE 0]
    /\ UNCHANGED <<db, rpc, rkey, rval, writers>>

-----------------------------------------------------------------------------
(* The GET handlers: fundDetailGinHandler, searchGinHandler,               *)
(* getWatchlistService                                                     *)

\* The key is not there, or Redis does not answer.
Miss(r, k) ==
    /\ rpc[r] = "idle"
    /\ entry[k] = None \/ Faults
    /\ rpc' = [rpc EXCEPT ![r] = "read"]
    /\ rkey' = [rkey EXCEPT ![r] = k]
    /\ UNCHANGED <<db, retired, entry, left, rval, rage, writers, excused>>

ReadMongo(r) ==
    /\ rpc[r] = "read"
    /\ rpc' = [rpc EXCEPT ![r] = "fill"]
    /\ rval' = [rval EXCEPT ![r] = db[Source(rkey[r])]]
    /\ rage' = [rage EXCEPT ![r] = 0]
    /\ UNCHANGED <<db, retired, entry, left, rkey, writers, excused>>

\* What a reader has read may be old when it sets it.
FillExcuse(r) ==
    excused' = IF rval[r] = db[Source(rkey[r])] THEN excused \ {rkey[r]}
               ELSE excused \cup {rkey[r]}

Mut_Fill(r) ==              \* each SET extends the TTL of the key
    /\ rpc[r] = "fill"
    /\ entry' = [entry EXCEPT ![rkey[r]] = rval[r]]
    /\ left' = [left EXCEPT ![rkey[r]] = left[rkey[r]] + TTL(rkey[r])]
    /\ FillExcuse(r)
    /\ rpc' = [rpc EXCEPT ![r] = "idle"]
    /\ rage' = [rage EXCEPT ![r] = 0]
    /\ UNCHANGED <<db, retired, rkey, rval, writers>>

\* A failed SET is only logged.
Fill(r) ==
    /\ rpc[r] = "fill"
    /\ \/ Set(rkey[r], rval[r]) /\ FillExcuse(r)
       \/ Faults /\ UNCHANGED <<entry, left, excused>>
    /\ rpc' = [rpc EXCEPT ![r] = "idle"]
    /\ rage' = [rage EXCEPT ![r] = 0]
    /\ UNCHANGED <<db, retired, rkey, rval, writers>>

\* MongoDB fails or does not find the fund: no SET.
ReadFails(r) ==
    /\ rpc[r] = "read"
    /\ rpc' = [rpc EXCEPT ![r] = "idle"]
    /\ UNCHANGED <<db, retired, entry, left, rkey, rval, rage, writers, excused>>

-----------------------------------------------------------------------------
(* The writers                                                             *)

Advance(s) ==
    /\ db[s] < MaxVersion
    /\ db' = [db EXCEPT ![s] = db[s] + 1]

\* executeFundUpdate upserts the fund; addWatchlistService and its siblings
\* write the item.  The delete of the key is a second call.
Write(w, s) ==
    /\ wpc[w] = "idle"
    /\ Advance(s)
    /\ wpc' = [wpc EXCEPT ![w] = "delete"]
    /\ wsrc' = [wsrc EXCEPT ![w] = s]
    /\ UNCHANGED <<retired, entry, left, readers, expired, excused>>

\* importFundByCode, the enrich and the performance handler, and the upsert of
\* a run that has given up, delete nothing.
WriteOnly ==
    /\ Advance("fund")
    /\ excused' = IF entry["detail"] # None THEN excused \cup {"detail"} ELSE excused
    /\ UNCHANGED <<retired, entry, left, readers, writers>>

\* The 30 seconds or 2 minutes of a run, or a client that hangs up.
ContextDone(w) ==
    /\ wpc[w] = "delete" /\ ~expired[w]
    /\ expired' = [expired EXCEPT ![w] = TRUE]
    /\ UNCHANGED <<db, retired, entry, left, readers, wpc, wsrc, excused>>

\* The key that invalidateFundDetailCache or invalidateWatchlistCache deletes;
\* no search key is ever deleted.
Drops(s) == IF s = "fund" THEN "detail" ELSE "watchlist"

Mut_Invalidate(w) ==        \* the update runs delete nothing
    /\ wpc[w] = "delete"
    /\ IF wsrc[w] = "watchlist" THEN Del("watchlist") /\ excused' = excused \ {"watchlist"}
       ELSE UNCHANGED <<entry, left, excused>>
    /\ wpc' = [wpc EXCEPT ![w] = "idle"]
    /\ expired' = [expired EXCEPT ![w] = FALSE]
    /\ UNCHANGED <<db, retired, readers, wsrc>>

\* DEL runs under the request's own context, and its failure is only logged.
Invalidate(w) ==
    /\ wpc[w] = "delete"
    /\ \/ ~expired[w] /\ Del(Drops(wsrc[w])) /\ excused' = excused \ {Drops(wsrc[w])}
       \/ (expired[w] \/ Faults) /\ Excuse(Drops(wsrc[w])) /\ UNCHANGED <<entry, left>>
    /\ wpc' = [wpc EXCEPT ![w] = "idle"]
    /\ expired' = [expired EXCEPT ![w] = FALSE]
    /\ UNCHANGED <<db, retired, readers, wsrc>>

\* updateWatchlistItem: the item is gone when it is read back, and the handler
\* fails before the delete.
ReadBackFails(w) ==
    /\ wpc[w] = "delete" /\ wsrc[w] = "watchlist"
    /\ Excuse("watchlist")
    /\ wpc' = [wpc EXCEPT ![w] = "idle"]
    /\ expired' = [expired EXCEPT ![w] = FALSE]
    /\ UNCHANGED <<db, retired, entry, left, readers, wsrc>>

Next ==
    \/ Tick \/ WriteOnly
    \/ \E r \in Readers :
          ReadMongo(r) \/ Fill(r) \/ ReadFails(r) \/ \E k \in Keys : Miss(r, k)
    \/ \E w \in Writers :
          ContextDone(w) \/ Invalidate(w) \/ ReadBackFails(w) \/ \E s \in Sources : Write(w, s)

Spec == Init /\ [][Next]_vars

-----------------------------------------------------------------------------
(* Properties                                                              *)

\* What a hit serves was current at most the key's TTL and one slow fill ago,
\* although fills race with writes and deletes fail or are never made.
StalenessBounded ==
    \A k \in Keys : entry[k] # None => retired[Source(k)][entry[k]] <= TTL(k) + FillLimit

\* A detail or a watchlist older than MongoDB's stands in its cache only while
\* the writer that superseded it has its delete before it, or because a delete
\* failed, was skipped or never meant, or because a fill had read before a write.
StaleIsExplained ==
    \A k \in {"detail", "watchlist"} : Stale(k) =>
        k \in excused \/ \E w \in Writers : wpc[w] = "delete" /\ Drops(wsrc[w]) = k
=============================================================================
