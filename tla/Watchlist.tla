----------------------------- MODULE Watchlist ------------------------------
(***************************************************************************)
(* The watchlist of one user: the requests of backend-go/watchlist*.go on  *)
(* its documents and on its cached list, and the two pages that show it.   *)
(* about.js loads the list again after each change; profile.js edits the   *)
(* list its handler's closure captured.  One page is open at a time, and   *)
(* other tabs and clients may send the same requests.                      *)
(*                                                                         *)
(* Every step of a request is one call of MongoDB or Redis.  A call of     *)
(* MongoDB that returns an error ends the request; a write with an error   *)
(* may have been applied.                                                  *)
(***************************************************************************)
EXTENDS Integers

CONSTANTS
    Funds,
    Ops,        \* requests; each is sent once
    NoOp        \* who inserted and changed the items that were there before

ASSUME WatchlistConstants == Funds # {} /\ NoOp \notin Ops

\* An item by its document's _id and the last change of its threshold or
\* purchase date; inserted by id, changed by val.
Item == [fund : Funds, id : Ops \cup {NoOp}, val : Ops \cup {NoOp}]

VARIABLES
    indexed,    \* the unique index on user and fund of the archived backend exists
    docs,       \* MongoDB: the user's items
    cache,      \* Redis: empty, or the one list cached for a minute
    page,       \* the page that is open
    list,       \* its watchlist state
    pc,         \* control of a request and of the handler that waits for it
    kind, fund, \* what it asks for
    from,       \* the page that sent it, or another client
    live,       \* the requests whose page is still open
    seen,       \* the watchlist its handler captured
    res,        \* the items it has read
    raced,      \* history: pairs of inserts that had both found nothing
    events      \* history: what happened that may leave a list stale

reqVars == <<kind, fund, from, live, seen>>
vars == <<indexed, docs, cache, page, list, pc, reqVars, res, raced, events>>

Kinds == {"list", "add", "delete", "edit"}

TypeOK ==
    /\ indexed \in BOOLEAN
    /\ docs \subseteq Item
    /\ cache \in SUBSET SUBSET Item
    /\ page \in {"none", "about", "profile"}
    /\ list \subseteq Item
    /\ pc \in [Ops -> {"new", "find", "insert", "write", "readback", "invalidate",
                       "get", "read", "fill", "answer", "done"}]
    /\ kind \in [Ops -> Kinds]
    /\ fund \in [Ops -> Funds]
    /\ from \in [Ops -> {"about", "profile", "outside"}]
    /\ live \subseteq Ops
    /\ seen \in [Ops -> SUBSET Item]
    /\ res \in [Ops -> SUBSET Item]
    /\ raced \subseteq Ops \X Ops
    /\ events \subseteq {"overlap", "outside", "mixed", "failure"}

Init ==
    /\ indexed \in BOOLEAN
    /\ \E watched \in SUBSET Funds :
          docs = [fund : watched, id : {NoOp}, val : {NoOp}]
    /\ cache = {}
    /\ page = "none" /\ list = {}
    /\ pc = [o \in Ops |-> "new"]
    /\ kind = [o \in Ops |-> "list"]
    /\ fund = [o \in Ops |-> CHOOSE f \in Funds : TRUE]
    /\ from = [o \in Ops |-> "outside"]
    /\ live = {}
    /\ seen = [o \in Ops |-> {}] /\ res = [o \in Ops |-> {}]
    /\ raced = {} /\ events = {}

Of(f) == {d \in docs : d.fund = f}
Shown(f) == \E i \in list : i.fund = f
Running(o) == pc[o] \notin {"new", "done"}

\* It runs, and is not just another client that loads the list.
Counts(o) == Running(o) /\ (from[o] # "outside" \/ kind[o] # "list")

goto(o, from_, to) == pc[o] = from_ /\ pc' = [pc EXCEPT ![o] = to]

Notes(what) == events' = events \cup what

-----------------------------------------------------------------------------
(* The pages and the other clients                                         *)

Mut_Begin(o, k, f, who) ==   \* a callback that keeps the first render's list
    /\ goto(o, "new", CASE k = "list" -> "get" [] k = "add" -> "find" [] OTHER -> "write")
    /\ kind' = [kind EXCEPT ![o] = k]
    /\ fund' = [fund EXCEPT ![o] = f]
    /\ from' = [from EXCEPT ![o] = who]
    /\ seen' = [seen EXCEPT ![o] = {}]
    /\ Notes({e \in {"overlap"} : (who # "outside" \/ k # "list") /\ \E p \in Ops : Counts(p)}
             \cup {e \in {"outside"} : who = "outside" /\ k # "list"})
    /\ UNCHANGED <<indexed, docs, cache, res, raced>>

Begin(o, k, f, who) ==
    /\ goto(o, "new", CASE k = "list" -> "get" [] k = "add" -> "find" [] OTHER -> "write")
    /\ kind' = [kind EXCEPT ![o] = k]
    /\ fund' = [fund EXCEPT ![o] = f]
    /\ from' = [from EXCEPT ![o] = who]
    /\ seen' = [seen EXCEPT ![o] = list]
    /\ Notes({e \in {"overlap"} : (who # "outside" \/ k # "list") /\ \E p \in Ops : Counts(p)}
             \cup {e \in {"outside"} : who = "outside" /\ k # "list"})
    /\ UNCHANGED <<indexed, docs, cache, res, raced>>

\* A page is opened, instead of the one before, and loads the list.
Open(o, p) ==
    /\ Begin(o, "list", fund[o], p)
    /\ page' = p /\ list' = {}
    /\ live' = {o}

\* handleWatch and handleUnwatch of about.js; the fund's button is disabled
\* while its own request runs.
AboutClick(o, k, f) ==
    /\ page = "about"
    /\ k = IF Shown(f) THEN "delete" ELSE "add"
    /\ \A p \in live : Running(p) /\ kind[p] # "list" => fund[p] # f
    /\ Begin(o, k, f, "about")
    /\ live' = live \cup {o}
    /\ UNCHANGED <<page, list>>

\* handleUnwatch, handleUpdateThreshold and handleUpdatePurchaseDate of
\* profile.js, on an item it shows.
ProfileClick(o, k, f) ==
    /\ page = "profile" /\ Shown(f) /\ k \in {"delete", "edit"}
    /\ Begin(o, k, f, "profile")
    /\ live' = live \cup {o}
    /\ UNCHANGED <<page, list>>

Outside(o, k, f) ==
    /\ k = "list" => f = fund[o]
    /\ Begin(o, k, f, "outside")
    /\ UNCHANGED <<page, list, live>>

\* The answer arrives: setWatchlist, unless the page is gone.
Answer(o) ==
    /\ goto(o, "answer", "done")
    /\ list' =
          IF o \notin live THEN list
          ELSE IF kind[o] = "list" \/ from[o] = "about" THEN res[o]
          ELSE {i \in seen[o] : i.fund # fund[o]}
                \cup (IF kind[o] = "edit" /\ \E i \in seen[o] : i.fund = fund[o]
                      THEN res[o] ELSE {})
    /\ UNCHANGED <<indexed, docs, cache, page, reqVars, res, raced, events>>

-----------------------------------------------------------------------------
(* Add, delete and edit                                                    *)

AboutToInsert(f) == {o \in Ops : pc[o] = "insert" /\ fund[o] = f}

\* A list that was read before a write and is cached after it.
Mixes == {e \in {"mixed"} : \E p \in Ops : pc[p] = "fill"}

\* A call fails; the request ends with an error the page reports.
Fails(o) ==
    /\ \E at \in {"find", "insert", "write", "readback", "read"} : goto(o, at, "done")
    /\ Notes({"failure"})
    /\ UNCHANGED <<indexed, docs, cache, page, list, reqVars, res, raced>>

\* The fund's lookup, whose refusal ends the request, and the item's.
Mut_FindItem(o) ==          \* every error means that there is none
    /\ \/ Of(fund[o]) # {} /\ goto(o, "find", "done") /\ UNCHANGED raced
       \/ /\ goto(o, "find", "insert")
          /\ raced' = raced \cup {<<o, p>> : p \in AboutToInsert(fund[o])}
       \/ goto(o, "find", "done") /\ UNCHANGED raced
    /\ UNCHANGED <<indexed, docs, cache, page, list, reqVars, res, events>>

FindItem(o) ==
    /\ \/ Of(fund[o]) # {} /\ goto(o, "find", "done") /\ UNCHANGED raced
       \/ /\ Of(fund[o]) = {}
          /\ goto(o, "find", "insert")
          /\ raced' = raced \cup {<<o, p>> : p \in AboutToInsert(fund[o])}
       \/ goto(o, "find", "done") /\ UNCHANGED raced
    /\ UNCHANGED <<indexed, docs, cache, page, list, reqVars, res, events>>

\* InsertOne: a duplicate key is answered like an item that was found.
InsertItem(o) ==
    LET item == [fund |-> fund[o], id |-> o, val |-> o] IN
    /\ IF indexed /\ Of(fund[o]) # {}
       THEN goto(o, "insert", "done") /\ UNCHANGED <<docs, events>>
       ELSE /\ docs' = docs \cup {item}
            /\ \/ goto(o, "insert", "invalidate") /\ Notes(Mixes)
               \/ goto(o, "insert", "done") /\ Notes(Mixes \cup {"failure"})
    /\ UNCHANGED <<indexed, cache, page, list, reqVars, res, raced>>

\* DeleteOne; 404 when there is nothing to delete.
DeleteItem(o) ==
    /\ kind[o] = "delete"
    /\ IF Of(fund[o]) = {}
       THEN goto(o, "write", "done") /\ UNCHANGED <<docs, events>>
       ELSE /\ \E d \in Of(fund[o]) : docs' = docs \ {d}
            /\ \/ goto(o, "write", "invalidate") /\ Notes(Mixes)
               \/ goto(o, "write", "done") /\ Notes(Mixes \cup {"failure"})
    /\ UNCHANGED <<indexed, cache, page, list, reqVars, res, raced>>

\* UpdateOne; 404 when nothing matched, 400 when the purchase day has no value.
UpdateItem(o) ==
    /\ kind[o] = "edit"
    /\ \/ goto(o, "write", "done") /\ UNCHANGED <<docs, events>>
       \/ /\ \E d \in Of(fund[o]) : docs' = (docs \ {d}) \cup {[d EXCEPT !.val = o]}
          /\ \/ goto(o, "write", "readback") /\ Notes(Mixes)
             \/ goto(o, "write", "done") /\ Notes(Mixes \cup {"failure"})
    /\ UNCHANGED <<indexed, cache, page, list, reqVars, res, raced>>

Mut_ReadBack(o) ==          \* the cached list is left alone
    /\ \E d \in Of(fund[o]) : res' = [res EXCEPT ![o] = {d}] /\ goto(o, "readback", "answer")
    /\ UNCHANGED <<indexed, docs, cache, page, list, reqVars, raced, events>>

\* FindOne for the answer; an item that is gone is an error.
ReadBack(o) ==
    /\ \/ \E d \in Of(fund[o]) : res' = [res EXCEPT ![o] = {d}] /\ goto(o, "readback", "invalidate")
       \/ Of(fund[o]) = {} /\ goto(o, "readback", "done") /\ UNCHANGED res
    /\ UNCHANGED <<indexed, docs, cache, page, list, reqVars, raced, events>>

\* invalidateWatchlistCache, whose failure is only logged, and the answer.
Invalidate(o) ==
    /\ goto(o, "invalidate", IF from[o] = "about" THEN "get" ELSE "answer")
    /\ \/ cache' = {} /\ UNCHANGED events
       \/ UNCHANGED cache /\ Notes({"failure"})
    /\ UNCHANGED <<indexed, docs, page, list, reqVars, res, raced>>

-----------------------------------------------------------------------------
(* getWatchlistService                                                     *)

GetCached(o) ==
    /\ \/ \E l \in cache : res' = [res EXCEPT ![o] = l] /\ goto(o, "get", "answer")
          /\ UNCHANGED events
       \/ cache = {} /\ goto(o, "get", "read") /\ UNCHANGED <<res, events>>
       \/ goto(o, "get", "read") /\ Notes({"failure"}) /\ UNCHANGED res
    /\ UNCHANGED <<indexed, docs, cache, page, list, reqVars, raced>>

ReadList(o) ==
    /\ goto(o, "read", "fill")
    /\ res' = [res EXCEPT ![o] = docs]
    /\ UNCHANGED <<indexed, docs, cache, page, list, reqVars, raced, events>>

FillCache(o) ==
    /\ goto(o, "fill", "answer")
    /\ \/ cache' = {res[o]} /\ UNCHANGED events
       \/ UNCHANGED cache /\ Notes({"failure"})
    /\ UNCHANGED <<indexed, docs, page, list, reqVars, res, raced>>

\* The minute is over.
CacheExpires ==
    /\ cache # {}
    /\ cache' = {}
    /\ UNCHANGED <<indexed, docs, page, list, pc, reqVars, res, raced, events>>

Handle(o) ==
    \/ FindItem(o) \/ InsertItem(o) \/ DeleteItem(o) \/ UpdateItem(o) \/ ReadBack(o)
    \/ Invalidate(o) \/ GetCached(o) \/ ReadList(o) \/ FillCache(o) \/ Fails(o)

Next ==
    \/ CacheExpires
    \/ \E o \in Ops :
          \/ \E p \in {"about", "profile"} : Open(o, p)
          \/ \E k \in Kinds, f \in Funds :
                AboutClick(o, k, f) \/ ProfileClick(o, k, f) \/ Outside(o, k, f)
          \/ Handle(o) \/ Answer(o)

Spec == Init /\ [][Next]_vars

-----------------------------------------------------------------------------
(* Properties                                                              *)

\* Find-then-insert: the user has two items of a fund only where the index is
\* missing, from two inserts that had both found none.
DuplicatesExplained ==
    \A d, e \in docs : d.fund = e.fund /\ d # e =>
        ~indexed /\ (<<d.id, e.id>> \in raced \/ <<e.id, d.id>> \in raced)

\* The cached list is the one in MongoDB, unless a request is between its write
\* and its invalidation, a list was read before a write and cached after it, or
\* a call failed.  That writes overlap one another does no harm.
CacheIsTrue ==
    \/ cache \subseteq {docs}
    \/ \E o \in Ops : pc[o] \in {"readback", "invalidate"}
    \/ events \cap {"mixed", "failure"} # {}

\* When nothing runs the open page shows what MongoDB holds, unless requests
\* have overlapped, another client has written or a call has failed.  Where two
\* clicks overlap, profile.js can bring a removed item back, and the later of
\* the two lists about.js loads may be the older one.
PageIsTrue ==
    page # "none" /\ events = {} /\ (\A o \in Ops : ~Running(o)) => list = docs
=============================================================================
