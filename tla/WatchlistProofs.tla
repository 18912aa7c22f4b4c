-------------------------- MODULE WatchlistProofs ---------------------------
(***************************************************************************)
(* For any funds and requests: where duplicates come from, when the cached *)
(* list is true, and when the open page is.                                *)
(***************************************************************************)
EXTENDS Watchlist, TLAPS

Raced(a, b) == <<a, b>> \in raced \/ <<b, a>> \in raced

\* What an insert that is still to come would meet has raced with it.
DupInv ==
    /\ \A d, e \in docs : d.fund = e.fund /\ d # e => ~indexed /\ Raced(d.id, e.id)
    /\ \A o \in Ops, d \in docs : pc[o] = "insert" /\ d.fund = fund[o] => Raced(o, d.id)
    /\ \A o, p \in Ops :
          pc[o] = "insert" /\ pc[p] = "insert" /\ fund[o] = fund[p] /\ o # p => Raced(o, p)

\* A stale cache has a request that will clear it, and nothing can stop it.
WillClear(o) ==
    \/ pc[o] = "invalidate"
    \/ pc[o] = "readback" /\ Of(fund[o]) # {}

CacheInv ==
    events \cap {"mixed", "failure"} = {} =>
       /\ \A o \in Ops : pc[o] = "fill" => res[o] = docs
       /\ cache \subseteq {docs} \/ \E o \in Ops : WillClear(o)

ListInv == TypeOK /\ DupInv /\ CacheInv

-----------------------------------------------------------------------------
LEMMA InitListInv == Init => ListInv
<1> SUFFICES ASSUME Init PROVE ListInv
    OBVIOUS
<1> USE WatchlistConstants DEF Init
<1>1. TypeOK
    <2>1. (CHOOSE f \in Funds : TRUE) \in Funds
        OBVIOUS
    <2> QED BY <2>1 DEF TypeOK, Item, Kinds
<1>2. \A d, e \in docs : d.fund = e.fund => d = e
    OBVIOUS
<1> QED BY <1>1, <1>2 DEF ListInv, DupInv, CacheInv

\* A request that begins, whoever sends it.
LEMMA BeginTypes ==
    ASSUME TypeOK, NEW o \in Ops, NEW k \in Kinds, NEW f \in Funds,
           NEW who \in {"about", "profile", "outside"}, Begin(o, k, f, who)
    PROVE  /\ pc' \in [Ops -> {"new", "find", "insert", "write", "readback", "invalidate",
                       "get", "read", "fill", "answer", "done"}]
           /\ kind' \in [Ops -> Kinds] /\ fund' \in [Ops -> Funds]
           /\ from' \in [Ops -> {"about", "profile", "outside"}]
           /\ seen' \in [Ops -> SUBSET Item]
           /\ events' \subseteq {"overlap", "outside", "mixed", "failure"}
<1> USE DEF TypeOK, Begin, goto
<1>1. pc' \in [Ops -> {"new", "find", "insert", "write", "readback", "invalidate",
                       "get", "read", "fill", "answer", "done"}]
    OBVIOUS
<1>2. events' \subseteq {"overlap", "outside", "mixed", "failure"}
    BY DEF Notes
<1> QED BY <1>1, <1>2

\* The steps by which a request begins, as one.
Begins(o, k, f, who) ==
    /\ Begin(o, k, f, who)
    /\ page' \in {page, who} \ {"outside"}
    /\ list' \in {list, {}}
    /\ live' \in {live, {o}, live \cup {o}}

LEMMA WhoBegins ==
    ASSUME TypeOK, NEW o \in Ops,
           \/ \E p \in {"about", "profile"} : Open(o, p)
           \/ \E k \in Kinds, f \in Funds :
                 AboutClick(o, k, f) \/ ProfileClick(o, k, f) \/ Outside(o, k, f)
    PROVE  \E k \in Kinds, f \in Funds, who \in {"about", "profile", "outside"} :
              Begins(o, k, f, who)
<1>1. CASE \E p \in {"about", "profile"} : Open(o, p)
    BY <1>1 DEF Open, Begins, TypeOK, Kinds
<1>2. CASE \E k \in Kinds, f \in Funds :
              AboutClick(o, k, f) \/ ProfileClick(o, k, f) \/ Outside(o, k, f)
    BY <1>2 DEF AboutClick, ProfileClick, Outside, Begins, TypeOK
<1> QED BY <1>1, <1>2

LEMMA TypeStep == TypeOK /\ [Next]_vars => TypeOK'
<1> SUFFICES ASSUME TypeOK, [Next]_vars PROVE TypeOK'
    OBVIOUS
<1>1. CASE UNCHANGED vars
    BY <1>1 DEF TypeOK, vars, reqVars
<1>2. CASE CacheExpires
    BY <1>2 DEF TypeOK, CacheExpires, reqVars
<1>3. ASSUME NEW o \in Ops, NEW k \in Kinds, NEW f \in Funds,
             NEW who \in {"about", "profile", "outside"}, Begins(o, k, f, who)
      PROVE  TypeOK'
    <2>1. Begin(o, k, f, who)
        BY <1>3 DEF Begins
    <2>2. page' \in {"none", "about", "profile"} /\ list' \subseteq Item /\ live' \subseteq Ops
        BY <1>3 DEF Begins, TypeOK
    <2>3. UNCHANGED <<indexed, docs, cache, res, raced>>
        BY <2>1 DEF Begin
    <2> QED BY <2>1, <2>2, <2>3, BeginTypes DEF TypeOK
<1>4. ASSUME NEW o \in Ops, Answer(o)
      PROVE  TypeOK'
    BY <1>4 DEF Answer, TypeOK, goto, reqVars
<1>5. ASSUME NEW o \in Ops, Handle(o)
      PROVE  TypeOK'
    <2> USE DEF TypeOK, goto, reqVars, Notes
    <2>1. CASE FindItem(o)
        BY <2>1 DEF FindItem, AboutToInsert
    <2>2. CASE InsertItem(o)
        <3>1. docs' \subseteq Item
            BY <2>2 DEF InsertItem, Item
        <3>2. events' \subseteq {"overlap", "outside", "mixed", "failure"}
            BY <2>2 DEF InsertItem, Mixes
        <3>3. pc' \in [Ops -> {"new", "find", "insert", "write", "readback", "invalidate",
                              "get", "read", "fill", "answer", "done"}]
            BY <2>2 DEF InsertItem
        <3> QED BY <2>2, <3>1, <3>2, <3>3 DEF InsertItem
    <2>3. CASE DeleteItem(o)
        BY <2>3 DEF DeleteItem, Mixes
    <2>4. CASE UpdateItem(o)
        BY <2>4 DEF UpdateItem, Of, Item, Mixes
    <2>5. CASE ReadBack(o)
        BY <2>5 DEF ReadBack, Of
    <2>6. CASE Invalidate(o)
        BY <2>6 DEF Invalidate
    <2>7. CASE GetCached(o)
        <3>1. res' \in [Ops -> SUBSET Item]
            BY <2>7 DEF GetCached
        <3>2. pc' \in [Ops -> {"new", "find", "insert", "write", "readback", "invalidate",
                              "get", "read", "fill", "answer", "done"}]
            BY <2>7 DEF GetCached
        <3> QED BY <2>7, <3>1, <3>2 DEF GetCached
    <2>8. CASE ReadList(o)
        BY <2>8 DEF ReadList
    <2>9. CASE FillCache(o)
        <3>1. cache' \in SUBSET SUBSET Item
            BY <2>9 DEF FillCache
        <3>2. pc' \in [Ops -> {"new", "find", "insert", "write", "readback", "invalidate",
                              "get", "read", "fill", "answer", "done"}]
            BY <2>9 DEF FillCache
        <3> QED BY <2>9, <3>1, <3>2 DEF FillCache
    <2>10. CASE Fails(o)
        BY <2>10 DEF Fails
    <2> QED BY <1>5, <2>1, <2>2, <2>3, <2>4, <2>5, <2>6, <2>7, <2>8, <2>9, <2>10 DEF Handle
<1> QED BY <1>1, <1>2, <1>3, <1>4, <1>5, WhoBegins DEF Next

-----------------------------------------------------------------------------
LEMMA DupStep == TypeOK /\ DupInv /\ [Next]_vars => DupInv'
<1> SUFFICES ASSUME TypeOK, DupInv, [Next]_vars PROVE DupInv'
    OBVIOUS
<1>1. CASE /\ UNCHANGED <<docs, raced, indexed, fund>>
           /\ \A p \in Ops : pc'[p] = "insert" => pc[p] = "insert"
    BY <1>1 DEF DupInv, Raced
<1>2. CASE UNCHANGED vars \/ CacheExpires
    BY <1>1, <1>2 DEF vars, CacheExpires, reqVars
<1>3. ASSUME NEW o \in Ops, NEW k \in Kinds, NEW f \in Funds,
             NEW who \in {"about", "profile", "outside"}, Begins(o, k, f, who)
      PROVE  DupInv'
    <2>1. \A p \in Ops : pc'[p] = "insert" => pc[p] = "insert" /\ fund'[p] = fund[p]
        BY <1>3 DEF Begins, Begin, goto, TypeOK
    <2>2. UNCHANGED <<docs, raced, indexed>>
        BY <1>3 DEF Begins, Begin
    <2> QED BY <2>1, <2>2 DEF DupInv, Raced
<1>4. ASSUME NEW o \in Ops, Answer(o)
      PROVE  DupInv'
    BY <1>1, <1>4 DEF Answer, TypeOK, goto, reqVars
<1>5. ASSUME NEW o \in Ops, Handle(o)
      PROVE  DupInv'
    <2>1. CASE FindItem(o)
        <3>1. CASE pc'[o] = "insert"
            BY <2>1, <3>1 DEF FindItem, AboutToInsert, Of, DupInv, Raced, goto, TypeOK, reqVars
        <3>2. CASE pc'[o] # "insert"
            BY <1>1, <2>1, <3>2 DEF FindItem, goto, TypeOK, reqVars
        <3> QED BY <3>1, <3>2
    <2>2. CASE InsertItem(o)
        <3>1. CASE indexed /\ Of(fund[o]) # {}
            BY <1>1, <2>2, <3>1 DEF InsertItem, goto, TypeOK, reqVars
        <3>2. CASE ~(indexed /\ Of(fund[o]) # {})
            <4> DEFINE item == [fund |-> fund[o], id |-> o, val |-> o]
            <4>1. /\ docs' = docs \cup {item} /\ UNCHANGED <<raced, indexed, fund>>
                  /\ pc[o] = "insert" /\ pc'[o] # "insert"
                  /\ \A p \in Ops \ {o} : pc'[p] = pc[p]
                BY <2>2, <3>2 DEF InsertItem, goto, TypeOK, reqVars
            <4>2. \A d \in docs : d.fund = item.fund => ~indexed /\ Raced(item.id, d.id)
                BY <3>2, <4>1 DEF DupInv, Of
            <4>3. \A p \in Ops : pc'[p] = "insert" /\ item.fund = fund[p] => Raced(p, item.id)
                BY <4>1 DEF DupInv
            <4> QED BY <4>1, <4>2, <4>3 DEF DupInv, Raced
        <3> QED BY <3>1, <3>2
    <2>3. CASE DeleteItem(o)
        BY <2>3 DEF DeleteItem, DupInv, Raced, goto, TypeOK, reqVars
    <2>4. CASE UpdateItem(o)
        <3>1. CASE UNCHANGED docs
            BY <1>1, <2>4, <3>1 DEF UpdateItem, goto, TypeOK, reqVars
        <3>2. ASSUME NEW d \in Of(fund[o]), docs' = (docs \ {d}) \cup {[d EXCEPT !.val = o]}
              PROVE  DupInv'
            <4> DEFINE d2 == [d EXCEPT !.val = o]
            <4>1. d \in docs /\ d2.fund = d.fund /\ d2.id = d.id
                BY DEF Of, TypeOK, Item
            <4>2. \A p \in Ops : pc'[p] = "insert" => pc[p] = "insert"
                BY <2>4 DEF UpdateItem, goto, TypeOK
            <4>3. UNCHANGED <<raced, indexed, fund>>
                BY <2>4 DEF UpdateItem, reqVars
            <4>4. \A e \in docs' : \E c \in docs :
                        c.fund = e.fund /\ c.id = e.id /\ (IF e = d2 THEN c = d ELSE c = e /\ c # d)
                BY <3>2, <4>1
            <4>5. \A e, g \in docs' : e.fund = g.fund /\ e # g => ~indexed /\ Raced(e.id, g.id)
                BY <4>4 DEF DupInv
            <4>6. \A p \in Ops, e \in docs' : pc'[p] = "insert" /\ e.fund = fund[p] => Raced(p, e.id)
                BY <4>2, <4>4 DEF DupInv
            <4> QED BY <4>2, <4>3, <4>5, <4>6 DEF DupInv, Raced
        <3> QED BY <2>4, <3>1, <3>2 DEF UpdateItem
    <2>5. CASE ReadBack(o) \/ Invalidate(o) \/ GetCached(o) \/ ReadList(o) \/ FillCache(o) \/ Fails(o)
        BY <1>1, <2>5 DEF ReadBack, Invalidate, GetCached, ReadList, FillCache, Fails, goto,
              TypeOK, reqVars
    <2> QED BY <1>5, <2>1, <2>2, <2>3, <2>4, <2>5 DEF Handle
<1> QED BY <1>2, <1>3, <1>4, <1>5, WhoBegins DEF Next

-----------------------------------------------------------------------------
LEMMA CacheStep == TypeOK /\ CacheInv /\ [Next]_vars => CacheInv'
<1> SUFFICES ASSUME TypeOK, CacheInv, [Next]_vars,
                    events' \cap {"mixed", "failure"} = {}
             PROVE  /\ \A p \in Ops : pc'[p] = "fill" => res'[p] = docs'
                    /\ cache' \subseteq {docs'} \/ \E p \in Ops : WillClear(p)'
    BY DEF CacheInv
<1>1. events \subseteq events'
    <2>1. CASE UNCHANGED vars \/ CacheExpires
        BY <2>1 DEF vars, CacheExpires
    <2>2. ASSUME NEW o \in Ops, Handle(o) \/ Answer(o) PROVE events \subseteq events'
        BY <2>2 DEF Handle, Answer, FindItem, InsertItem, DeleteItem, UpdateItem, ReadBack,
              Invalidate, GetCached, ReadList, FillCache, Fails, Notes
    <2>3. ASSUME NEW o \in Ops, NEW k \in Kinds, NEW f \in Funds,
                 NEW who \in {"about", "profile", "outside"}, Begins(o, k, f, who)
          PROVE  events \subseteq events'
        BY <2>3 DEF Begins, Begin, Notes
    <2> QED BY <2>1, <2>2, <2>3, WhoBegins DEF Next
<1>2. /\ \A p \in Ops : pc[p] = "fill" => res[p] = docs
      /\ cache \subseteq {docs} \/ \E p \in Ops : WillClear(p)
    BY <1>1 DEF CacheInv
<1>3. CASE UNCHANGED vars \/ CacheExpires
    BY <1>2, <1>3 DEF vars, CacheExpires, WillClear, Of, reqVars
<1>4. ASSUME NEW o \in Ops, NEW k \in Kinds, NEW f \in Funds,
             NEW who \in {"about", "profile", "outside"}, Begins(o, k, f, who)
      PROVE  /\ \A p \in Ops : pc'[p] = "fill" => res'[p] = docs'
             /\ cache' \subseteq {docs'} \/ \E p \in Ops : WillClear(p)'
    <2>1. UNCHANGED <<docs, cache, res>>
        BY <1>4 DEF Begins, Begin
    <2>2. /\ pc[o] = "new" /\ pc'[o] # "fill"
          /\ \A p \in Ops \ {o} : pc'[p] = pc[p] /\ fund'[p] = fund[p]
        BY <1>4 DEF Begins, Begin, goto, TypeOK
    <2>3. \A p \in Ops : WillClear(p) => WillClear(p)'
        BY <2>1, <2>2 DEF WillClear, Of
    <2> QED BY <1>2, <2>1, <2>2, <2>3
<1>5. ASSUME NEW o \in Ops, Handle(o) \/ Answer(o)
      PROVE  /\ \A p \in Ops : pc'[p] = "fill" => res'[p] = docs'
             /\ cache' \subseteq {docs'} \/ \E p \in Ops : WillClear(p)'
    <2>1. fund' = fund /\ \A p \in Ops \ {o} : pc'[p] = pc[p] /\ res'[p] = res[p]
        BY <1>5 DEF Handle, Answer, FindItem, InsertItem, DeleteItem, UpdateItem, ReadBack,
              Invalidate, GetCached, ReadList, FillCache, Fails, goto, TypeOK, reqVars
    <2>2. CASE FindItem(o) \/ Answer(o) \/ Fails(o)
        <3>1. /\ UNCHANGED <<docs, cache>> /\ pc'[o] # "fill"
              /\ pc[o] \notin {"invalidate", "readback"}
            BY <2>2 DEF FindItem, Answer, Fails, Notes, goto, TypeOK
        <3>2. \A p \in Ops : WillClear(p) => WillClear(p)'
            BY <2>1, <3>1 DEF WillClear, Of
        <3> QED BY <1>2, <2>1, <3>1, <3>2
    <2>3. CASE docs' = docs /\ (InsertItem(o) \/ DeleteItem(o) \/ UpdateItem(o))
        <3>1. UNCHANGED cache /\ pc'[o] # "fill" /\ pc[o] \notin {"invalidate", "readback"}
            BY <2>3 DEF InsertItem, DeleteItem, UpdateItem, goto, TypeOK
        <3>2. \A p \in Ops : WillClear(p) => WillClear(p)'
            BY <2>1, <2>3, <3>1 DEF WillClear, Of
        <3> QED BY <1>2, <2>1, <2>3, <3>1, <3>2
    <2>4. CASE docs' # docs /\ (InsertItem(o) \/ DeleteItem(o) \/ UpdateItem(o))
        <3>1. Mixes \subseteq events' /\ pc'[o] \in {"invalidate", "readback"}
            BY <2>4 DEF InsertItem, DeleteItem, UpdateItem, Notes, goto, TypeOK
        <3>2. \A p \in Ops : pc'[p] # "fill"
            BY <2>1, <3>1 DEF Mixes
        <3>3. CASE pc'[o] = "invalidate"
            BY <3>2, <3>3 DEF WillClear
        <3>4. CASE pc'[o] = "readback"
            <4>1. PICK d \in Of(fund[o]) : docs' = (docs \ {d}) \cup {[d EXCEPT !.val = o]}
                BY <2>4, <3>4 DEF InsertItem, DeleteItem, UpdateItem, goto, TypeOK
            <4>2. [d EXCEPT !.val = o].fund = fund[o]
                BY DEF Of, TypeOK, Item
            <4>3. Of(fund[o])' # {}
                BY <2>1, <4>1, <4>2 DEF Of
            <4> QED BY <3>2, <3>4, <4>3 DEF WillClear
        <3> QED BY <3>1, <3>3, <3>4
    <2>5. CASE ReadBack(o)
        <3>1. UNCHANGED <<docs, cache>> /\ pc'[o] # "fill" /\ pc[o] = "readback"
            BY <2>5 DEF ReadBack, goto, TypeOK
        <3>2. \A p \in Ops : WillClear(p) => WillClear(p)'
            BY <2>1, <2>5, <3>1 DEF ReadBack, WillClear, Of, goto, TypeOK
        <3> QED BY <1>2, <2>1, <3>1, <3>2
    <2>6. CASE Invalidate(o)
        BY <1>2, <2>1, <2>6 DEF Invalidate, Notes, goto, TypeOK
    <2>7. CASE GetCached(o) \/ ReadList(o)
        <3>1. /\ UNCHANGED <<docs, cache>> /\ (pc'[o] = "fill" => res'[o] = docs)
              /\ pc[o] \notin {"invalidate", "readback"}
            BY <2>7 DEF GetCached, ReadList, goto, TypeOK
        <3>2. \A p \in Ops : WillClear(p) => WillClear(p)'
            BY <2>1, <3>1 DEF WillClear, Of
        <3> QED BY <1>2, <2>1, <3>1, <3>2
    <2>8. CASE FillCache(o)
        BY <1>2, <2>1, <2>8 DEF FillCache, Notes, goto, TypeOK
    <2> QED BY <1>5, <2>2, <2>3, <2>4, <2>5, <2>6, <2>7, <2>8 DEF Handle
<1> QED BY <1>3, <1>4, <1>5, WhoBegins DEF Next

\* The watchlist's state keeps its type, and the two invariants their shape.
THEOREM ListInvariant == Spec => []ListInv
<1>1. ListInv /\ [Next]_vars => ListInv'
    BY TypeStep, DupStep, CacheStep DEF ListInv
<1> QED BY <1>1, InitListInv, PTL DEF Spec

\* Two items of one fund: the index is missing, and their inserts had raced.
THEOREM DuplicatesAreExplained == Spec => []DuplicatesExplained
<1>1. ListInv => DuplicatesExplained
    BY DEF ListInv, DupInv, Raced, DuplicatesExplained
<1> QED BY <1>1, ListInvariant, PTL

\* The cached list is true while no request is about to clear it, unless a list
\* was read before a write and cached after it, or a call failed.
THEOREM CachedListIsTrue == Spec => []CacheIsTrue
<1>1. ListInv => CacheIsTrue
    BY DEF ListInv, CacheInv, WillClear, CacheIsTrue
<1> QED BY <1>1, ListInvariant, PTL

-----------------------------------------------------------------------------
(* The page.  A request passes the stages of its kind.                     *)

Shape ==
    \A o \in Ops :
       /\ o \in live => from[o] # "outside" /\ pc[o] # "new"
       /\ pc[o] \in {"find", "insert"} => kind[o] = "add"
       /\ pc[o] = "write" => kind[o] \in {"delete", "edit"}
       /\ pc[o] = "readback" => kind[o] = "edit"
       /\ pc[o] = "invalidate" => kind[o] # "list"
       /\ pc[o] \in {"get", "read", "fill"} => kind[o] = "list" \/ from[o] = "about"
       /\ pc[o] # "new" =>
             /\ from[o] = "profile" => kind[o] # "add"
             /\ from[o] = "about" => kind[o] # "edit"

\* What the answer of o will make of the list its handler captured.
Shows(o) ==
    {i \in seen[o] : i.fund # fund[o]}
    \cup (IF kind[o] = "edit" /\ \E i \in seen[o] : i.fund = fund[o] THEN res[o] ELSE {})

\* A request of the open page that runs alone: before its write the page is
\* true, after it the answer will make it so.
Alone(o) ==
    /\ from[o] = page /\ o \in live
    /\ pc[o] \in {"find", "insert", "write"} => list = docs
    /\ pc[o] = "insert" => Of(fund[o]) = {}
    /\ from[o] = "profile" /\ kind[o] # "list" => \E i \in seen[o] : i.fund = fund[o]
    /\ pc[o] = "write" /\ from[o] = "profile" => seen[o] = docs
    /\ pc[o] = "readback" =>
          /\ from[o] = "profile" /\ Of(fund[o]) # {}
          /\ docs \ Of(fund[o]) = {i \in seen[o] : i.fund # fund[o]}
    /\ pc[o] \in {"invalidate", "answer"} /\ from[o] = "profile" /\ kind[o] # "list" =>
          docs = Shows(o)
    /\ pc[o] = "answer" /\ (from[o] = "about" \/ kind[o] = "list") => res[o] = docs

PageInv ==
    events = {} =>
       /\ \A d, e \in docs : d.fund = e.fund => d = e
       /\ \A o, p \in Ops : Counts(o) /\ Counts(p) => o = p
       /\ \A o \in Ops : Counts(o) => Alone(o)
       /\ page # "none" /\ (\A o \in Ops : ~Counts(o)) => list = docs

LEMMA ShapeStep == TypeOK /\ Shape /\ [Next]_vars => Shape'
<1> SUFFICES ASSUME TypeOK, Shape, [Next]_vars PROVE Shape'
    OBVIOUS
<1>1. CASE UNCHANGED vars \/ CacheExpires
    BY <1>1 DEF vars, CacheExpires, reqVars, Shape
<1>2. ASSUME NEW o \in Ops, Handle(o) \/ Answer(o) PROVE Shape'
    BY <1>2 DEF Handle, Answer, FindItem, InsertItem, DeleteItem, UpdateItem, ReadBack,
          Invalidate, GetCached, ReadList, FillCache, Fails, goto, TypeOK, reqVars, Shape, Kinds
<1>3. ASSUME NEW o \in Ops, \E p \in {"about", "profile"} : Open(o, p) PROVE Shape'
    BY <1>3 DEF Open, Begin, goto, TypeOK, Shape
<1>4. ASSUME NEW o \in Ops, NEW k \in Kinds, NEW f \in Funds, AboutClick(o, k, f) PROVE Shape'
    BY <1>4 DEF AboutClick, Begin, goto, TypeOK, Shape
<1>5. ASSUME NEW o \in Ops, NEW k \in Kinds, NEW f \in Funds, ProfileClick(o, k, f) PROVE Shape'
    BY <1>5 DEF ProfileClick, Begin, goto, TypeOK, Shape
<1>6. ASSUME NEW o \in Ops, NEW k \in Kinds, NEW f \in Funds, Outside(o, k, f) PROVE Shape'
    BY <1>6 DEF Outside, Begin, goto, TypeOK, Shape, Kinds
<1> QED BY <1>1, <1>2, <1>3, <1>4, <1>5, <1>6 DEF Next

\* A request that begins and leaves no event behind.
LEMMA QuietBegin ==
    ASSUME TypeOK, Shape, PageInv, NEW o \in Ops, NEW k \in Kinds, NEW f \in Funds,
           NEW who \in {"about", "profile", "outside"}, Begin(o, k, f, who), events' = {}
    PROVE  /\ events = {} /\ pc[o] = "new"
           /\ docs' = docs /\ cache' = cache /\ res' = res
           /\ who = "outside" => k = "list" /\ ~Counts(o)'
           /\ who # "outside" => \A p \in Ops : ~Counts(p)
           /\ \A p \in Ops \ {o} :
                 /\ Counts(p)' <=> Counts(p)
                 /\ pc'[p] = pc[p] /\ kind'[p] = kind[p] /\ fund'[p] = fund[p]
                 /\ from'[p] = from[p] /\ seen'[p] = seen[p]
           /\ pc'[o] = (CASE k = "list" -> "get" [] k = "add" -> "find" [] OTHER -> "write")
           /\ kind'[o] = k /\ fund'[o] = f /\ from'[o] = who /\ seen'[o] = list
<1>1. /\ docs' = docs /\ cache' = cache /\ res' = res /\ pc[o] = "new"
      /\ pc'[o] = (CASE k = "list" -> "get" [] k = "add" -> "find" [] OTHER -> "write")
      /\ kind'[o] = k /\ fund'[o] = f /\ from'[o] = who /\ seen'[o] = list
      /\ \A p \in Ops \ {o} :
            /\ pc'[p] = pc[p] /\ kind'[p] = kind[p] /\ fund'[p] = fund[p]
            /\ from'[p] = from[p] /\ seen'[p] = seen[p]
    BY DEF Begin, goto, TypeOK
<1>2. /\ events = {}
      /\ ~((who # "outside" \/ k # "list") /\ \E p \in Ops : Counts(p))
      /\ ~(who = "outside" /\ k # "list")
    BY DEF Begin, Notes
<1>3. \A p \in Ops \ {o} : Counts(p)' <=> Counts(p)
    BY <1>1 DEF Counts, Running
<1>4. who = "outside" => ~Counts(o)'
    BY <1>1, <1>2 DEF Counts
<1> QED BY <1>1, <1>2, <1>3, <1>4

LEMMA PageBegins ==
    ASSUME TypeOK, Shape, PageInv, NEW o \in Ops,
           \/ \E p \in {"about", "profile"} : Open(o, p)
           \/ \E k \in Kinds, f \in Funds :
                 AboutClick(o, k, f) \/ ProfileClick(o, k, f) \/ Outside(o, k, f)
    PROVE  PageInv'
<1> SUFFICES ASSUME events' = {}
             PROVE  /\ \A d, e \in docs' : d.fund = e.fund => d = e
                    /\ \A q, p \in Ops : Counts(q)' /\ Counts(p)' => q = p
                    /\ \A p \in Ops : Counts(p)' => Alone(p)'
                    /\ page' # "none" /\ (\A p \in Ops : ~Counts(p)') => list' = docs'
    BY DEF PageInv
<1>1. ASSUME NEW p \in {"about", "profile"}, Open(o, p)
      PROVE  /\ \A d, e \in docs' : d.fund = e.fund => d = e
             /\ \A r, q \in Ops : Counts(r)' /\ Counts(q)' => r = q
             /\ \A q \in Ops : Counts(q)' => Alone(q)'
             /\ page' # "none" /\ (\A q \in Ops : ~Counts(q)') => list' = docs'
    <2>1. Begin(o, "list", fund[o], p) /\ page' = p /\ live' = {o}
          /\ fund[o] \in Funds /\ "list" \in Kinds /\ p # "outside"
        BY <1>1 DEF Open, TypeOK, Kinds
    <2> HIDE DEF Kinds
    <2>2. /\ events = {} /\ docs' = docs /\ pc'[o] = "get" /\ kind'[o] = "list" /\ from'[o] = p
          /\ \A q \in Ops \ {o} : ~Counts(q)'
        BY <2>1, QuietBegin
    <2>3. Counts(o)' /\ Alone(o)'
        BY <2>1, <2>2 DEF Counts, Running, Alone
    <2> QED BY <2>2, <2>3 DEF PageInv
<1>2. ASSUME NEW k \in Kinds, NEW f \in Funds, AboutClick(o, k, f) \/ ProfileClick(o, k, f)
      PROVE  /\ \A d, e \in docs' : d.fund = e.fund => d = e
             /\ \A r, q \in Ops : Counts(r)' /\ Counts(q)' => r = q
             /\ \A q \in Ops : Counts(q)' => Alone(q)'
             /\ page' # "none" /\ (\A q \in Ops : ~Counts(q)') => list' = docs'
    <2>1. /\ Begin(o, k, f, page) /\ page \in {"about", "profile"}
          /\ page' = page /\ list' = list /\ o \in live'
          /\ page = "about" => k \in {"add", "delete"}
          /\ page = "profile" => k \in {"delete", "edit"} /\ Shown(f)
        BY <1>2 DEF AboutClick, ProfileClick
    <2>2. /\ events = {} /\ docs' = docs /\ kind'[o] = k /\ from'[o] = page
          /\ fund'[o] = f /\ seen'[o] = list
          /\ pc'[o] \in {"find", "write"}
          /\ \A q \in Ops : ~Counts(q)
          /\ \A q \in Ops \ {o} : ~Counts(q)'
        BY <2>1, QuietBegin
    <2>3. list = docs
        BY <2>1, <2>2 DEF PageInv
    <2>4. Counts(o)' /\ Alone(o)'
        BY <2>1, <2>2, <2>3 DEF Counts, Running, Alone, Shown
    <2> QED BY <2>2, <2>4 DEF PageInv
<1>3. ASSUME NEW k \in Kinds, NEW f \in Funds, Outside(o, k, f)
      PROVE  /\ \A d, e \in docs' : d.fund = e.fund => d = e
             /\ \A r, q \in Ops : Counts(r)' /\ Counts(q)' => r = q
             /\ \A q \in Ops : Counts(q)' => Alone(q)'
             /\ page' # "none" /\ (\A q \in Ops : ~Counts(q)') => list' = docs'
    <2>1. Begin(o, k, f, "outside") /\ UNCHANGED <<page, list, live>>
        BY <1>3 DEF Outside
    <2>2. /\ events = {} /\ docs' = docs /\ res' = res /\ pc[o] = "new" /\ ~Counts(o)'
          /\ \A q \in Ops \ {o} :
                 /\ Counts(q)' <=> Counts(q)
                 /\ pc'[q] = pc[q] /\ kind'[q] = kind[q] /\ fund'[q] = fund[q]
                 /\ from'[q] = from[q] /\ seen'[q] = seen[q]
        BY <2>1, QuietBegin
    <2>3. \A q \in Ops \ {o} : Alone(q) => Alone(q)'
        BY <2>1, <2>2 DEF Alone, Shows, Of
    <2>4. ~Counts(o)
        BY <2>2 DEF Counts, Running
    <2> QED BY <2>1, <2>2, <2>3, <2>4 DEF PageInv
<1> QED BY <1>1, <1>2, <1>3

\* Another client's load of the list touches neither the list nor the page.
LEMMA PageIdles ==
    ASSUME TypeOK, Shape, PageInv, NEW o \in Ops, ~Counts(o), Handle(o) \/ Answer(o)
    PROVE  PageInv'
<1>1. Running(o)
    BY DEF Handle, Answer, FindItem, InsertItem, DeleteItem, UpdateItem, ReadBack, Invalidate,
           GetCached, ReadList, FillCache, Fails, goto, Running
<1>2. from[o] = "outside" /\ kind[o] = "list" /\ o \notin live
    BY <1>1 DEF Counts, Shape
<1>3. \/ GetCached(o) \/ ReadList(o) \/ FillCache(o) \/ Fails(o) \/ Answer(o)
    BY <1>2 DEF Handle, Shape, FindItem, InsertItem, DeleteItem, UpdateItem, ReadBack, Invalidate,
           goto
<1>4. UNCHANGED <<docs, page, list, reqVars>> /\ events \subseteq events'
      /\ \A p \in Ops \ {o} : pc'[p] = pc[p] /\ res'[p] = res[p]
    BY <1>2, <1>3 DEF GetCached, ReadList, FillCache, Fails, Answer, Notes, goto, TypeOK, reqVars
<1>5. ~Counts(o)' /\ \A p \in Ops \ {o} : Counts(p)' <=> Counts(p)
    BY <1>2, <1>4 DEF Counts, Running, reqVars
<1>6. \A p \in Ops \ {o} : Alone(p) => Alone(p)'
    BY <1>4 DEF Alone, Shows, Of, reqVars
<1> QED BY <1>4, <1>5, <1>6 DEF PageInv

\* One step of the page's request, alone.
LEMMA PageSteps ==
    ASSUME TypeOK, CacheInv, Shape, PageInv, NEW o \in Ops, Counts(o), Handle(o) \/ Answer(o)
    PROVE  PageInv'
<1> SUFFICES ASSUME events' = {} PROVE PageInv'
    BY DEF PageInv
<1>1. /\ events = {}
      /\ UNCHANGED <<page, reqVars>>
      /\ \A p \in Ops \ {o} : pc'[p] = pc[p] /\ res'[p] = res[p]
    BY DEF Handle, Answer, FindItem, InsertItem, DeleteItem, UpdateItem, ReadBack,
           Invalidate, GetCached, ReadList, FillCache, Fails, Notes, goto, TypeOK, reqVars
<1>2. /\ Alone(o) /\ \A p \in Ops \ {o} : ~Counts(p)
      /\ \A d, e \in docs : d.fund = e.fund => d = e
    BY <1>1 DEF PageInv
<1>3. (\A p \in Ops \ {o} : ~Counts(p)') /\ (Counts(o)' <=> pc'[o] # "done")
    BY <1>1, <1>2 DEF Counts, Running, reqVars, Handle, Answer, FindItem, InsertItem, DeleteItem,
           UpdateItem, ReadBack, Invalidate, GetCached, ReadList, FillCache, Fails, goto, TypeOK
<1>4. page \in {"about", "profile"} /\ from[o] = page /\ o \in live
    BY <1>2 DEF Alone, Shape, TypeOK
<1>5. SUFFICES /\ \A d, e \in docs' : d.fund = e.fund => d = e
               /\ pc'[o] = "done" => list' = docs'
               /\ pc'[o] # "done" => Alone(o)'
    BY <1>3 DEF PageInv
<1>6. CASE Answer(o)
    <2>1. docs' = docs /\ pc'[o] = "done" /\ pc[o] = "answer"
        BY <1>6 DEF Answer, goto, TypeOK
    <2>2. list' = IF kind[o] = "list" \/ from[o] = "about" THEN res[o] ELSE Shows(o)
        BY <1>4, <1>6 DEF Answer, Shows
    <2>3. list' = docs
        BY <1>2, <1>4, <2>1, <2>2 DEF Alone
    <2> QED BY <1>2, <2>1, <2>3
<1>7. CASE FindItem(o)
    <2>1. /\ UNCHANGED <<docs, list>> /\ kind[o] = "add"
          /\ pc[o] = "find" /\ pc'[o] \in {"insert", "done"}
          /\ (pc'[o] = "insert" => Of(fund[o]) = {})
        BY <1>7 DEF FindItem, goto, TypeOK, Shape
    <2> QED BY <1>1, <1>2, <1>4, <2>1 DEF Alone, Of, Shape, reqVars
<1>8. CASE InsertItem(o)
    <2> DEFINE item == [fund |-> fund[o], id |-> o, val |-> o]
    <2>1. pc[o] = "insert" /\ Of(fund[o]) = {} /\ from[o] = "about" /\ kind[o] = "add"
        <3>1. pc[o] = "insert"
            BY <1>8 DEF InsertItem, goto
        <3>2. from[o] = "about" /\ kind[o] = "add"
            BY <1>4, <3>1 DEF Shape
        <3> QED BY <1>2, <3>1, <3>2 DEF Alone
    <2>2. docs' = docs \cup {item} /\ pc'[o] = "invalidate"
        BY <1>8, <2>1 DEF InsertItem, Notes, goto, TypeOK
    <2>3. \A d, e \in docs' : d.fund = e.fund => d = e
        BY <1>2, <2>1, <2>2 DEF Of
    <2> QED BY <1>1, <1>4, <2>1, <2>2, <2>3 DEF Alone, reqVars
<1>9. CASE DeleteItem(o)
    <2>1. pc[o] = "write" /\ kind[o] = "delete" /\ list = docs /\ list' = list
        BY <1>2, <1>9 DEF DeleteItem, goto, Alone
    <2>2. CASE Of(fund[o]) = {}
        BY <1>2, <1>9, <2>1, <2>2 DEF DeleteItem, goto, TypeOK
    <2>3. CASE Of(fund[o]) # {}
        <3>1. PICK d \in Of(fund[o]) : docs' = docs \ {d}
            BY <1>9, <2>3 DEF DeleteItem
        <3>2. pc'[o] = "invalidate"
            BY <1>9, <2>3 DEF DeleteItem, Notes, goto, TypeOK
        <3>3. docs' = {i \in docs : i.fund # fund[o]}
            BY <1>2, <3>1 DEF Of
        <3>4. from[o] = "profile" => docs' = Shows(o)
            BY <1>2, <2>1, <3>3 DEF Alone, Shows
        <3>5. Shows(o)' = Shows(o)
            BY <1>1, <2>1 DEF Shows, reqVars
        <3>6. Alone(o)'
            BY <1>1, <1>2, <1>4, <2>1, <3>2, <3>4, <3>5 DEF Alone, reqVars
        <3> QED BY <1>2, <3>1, <3>2, <3>6
    <2> QED BY <2>2, <2>3
<1>10. CASE UpdateItem(o)
    <2>1. pc[o] = "write" /\ kind[o] = "edit" /\ list = docs /\ list' = list
          /\ from[o] = "profile" /\ seen[o] = docs
        BY <1>2, <1>4, <1>10 DEF UpdateItem, goto, Alone, Shape
    <2>2. CASE pc'[o] = "done"
        BY <1>2, <1>10, <2>1, <2>2 DEF UpdateItem, Notes, goto, TypeOK
    <2>3. CASE pc'[o] # "done"
        <3>1. PICK d \in Of(fund[o]) : docs' = (docs \ {d}) \cup {[d EXCEPT !.val = o]}
            BY <1>10, <2>3 DEF UpdateItem, goto, TypeOK
        <3>2. pc'[o] = "readback"
            BY <1>10, <2>3 DEF UpdateItem, goto, TypeOK
        <3>3. d \in docs /\ d.fund = fund[o] /\ [d EXCEPT !.val = o].fund = fund[o]
            BY DEF Of, TypeOK, Item
        <3>4. \A e \in docs' : e.fund = fund[o] => e = [d EXCEPT !.val = o]
            BY <1>2, <3>1, <3>3
        <3>5. \A e, g \in docs' : e.fund = g.fund => e = g
            BY <1>2, <3>1, <3>3, <3>4
        <3>6. Of(fund[o])' # {} /\ fund' = fund /\ seen' = seen
            BY <1>1, <3>1, <3>3 DEF Of, reqVars
        <3>7. docs' \ Of(fund[o])' = {i \in seen[o] : i.fund # fund[o]}
            BY <1>2, <2>1, <3>1, <3>3, <3>6 DEF Of
        <3>8. Alone(o)'
            BY <1>1, <1>2, <1>4, <2>1, <3>2, <3>6, <3>7 DEF Alone, reqVars
        <3> QED BY <3>2, <3>5, <3>8
    <2> QED BY <2>2, <2>3
<1>11. CASE ReadBack(o)
    <2>1. /\ pc[o] = "readback" /\ from[o] = "profile" /\ kind[o] = "edit"
          /\ Of(fund[o]) # {} /\ docs' = docs
          /\ docs \ Of(fund[o]) = {i \in seen[o] : i.fund # fund[o]}
        BY <1>2, <1>11 DEF ReadBack, goto, Alone, Shape
    <2>2. PICK d \in Of(fund[o]) : res'[o] = {d} /\ pc'[o] = "invalidate"
        BY <1>11, <2>1 DEF ReadBack, goto, TypeOK
    <2>3. Of(fund[o]) = {d}
        BY <1>2, <2>2 DEF Of
    <2>4. docs' = Shows(o)'
        BY <1>1, <1>2, <2>1, <2>2, <2>3 DEF Shows, Alone, Of, reqVars
    <2> QED BY <1>1, <1>2, <1>4, <2>1, <2>2, <2>4 DEF Alone, reqVars
<1>12. CASE Invalidate(o)
    <2>1. pc[o] = "invalidate" /\ UNCHANGED <<docs, res>> /\ kind[o] # "list"
          /\ pc'[o] = IF from[o] = "about" THEN "get" ELSE "answer"
        BY <1>12 DEF Invalidate, goto, TypeOK, Shape
    <2>2. Shows(o)' = Shows(o)
        BY <1>1, <2>1 DEF Shows, reqVars
    <2> QED BY <1>1, <1>2, <1>4, <2>1, <2>2 DEF Alone, reqVars
<1>13. CASE GetCached(o) \/ ReadList(o) \/ FillCache(o)
    <2>1. /\ docs' = docs /\ pc[o] \in {"get", "read", "fill"} /\ pc'[o] \in {"read", "fill", "answer"}
          /\ kind[o] = "list" \/ from[o] = "about"
        BY <1>13 DEF GetCached, ReadList, FillCache, goto, TypeOK, Shape
    <2>2. \A p \in Ops : ~WillClear(p)
        BY <1>2, <2>1 DEF WillClear, Shape, Counts, Running
    <2>3. cache \subseteq {docs} /\ (pc[o] = "fill" => res[o] = docs)
        BY <1>1, <2>2 DEF CacheInv
    <2>4. pc'[o] = "answer" => res'[o] = docs
        BY <1>13, <2>3 DEF GetCached, ReadList, FillCache, goto, TypeOK
    <2> QED BY <1>1, <1>2, <1>4, <2>1, <2>4 DEF Alone, reqVars
<1>14. CASE Fails(o)
    BY <1>14 DEF Fails, Notes
<1> QED BY <1>6, <1>7, <1>8, <1>9, <1>10, <1>11, <1>12, <1>13, <1>14 DEF Handle

\* While no two requests overlapped, no other client wrote and no call failed,
\* the open page is true whenever nothing of it runs.
THEOREM OpenPageIsTrue == Spec => []PageIsTrue
<1>1. Init => Shape /\ PageInv
    BY DEF Init, Shape, PageInv, Counts, Running
<1>2. ListInv /\ Shape /\ PageInv /\ [Next]_vars => Shape' /\ PageInv'
    <2> SUFFICES ASSUME ListInv, Shape, PageInv, [Next]_vars PROVE PageInv'
        BY ShapeStep DEF ListInv
    <2>1. CASE UNCHANGED vars \/ CacheExpires
        <3>1. UNCHANGED <<docs, page, list, pc, reqVars, res, events>>
            BY <2>1 DEF vars, CacheExpires
        <3> QED BY <3>1 DEF PageInv, Counts, Running, Alone, Shows, Of, reqVars
    <2>2. ASSUME NEW o \in Ops, Handle(o) \/ Answer(o) PROVE PageInv'
        BY <2>2, PageIdles, PageSteps DEF ListInv
    <2> QED BY <2>1, <2>2, PageBegins DEF Next, ListInv
<1>3. PageInv => PageIsTrue
    BY DEF PageInv, PageIsTrue, Counts
<1> QED BY <1>1, <1>2, <1>3, ListInvariant, PTL DEF Spec
=============================================================================
