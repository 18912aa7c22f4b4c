------------------------- MODULE FundHistoryProofs -------------------------
(***************************************************************************)
(* The ranges and the purchase lookups of the fund history are whole, for  *)
(* any retention that is no shorter than the longest range and any number  *)
(* of update runs, cleanups, readers and lookups.                          *)
(***************************************************************************)
EXTENDS FundHistory, TLAPS

\* Only days behind the retention are missing; no cutoff of a cleanup lies in
\* front of it, and no running query reaches behind it, since it has seen at
\* most one midnight.
RetentionInv ==
    /\ \A d \in saved \ snaps : d < today - Retention
    /\ \A c \in Cleanups : cutoff[c] # None => cutoff[c] <= today - Retention
    /\ \A r \in Readers : started[r] # None =>
          from[r] # None /\ from[r] >= today - Retention

\* A query that has not seen midnight yet still has a day of margin.
MarginInv ==
    \A r \in Readers : started[r] # None =>
        /\ started[r] \in {today - 1, today}
        /\ from[r] >= started[r] - (Retention - 1)

\* What the second query of a lookup relies on, and what it answers.
LookupInv ==
    /\ \A l \in Lookups : kept[l] \subseteq snaps
    /\ \A l \in Lookups : lpc[l] # "new" => purchase[l] # None
    /\ \A l \in Lookups : lpc[l] = "after" => \A d \in kept[l] : d > purchase[l]
    /\ LookupMissesNothing

HistoryInv == TypeOK /\ RetentionInv /\ MarginInv /\ LookupInv

\* Nothing is saved and nobody asks.
LEMMA HistoryInvInitial == Init => HistoryInv
BY HistoryConstants
   DEF Init, HistoryInv, TypeOK, RetentionInv, MarginInv, LookupInv, LookupMissesNothing, Days

\* The dates are numbers.
LEMMA DaysAreInt == Days \subseteq Int /\ None \notin Days
BY HistoryConstants DEF Days

\* Midnight takes the margin of a running query and moves the retention.
LEMMA TickKeeps == HistoryInv /\ Tick => HistoryInv'
<1> SUFFICES ASSUME HistoryInv, Tick PROVE HistoryInv'
    OBVIOUS
<1> USE HistoryConstants, DaysAreInt DEF HistoryInv, Tick, updateVars, readVars, lookupVars
<1>1. today \in Int /\ today' = today + 1 /\ today' \in Days
    BY DEF TypeOK, Days
<1>2. TypeOK'
    BY <1>1 DEF TypeOK
<1>3. MarginInv'
    BY <1>1 DEF MarginInv, TypeOK
<1>4. RetentionInv'
    <2>1. \A d \in (saved \ snaps)' : d < today' - Retention
        BY <1>1 DEF RetentionInv, TypeOK, Days
    <2>2. \A c \in Cleanups : cutoff'[c] # None => cutoff'[c] <= today' - Retention
        BY <1>1 DEF RetentionInv, TypeOK
    <2>3. \A r \in Readers : started'[r] # None =>
              from'[r] # None /\ from'[r] >= today' - Retention
        BY <1>1 DEF RetentionInv, MarginInv, TypeOK
    <2> QED
        BY <2>1, <2>2, <2>3 DEF RetentionInv
<1>5. LookupInv'
    BY DEF LookupInv, LookupMissesNothing
<1> QED
    BY <1>2, <1>3, <1>4, <1>5

\* A change of the collection leaves every lookup what it still finds.
LEMMA BecomesKeeps ==
    ASSUME NEW days, TypeOK, LookupInv, Becomes(days), UNCHANGED lookupVars
    PROVE  LookupInv'
BY DEF TypeOK, LookupInv, LookupMissesNothing, Becomes, lookupVars

\* A day is saved.
LEMMA UpsertKeeps ==
    ASSUME NEW u \in Updates, HistoryInv, upsertFundDailySnapshot(u)
    PROVE  HistoryInv'
<1> USE DEF HistoryInv, upsertFundDailySnapshot
<1>1. CASE Becomes(snaps \cup {fetched[u]}) /\ saved' = saved \cup {fetched[u]}
    <2>1. LookupInv'
        BY <1>1, BecomesKeeps
    <2>2. fetched[u] \in Days
        BY DEF TypeOK
    <2>3. TypeOK'
        BY <1>1, <2>2 DEF TypeOK, Becomes, readVars, lookupVars
    <2>4. saved' \ snaps' \subseteq saved \ snaps
        BY <1>1 DEF Becomes
    <2>5. RetentionInv' /\ MarginInv'
        BY <2>4 DEF RetentionInv, MarginInv, readVars
    <2> QED
        BY <2>1, <2>3, <2>5
<1>2. CASE UNCHANGED <<snaps, saved, kept>>
    BY <1>2 DEF TypeOK, RetentionInv, MarginInv, LookupInv, LookupMissesNothing, readVars, lookupVars
<1> QED
    BY <1>1, <1>2

\* A cleanup deletes only what lies behind the retention.
LEMMA DeleteKeeps ==
    ASSUME NEW c \in Cleanups, HistoryInv, DeleteMany(c)
    PROVE  HistoryInv'
<1> USE HistoryConstants, DaysAreInt DEF HistoryInv, DeleteMany
<1>1. CASE Becomes({d \in snaps : d >= cutoff[c]})
    <2>1. LookupInv'
        BY <1>1, BecomesKeeps
    <2>2. TypeOK'
        BY <1>1 DEF TypeOK, Becomes, readVars, lookupVars
    <2>3. cutoff[c] \in Int /\ cutoff[c] <= today - Retention /\ today \in Int
        BY DEF TypeOK, RetentionInv
    <2>4. \A d \in saved' \ snaps' : d < today' - Retention
        <3> SUFFICES ASSUME NEW d \in saved' \ snaps' PROVE d < today' - Retention
            OBVIOUS
        <3>1. d \in Int /\ (d \in saved \ snaps \/ ~(d >= cutoff[c]))
            BY <1>1 DEF TypeOK, Becomes
        <3> QED
            BY <2>3, <3>1 DEF RetentionInv
    <2>5. RetentionInv' /\ MarginInv'
        BY <2>4 DEF RetentionInv, MarginInv, TypeOK, readVars
    <2> QED
        BY <2>1, <2>2, <2>5
<1>2. CASE UNCHANGED <<snaps, kept>>
    BY <1>2 DEF TypeOK, RetentionInv, MarginInv, LookupInv, LookupMissesNothing, readVars, lookupVars
<1> QED
    BY <1>1, <1>2

\* A query starts a day in front of the retention, the longest range included.
LEMMA AskRangeKeeps ==
    ASSUME NEW r \in Readers, NEW days \in Ranges, HistoryInv, AskRange(r, days)
    PROVE  HistoryInv'
<1> USE HistoryConstants, DaysAreInt DEF HistoryInv, AskRange, updateVars, lookupVars
<1>1. /\ today \in Int /\ today \in Days /\ days \in Nat /\ days <= Retention
      /\ today - (days - 1) >= today - (Retention - 1)
    BY DEF TypeOK
<1>2. TypeOK'
    BY <1>1 DEF TypeOK
<1>3. started' = [started EXCEPT ![r] = today] /\ from' = [from EXCEPT ![r] = today - (days - 1)]
    OBVIOUS
<1>4. MarginInv'
    BY <1>1, <1>3 DEF MarginInv, TypeOK
<1>5. RetentionInv'
    BY <1>1, <1>3 DEF RetentionInv, TypeOK
<1>6. LookupInv'
    BY DEF LookupInv, LookupMissesNothing
<1> QED
    BY <1>2, <1>4, <1>5, <1>6

\* The days a lookup still finds are numbers and snapshots.
LEMMA KeptAreInt ==
    ASSUME HistoryInv, NEW l \in Lookups
    PROVE  \A e \in kept[l] : e \in Int /\ e \in snaps
BY DaysAreInt DEF HistoryInv, LookupInv, TypeOK

\* A lookup that ends well leaves the others alone.
LEMMA DoneKeeps ==
    ASSUME HistoryInv, NEW l \in Lookups, NEW d,
           lpc' = [lpc EXCEPT ![l] = "done"], snapshot' = [snapshot EXCEPT ![l] = d],
           UNCHANGED <<purchase, kept>>,
           \A e \in kept[l] :
               d # None /\ IF e <= purchase[l] THEN d \in e..purchase[l] ELSE d <= e
    PROVE  LookupMissesNothing'
<1> USE DEF HistoryInv
<1> SUFFICES ASSUME NEW m \in Lookups, lpc'[m] = "done", NEW e \in kept[m]
             PROVE  /\ snapshot'[m] # None
                    /\ IF e <= purchase[m] THEN snapshot'[m] \in e..purchase[m]
                                           ELSE snapshot'[m] <= e
    BY DEF LookupMissesNothing
<1>1. CASE m = l
    BY <1>1 DEF TypeOK
<1>2. CASE m # l
    BY <1>2 DEF TypeOK, LookupInv, LookupMissesNothing
<1> QED
    BY <1>1, <1>2

\* Neither query of a lookup passes over what it still finds.
LEMMA LookupKeeps ==
    ASSUME NEW l \in Lookups, HistoryInv,
           FindBefore(l) \/ FindAfter(l) \/ EndLookup(l) \/ \E day \in Days : AskPurchase(l, day)
    PROVE  HistoryInv'
<1> USE HistoryConstants, DaysAreInt DEF HistoryInv
<1>1. RetentionInv' /\ MarginInv'
    BY DEF RetentionInv, MarginInv, FindBefore, FindAfter, EndLookup, AskPurchase,
           updateVars, readVars
<1>2. CASE FindBefore(l)
    <2> DEFINE days == {d \in snaps : d <= purchase[l]}
    <2>1. purchase[l] \in Days /\ days \subseteq Days
        BY <1>2 DEF TypeOK, LookupInv, FindBefore
    <2>2. CASE \E d \in days : Latest(d, days) /\ Answer(l, d)
        <3>1. PICK d \in days : Latest(d, days) /\ Answer(l, d)
            BY <2>2
        <3>2. \A e \in kept[l] : IF e <= purchase[l] THEN d \in e..purchase[l] ELSE d <= e
            <4>1. d \in Int /\ d <= purchase[l] /\ purchase[l] \in Int
                BY <2>1, <3>1
            <4>2. \A e \in kept[l] : e \in Int /\ (e <= purchase[l] => e <= d)
                BY <3>1, KeptAreInt DEF Latest, LookupInv
            <4> QED
                BY <4>1, <4>2
        <3>3. TypeOK'
            BY <1>2, <2>1, <3>1 DEF TypeOK, FindBefore, Answer, updateVars, readVars
        <3>4. /\ d # None
              /\ lpc' = [lpc EXCEPT ![l] = "done"] /\ snapshot' = [snapshot EXCEPT ![l] = d]
              /\ UNCHANGED <<snaps, purchase, kept>>
            BY <1>2, <2>1, <3>1 DEF FindBefore, Answer
        <3>5. LookupMissesNothing'
            <4>1. \A e \in kept[l] :
                      d # None /\ IF e <= purchase[l] THEN d \in e..purchase[l] ELSE d <= e
                BY <3>2, <3>4
            <4> QED
                BY <3>4, <4>1, DoneKeeps
        <3>6. LookupInv'
            <4>1. \A m \in Lookups : lpc'[m] # "new" => purchase'[m] # None
                BY <2>1, <3>4 DEF TypeOK, LookupInv
            <4>2. \A m \in Lookups : lpc'[m] = "after" => m # l /\ lpc[m] = "after"
                BY <3>4 DEF TypeOK
            <4>3. \A m \in Lookups : lpc'[m] = "after" => \A e \in kept'[m] : e > purchase'[m]
                BY <3>4, <4>2 DEF LookupInv
            <4>4. \A m \in Lookups : kept'[m] \subseteq snaps'
                BY <3>4 DEF LookupInv
            <4> HIDE DEF HistoryInv
            <4> QED
                BY <3>5, <4>1, <4>3, <4>4 DEF LookupInv
        <3> QED
            BY <1>1, <3>3, <3>6
    <2>3. CASE days = {} /\ lpc' = [lpc EXCEPT ![l] = "after"] /\ UNCHANGED snapshot
        <3>1. \A e \in kept[l] : e > purchase[l]
            <4>1. \A e \in kept[l] : e \in Int /\ purchase[l] \in Int /\ ~(e <= purchase[l])
                BY <2>1, <2>3, KeptAreInt
            <4> QED
                BY <4>1
        <3>2. TypeOK'
            BY <1>2, <2>3 DEF TypeOK, FindBefore, updateVars, readVars
        <3>3. LookupInv'
            BY <1>2, <2>3, <3>1 DEF TypeOK, LookupInv, LookupMissesNothing, FindBefore
        <3> QED
            BY <1>1, <3>2, <3>3
    <2> QED
        BY <1>2, <2>2, <2>3 DEF FindBefore
<1>3. CASE FindAfter(l)
    <2> DEFINE days == {d \in snaps : d >= purchase[l]}
    <2>1. purchase[l] \in Days /\ purchase[l] \in Int /\ days \subseteq Days
        BY <1>3 DEF TypeOK, LookupInv, FindAfter
    <2>2. \A e \in kept[l] : e \in Int /\ e > purchase[l] /\ e \in days
        BY <1>3, <2>1, KeptAreInt DEF LookupInv, FindAfter
    <2>3. \E d \in Days \cup {None} :
              /\ Answer(l, d)
              /\ \A e \in kept[l] : d # None /\ d <= e
        BY <1>3, <2>1, <2>2 DEF FindAfter, Earliest
    <2>4. PICK d \in Days \cup {None} :
              /\ Answer(l, d)
              /\ \A e \in kept[l] : d # None /\ d <= e
        BY <2>3
    <2>5. TypeOK'
        BY <1>3, <2>4 DEF TypeOK, FindAfter, Answer, updateVars, readVars
    <2>6. \A e \in kept[l] : ~(e <= purchase[l])
        BY <2>1, <2>2
    <2>7. LookupMissesNothing'
        BY <1>3, <2>4, <2>6, DoneKeeps DEF FindAfter, Answer
    <2>8. LookupInv'
        BY <1>3, <2>1, <2>4, <2>7 DEF TypeOK, LookupInv, FindAfter, Answer
    <2> QED
        BY <1>1, <2>5, <2>8
<1>4. CASE EndLookup(l)
    BY <1>1, <1>4 DEF TypeOK, LookupInv, LookupMissesNothing, EndLookup, updateVars, readVars
<1>5. CASE \E day \in Days : AskPurchase(l, day)
    BY <1>1, <1>5 DEF TypeOK, LookupInv, LookupMissesNothing, AskPurchase, updateVars, readVars
<1> QED
    BY <1>2, <1>3, <1>4, <1>5

\* Every step keeps the invariant.
LEMMA NextKeeps == HistoryInv /\ [Next]_vars => HistoryInv'
<1> SUFFICES ASSUME HistoryInv, [Next]_vars PROVE HistoryInv'
    OBVIOUS
<1> USE HistoryConstants, DaysAreInt DEF HistoryInv
<1>1. CASE Tick
    BY <1>1, TickKeeps
<1>2. ASSUME NEW u \in Updates, Fetch(u) PROVE HistoryInv'
    <2>1. 0..today \subseteq Days
        BY DEF TypeOK, Days
    <2> QED
        BY <1>2, <2>1 DEF Fetch, TypeOK, RetentionInv, MarginInv, LookupInv, LookupMissesNothing,
                   readVars, lookupVars
<1>3. ASSUME NEW u \in Updates, upsertFundDailySnapshot(u) PROVE HistoryInv'
    BY <1>3, UpsertKeeps
<1>4. ASSUME NEW c \in Cleanups, CutoffDate(c) PROVE HistoryInv'
    <2>1. today \in Int
        BY DEF TypeOK
    <2> QED
        BY <1>4, <2>1 DEF CutoffDate, TypeOK, RetentionInv, MarginInv, LookupInv,
                          LookupMissesNothing, readVars, lookupVars
<1>5. ASSUME NEW c \in Cleanups, DeleteMany(c) PROVE HistoryInv'
    BY <1>5, DeleteKeeps
<1>6. ASSUME NEW r \in Readers, FindRange(r) PROVE HistoryInv'
    <2>1. {d \in snaps : d >= from[r]} \in SUBSET Days
        BY DEF TypeOK
    <2>2. TypeOK'
        BY <1>6, <2>1 DEF FindRange, TypeOK, updateVars, lookupVars
    <2> QED
        BY <1>6, <2>2 DEF FindRange, TypeOK, RetentionInv, MarginInv, LookupInv,
                          LookupMissesNothing, updateVars, lookupVars
<1>7. ASSUME NEW r \in Readers, NEW days \in Ranges, AskRange(r, days) PROVE HistoryInv'
    BY <1>7, AskRangeKeeps
<1>8. ASSUME NEW l \in Lookups,
             FindBefore(l) \/ FindAfter(l) \/ EndLookup(l) \/ \E day \in Days : AskPurchase(l, day)
      PROVE  HistoryInv'
    BY <1>8, LookupKeeps
<1>9. CASE UNCHANGED vars
    BY <1>9 DEF TypeOK, RetentionInv, MarginInv, LookupInv, LookupMissesNothing, vars,
                updateVars, readVars, lookupVars
<1> QED
    BY <1>1, <1>2, <1>3, <1>4, <1>5, <1>6, <1>7, <1>8, <1>9 DEF Next

\* The days and the lookups are as they should be in every reachable state:
\* a purchase lookup passes over no snapshot that is there all the time.
THEOREM LookupsWhole == Spec => [](TypeOK /\ LookupMissesNothing)
<1>1. HistoryInv => TypeOK /\ LookupMissesNothing
    BY DEF HistoryInv, LookupInv
<1> QED
    BY <1>1, HistoryInvInitial, NextKeeps, PTL DEF Spec

\* A range is answered from what is in the collection, and nothing in it was
\* deleted.
LEMMA AnswersAreWhole ==
    ASSUME HistoryInv, [Next]_vars, NEW r \in Readers,
           points'[r] # points[r], points'[r] # None
    PROVE  points'[r] = {d \in saved : d >= from[r]}
<1> USE HistoryConstants, DaysAreInt DEF HistoryInv
<1>1. PICK q \in Readers : FindRange(q) \/ \E days \in Ranges : AskRange(q, days)
    BY DEF Next, vars, Tick, Fetch, upsertFundDailySnapshot, CutoffDate, DeleteMany,
           FindBefore, FindAfter, EndLookup, AskPurchase, readVars
<1>2. r = q /\ FindRange(q)
    BY <1>1 DEF FindRange, AskRange, TypeOK
<1>3. points'[r] = {d \in snaps : d >= from[r]} /\ started[r] # None
    BY <1>2 DEF FindRange, TypeOK
<1>4. \A d \in saved \ snaps : ~(d >= from[r])
    <2>1. from[r] \in Int /\ from[r] >= today - Retention /\ today - Retention \in Int
        BY <1>3 DEF RetentionInv, TypeOK
    <2>2. \A d \in saved \ snaps : d \in Int /\ d < today - Retention
        BY DEF RetentionInv, TypeOK
    <2> QED
        BY <2>1, <2>2
<1> QED
    BY <1>3, <1>4 DEF TypeOK

\* No range lacks a day that was ever saved, although cleanups delete days at
\* any time, and midnight passes.
THEOREM RangesWhole == Spec => RangeIsWhole
<1>1. HistoryInv /\ [Next]_vars =>
          [\A r \in Readers : points'[r] # points[r] /\ points'[r] # None =>
              points'[r] = {d \in saved : d >= from[r]}]_vars
    BY AnswersAreWhole
<1> QED
    BY <1>1, HistoryInvInitial, NextKeeps, PTL DEF Spec, RangeIsWhole
=============================================================================
