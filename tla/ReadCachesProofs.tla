-------------------------- MODULE ReadCachesProofs --------------------------
(***************************************************************************)
(* The staleness of the read caches is bounded and explained, for any      *)
(* number of readers and writers and any TTLs.                             *)
(***************************************************************************)
EXTENDS ReadCaches, TLAPS

\* The inductive form: an entry's lifetime bounds its age, and a reader's value
\* was current when it was read.
EntryAges ==
    /\ \A k \in Keys : entry[k] # None =>
          /\ entry[k] <= db[Source(k)]
          /\ retired[Source(k)][entry[k]] + left[k] <= TTL(k) + FillLimit
    /\ \A r \in Readers : rpc[r] = "fill" =>
          /\ rval[r] <= db[Source(rkey[r])]
          /\ retired[Source(rkey[r])][rval[r]] <= rage[r]
          /\ rage[r] <= FillLimit
    /\ \A s \in Sources : \A v \in Versions : v >= db[s] => retired[s][v] = 0

\* The excuses name keys.
LEMMA ExcuseTypes ==
    ASSUME excused \subseteq Keys
    PROVE  /\ \A k \in Keys : Excuse(k) => excused' \subseteq Keys
           /\ \A r \in Readers : rkey[r] \in Keys /\ FillExcuse(r) => excused' \subseteq Keys
           /\ \A s \in Sources : Drops(s) \in Keys
BY DEF Excuse, FillExcuse, Drops, Keys

\* Every cache has a TTL of some ticks and a source.
LEMMA KeyTypes ==
    ASSUME NEW k \in Keys
    PROVE  TTL(k) \in Nat /\ Source(k) \in Sources
BY CacheConstants DEF Keys, TTL, Source, Sources

\* The inductive invariant: what is stored is well typed and no older than the
\* time it still has to live allows.
CacheInv == TypeOK /\ EntryAges

\* The caches start empty.
LEMMA CacheInvInitial == Init => CacheInv
BY CacheConstants DEF Init, CacheInv, TypeOK, EntryAges, Versions, Keys, Sources

\* Time ages a superseded version and shortens the life of its entry alike.
LEMMA TickAges == CacheInv /\ Tick => CacheInv'
<1> SUFFICES ASSUME CacheInv, Tick PROVE CacheInv'
    OBVIOUS
<1> USE DEF CacheInv, TypeOK, EntryAges, Tick, writers
<1>1. \A s \in Sources : \A v \in Versions :
          /\ retired[s][v] \in Nat /\ retired'[s][v] \in Nat
          /\ retired'[s][v] <= retired[s][v] + 1
          /\ v >= db[s] => retired'[s][v] = retired[s][v]
    BY CacheConstants DEF Older, Versions
<1>2. TypeOK'
    BY <1>1 DEF Older
<1>3. \A k \in Keys : entry'[k] # None =>
          /\ entry'[k] <= db'[Source(k)]
          /\ retired'[Source(k)][entry'[k]] + left'[k] <= TTL(k) + FillLimit
    <2> SUFFICES ASSUME NEW k \in Keys, entry'[k] # None
                 PROVE  /\ entry'[k] <= db'[Source(k)]
                        /\ retired'[Source(k)][entry'[k]] + left'[k] <= TTL(k) + FillLimit
        OBVIOUS
    <2>1. entry'[k] = entry[k] /\ left'[k] = left[k] - 1 /\ entry[k] \in Versions
        OBVIOUS
    <2>2. retired'[Source(k)][entry[k]] <= retired[Source(k)][entry[k]] + 1
        BY <1>1, <2>1, KeyTypes
    <2> QED
        BY <1>1, <2>1, <2>2, KeyTypes, CacheConstants
<1>4. \A r \in Readers : rpc'[r] = "fill" =>
          /\ rval'[r] <= db'[Source(rkey'[r])]
          /\ retired'[Source(rkey'[r])][rval'[r]] <= rage'[r]
          /\ rage'[r] <= FillLimit
    <2> SUFFICES ASSUME NEW r \in Readers, rpc'[r] = "fill"
                 PROVE  /\ rval'[r] <= db'[Source(rkey'[r])]
                        /\ retired'[Source(rkey'[r])][rval'[r]] <= rage'[r]
                        /\ rage'[r] <= FillLimit
        OBVIOUS
    <2>1. rage'[r] = rage[r] + 1 /\ rage[r] < FillLimit /\ rage[r] \in Nat
        OBVIOUS
    <2>2. rkey'[r] \in Keys /\ rval'[r] \in Versions /\ rkey' = rkey /\ rval' = rval
        OBVIOUS
    <2>3. retired'[Source(rkey[r])][rval[r]] <= retired[Source(rkey[r])][rval[r]] + 1
        BY <1>1, <2>2, KeyTypes
    <2> QED
        BY <1>1, <2>1, <2>2, <2>3, KeyTypes, CacheConstants
<1>5. \A s \in Sources : \A v \in Versions : v >= db'[s] => retired'[s][v] = 0
    BY <1>1
<1> QED
    BY <1>2, <1>3, <1>4, <1>5

\* A value a reader sets was superseded, if it was, no longer ago than the fill
\* took.
LEMMA FillAges == ASSUME NEW r \in Readers, CacheInv, Fill(r) PROVE CacheInv'
<1> USE DEF CacheInv, TypeOK, EntryAges, Fill, writers
<1> DEFINE k == rkey[r]
<1>1. k \in Keys /\ rval[r] \in Versions
    OBVIOUS
<1>2. TypeOK'
  <2>1. entry' \in [Keys -> Versions \cup {None}]
    BY <1>1 DEF Set
  <2>2. left' \in [Keys -> Nat]
    <3>1. TTL(k) \in Nat
      BY <1>1, KeyTypes
    <3> HIDE DEF EntryAges
    <3> QED BY <3>1 DEF Set
  <2>3. rpc' \in [Readers -> {"idle", "read", "fill"}] /\ rage' \in [Readers -> Nat]
    OBVIOUS
  <2>4. excused' \subseteq Keys
    BY <1>1, ExcuseTypes
  <2> QED BY <2>1, <2>2, <2>3, <2>4
<1>3. CASE Set(k, rval[r])
    <2>1. /\ rval[r] <= db[Source(k)]
          /\ retired[Source(k)][rval[r]] <= FillLimit
        <3>1. retired[Source(k)][rval[r]] \in Nat /\ rage[r] \in Nat
            BY <1>1, KeyTypes
        <3> QED
            BY <3>1, CacheConstants
    <2>2. entry'[k] = rval[r] /\ left'[k] = TTL(k)
        BY <1>1, <1>3 DEF Set
    <2>3. retired'[Source(k)][entry'[k]] + left'[k] <= TTL(k) + FillLimit
        BY <1>1, <2>1, <2>2, KeyTypes, CacheConstants
    <2>4. \A j \in Keys : j # k => entry'[j] = entry[j] /\ left'[j] = left[j]
        BY <1>3 DEF Set
    <2>5. \A j \in Keys : entry'[j] # None =>
              /\ entry'[j] <= db'[Source(j)]
              /\ retired'[Source(j)][entry'[j]] + left'[j] <= TTL(j) + FillLimit
        BY <2>1, <2>2, <2>3, <2>4
    <2> QED
        BY <1>2, <2>5
<1>4. CASE UNCHANGED <<entry, left>>
    BY <1>2, <1>4
<1> QED
    BY <1>3, <1>4

\* What is read is current.
LEMMA ReadAges == ASSUME NEW r \in Readers, CacheInv, ReadMongo(r) PROVE CacheInv'
<1> USE DEF CacheInv, TypeOK, EntryAges, ReadMongo, writers
<1>1. rkey[r] \in Keys /\ db[Source(rkey[r])] \in Versions
    BY KeyTypes
<1>2. TypeOK'
    BY <1>1
<1>3. retired[Source(rkey[r])][db[Source(rkey[r])]] = 0
    BY <1>1, KeyTypes DEF Versions
<1>4. \A q \in Readers : rpc'[q] = "fill" =>
          /\ rval'[q] <= db'[Source(rkey'[q])]
          /\ retired'[Source(rkey'[q])][rval'[q]] <= rage'[q]
          /\ rage'[q] <= FillLimit
    <2> SUFFICES ASSUME NEW q \in Readers, rpc'[q] = "fill"
                 PROVE  /\ rval'[q] <= db'[Source(rkey'[q])]
                        /\ retired'[Source(rkey'[q])][rval'[q]] <= rage'[q]
                        /\ rage'[q] <= FillLimit
        OBVIOUS
    <2>1. CASE q = r
        <3>1. rval'[q] = db[Source(rkey[r])] /\ rage'[q] = 0
            BY <2>1
        <3> QED
            BY <2>1, <3>1, <1>1, <1>3, CacheConstants DEF Versions
    <2>2. CASE q # r
        BY <2>2
    <2> QED
        BY <2>1, <2>2
<1> QED
    BY <1>2, <1>4

\* A write makes the current version one that was just superseded.
LEMMA AdvanceAges ==
    ASSUME NEW s \in Sources, CacheInv, Advance(s),
           UNCHANGED <<retired, entry, left, readers>>, excused' \subseteq Keys,
           wpc' \in [Writers -> {"idle", "delete"}], wsrc' \in [Writers -> Sources],
           expired' \in [Writers -> BOOLEAN]
    PROVE  CacheInv'
<1> USE DEF CacheInv, TypeOK, EntryAges, Advance, readers
<1>0. db' \in [Sources -> Versions]
    <2>1. db[s] + 1 \in Versions
        BY CacheConstants DEF Versions
    <2> QED
        BY <2>1
<1>1. TypeOK'
    BY <1>0
<1>2. \A t \in Sources : db[t] <= db'[t] /\ db[t] \in Versions /\ db'[t] \in Versions
    BY <1>1 DEF Versions
<1>3. \A k \in Keys : entry[k] # None => entry[k] <= db'[Source(k)]
    BY <1>2, KeyTypes DEF Versions
<1>4. \A r \in Readers : rpc[r] = "fill" => rval[r] <= db'[Source(rkey[r])]
    BY <1>2, KeyTypes DEF Versions
<1>5. \A t \in Sources : \A v \in Versions : v >= db'[t] => retired[t][v] = 0
    BY <1>2 DEF Versions
<1> QED
    BY <1>1, <1>3, <1>4, <1>5

\* A delete, done or failed, only removes an entry.
LEMMA InvalidateAges == ASSUME NEW w \in Writers, CacheInv, Invalidate(w) PROVE CacheInv'
<1> USE DEF CacheInv, TypeOK, EntryAges, Invalidate, readers
<1>1. TypeOK'
    BY ExcuseTypes DEF Del
<1> QED
    BY <1>1 DEF Del

\* Every step keeps the invariant.
LEMMA CacheInvStep == CacheInv /\ [Next]_vars => CacheInv'
<1> SUFFICES ASSUME CacheInv, [Next]_vars PROVE CacheInv'
    OBVIOUS
<1>1. CASE Tick
    BY <1>1, TickAges
<1>2. CASE WriteOnly
    <2>1. "fund" \in Sources
        BY DEF Sources
    <2>2. excused' \subseteq Keys
        BY <1>2 DEF WriteOnly, CacheInv, TypeOK, Keys
    <2> QED
        BY <1>2, <2>1, <2>2, AdvanceAges DEF WriteOnly, writers, CacheInv, TypeOK
<1>3. ASSUME NEW r \in Readers, ReadMongo(r) PROVE CacheInv'
    BY <1>3, ReadAges
<1>4. ASSUME NEW r \in Readers, Fill(r) PROVE CacheInv'
    BY <1>4, FillAges
<1>5. ASSUME NEW r \in Readers, ReadFails(r) PROVE CacheInv'
    BY <1>5 DEF ReadFails, CacheInv, TypeOK, EntryAges, writers
<1>6. ASSUME NEW r \in Readers, NEW k \in Keys, Miss(r, k) PROVE CacheInv'
    BY <1>6 DEF Miss, CacheInv, TypeOK, EntryAges, writers
<1>7. ASSUME NEW w \in Writers, ContextDone(w) PROVE CacheInv'
    BY <1>7 DEF ContextDone, CacheInv, TypeOK, EntryAges, readers
<1>8. ASSUME NEW w \in Writers, Invalidate(w) PROVE CacheInv'
    BY <1>8, InvalidateAges
<1>9. ASSUME NEW w \in Writers, ReadBackFails(w) PROVE CacheInv'
    <2>1. excused' \subseteq Keys
        BY <1>9, ExcuseTypes DEF ReadBackFails, CacheInv, TypeOK, Keys
    <2> QED BY <1>9, <2>1 DEF ReadBackFails, CacheInv, TypeOK, EntryAges, readers
<1>10. ASSUME NEW w \in Writers, NEW s \in Sources, Write(w, s) PROVE CacheInv'
    BY <1>10, AdvanceAges DEF Write, CacheInv, TypeOK
<1>11. CASE UNCHANGED vars
    BY <1>11 DEF vars, readers, writers, CacheInv, TypeOK, EntryAges
<1> QED
    BY <1>1, <1>2, <1>3, <1>4, <1>5, <1>6, <1>7, <1>8, <1>9, <1>10, <1>11 DEF Next

\* What the caches hold is well typed, and ages as EntryAges says.
THEOREM CachesAge == Spec => [](TypeOK /\ EntryAges)
<1>1. Init => CacheInv
    BY CacheInvInitial
<1>2. CacheInv /\ [Next]_vars => CacheInv'
    BY CacheInvStep
<1>3. CacheInv => TypeOK /\ EntryAges
    BY DEF CacheInv
<1> QED
    BY <1>1, <1>2, <1>3, PTL DEF Spec

\* What a hit serves was current at most the key's TTL and one slow fill ago,
\* whatever the interleaving of fills, writes and failed deletes.
THEOREM CachesBounded == Spec => []StalenessBounded
<1>1. TypeOK /\ EntryAges => StalenessBounded
    <2> SUFFICES ASSUME TypeOK, EntryAges, NEW k \in Keys, entry[k] # None
                 PROVE  retired[Source(k)][entry[k]] <= TTL(k) + FillLimit
        BY DEF StalenessBounded
    <2>1. retired[Source(k)][entry[k]] + left[k] <= TTL(k) + FillLimit
        BY DEF EntryAges
    <2>2. left[k] \in Nat /\ retired[Source(k)][entry[k]] \in Nat
        BY KeyTypes DEF TypeOK
    <2> QED
        BY <2>1, <2>2, KeyTypes, CacheConstants
<1> QED
    BY <1>1, CachesAge, PTL

-----------------------------------------------------------------------------
\* Every step keeps the explanations.  A write is pending until its delete, a
\* delete that is missed and a fill that comes late excuse what they leave.
LEMMA ExplainedStep ==
    ASSUME CacheInv, StaleIsExplained, [Next]_vars
    PROVE  StaleIsExplained'
<1> DEFINE Pending(k) == \E w \in Writers : wpc[w] = "delete" /\ Drops(wsrc[w]) = k
<1> SUFFICES ASSUME NEW k \in {"detail", "watchlist"}, Stale(k)'
             PROVE  k \in excused' \/ Pending(k)'
    BY DEF StaleIsExplained
<1> USE DEF CacheInv, TypeOK
<1>1. k \in Keys /\ Source(k) \in Sources /\ \A s \in Sources : Drops(s) = k => Source(k) = s
    BY DEF Keys, Source, Sources, Drops
<1>2. Stale(k) => k \in excused \/ Pending(k)
    BY DEF StaleIsExplained
<1>3. CASE Tick
    <2>1. left[k] > 1 /\ Stale(k)
        BY <1>1, <1>3 DEF Tick, Stale
    <2> QED BY <1>1, <1>2, <1>3, <2>1 DEF Tick, writers
<1>4. CASE WriteOnly
    <2>1. Stale(k) \/ (k = "detail" /\ entry["detail"] # None)
        BY <1>1, <1>4 DEF WriteOnly, Advance, Stale, Source
    <2>2. excused \subseteq excused' /\ (entry["detail"] # None => "detail" \in excused')
          /\ UNCHANGED <<wpc, wsrc>>
        BY <1>4 DEF WriteOnly, writers
    <2> QED BY <1>2, <2>1, <2>2
<1>5. ASSUME NEW r \in Readers, Fill(r) PROVE k \in excused' \/ Pending(k)'
    <2>1. CASE rkey[r] = k /\ Set(k, rval[r]) /\ FillExcuse(r)
        <3>1. entry'[k] = rval[r] /\ db' = db
            BY <1>1, <1>5, <2>1 DEF Fill, Set
        <3>2. rval[r] # db[Source(k)]
            BY <3>1 DEF Stale
        <3> QED BY <2>1, <3>2 DEF FillExcuse
    <2>2. CASE ~(rkey[r] = k /\ Set(k, rval[r]) /\ FillExcuse(r))
        <3>1. entry'[k] = entry[k] /\ db' = db /\ (k \in excused => k \in excused')
              /\ UNCHANGED <<wpc, wsrc>>
            BY <1>1, <1>5, <2>2 DEF Fill, Set, FillExcuse, writers
        <3> QED BY <1>2, <3>1 DEF Stale
    <2> QED BY <2>1, <2>2
<1>6. ASSUME NEW w \in Writers, NEW s \in Sources, Write(w, s)
      PROVE  k \in excused' \/ Pending(k)'
    <2>1. /\ entry' = entry /\ excused' = excused /\ wpc'[w] = "delete" /\ wsrc'[w] = s
          /\ \A v \in Writers : wpc[v] = "delete" => wpc'[v] = "delete" /\ wsrc'[v] = wsrc[v]
          /\ \A t \in Sources : t # s => db'[t] = db[t]
        BY <1>6 DEF Write, Advance
    <2>2. CASE s = Source(k)
        <3>1. Drops(s) = k
            BY <2>2 DEF Source, Drops
        <3> QED BY <2>1, <3>1
    <2>3. CASE s # Source(k)
        <3>1. Stale(k)
            BY <1>1, <2>1, <2>3 DEF Stale
        <3> QED BY <1>2, <2>1, <3>1
    <2> QED BY <2>2, <2>3
<1>7. ASSUME NEW w \in Writers, Invalidate(w) \/ ReadBackFails(w)
      PROVE  k \in excused' \/ Pending(k)'
    <2>1. db' = db /\ wpc[w] = "delete" /\ wsrc' = wsrc
          /\ \A v \in Writers : v # w => wpc'[v] = wpc[v]
        BY <1>7 DEF Invalidate, ReadBackFails
    <2>2. CASE Drops(wsrc[w]) = k
        <3>1. ~(Del(k) /\ excused' = excused \ {k})
            BY <1>1 DEF Del, Stale
        <3>2. Excuse(k) /\ entry' = entry
            BY <1>7, <2>2, <3>1 DEF Invalidate, ReadBackFails, Drops
        <3>3. Stale(k)
            BY <2>1, <3>2 DEF Stale
        <3> QED BY <3>2, <3>3 DEF Excuse
    <2>3. CASE Drops(wsrc[w]) # k
        <3>1. entry'[k] = entry[k] /\ (k \in excused => k \in excused')
            BY <1>1, <1>7, <2>3 DEF Invalidate, ReadBackFails, Del, Excuse, Drops
        <3>2. Stale(k)
            BY <2>1, <3>1 DEF Stale
        <3> QED BY <1>2, <2>1, <2>3, <3>1, <3>2
    <2> QED BY <2>2, <2>3
<1>8. CASE UNCHANGED <<db, entry, wpc, wsrc, excused>>
    BY <1>2, <1>8 DEF Stale
<1> QED BY <1>3, <1>4, <1>5, <1>6, <1>7, <1>8 DEF Next, Miss, ReadMongo, ReadFails, ContextDone,
      vars, writers

\* A cached detail or watchlist is older than MongoDB's only for a reason: a
\* pending, missed or never meant delete, or a fill that raced with a write.
THEOREM StaleEntriesAreExplained == Spec => []StaleIsExplained
<1>1. Init => CacheInv /\ StaleIsExplained
    <2>1. Init => StaleIsExplained
        BY DEF Init, StaleIsExplained, Stale, Keys
    <2> QED BY <2>1, CacheInvInitial
<1>2. CacheInv /\ StaleIsExplained /\ [Next]_vars => (CacheInv /\ StaleIsExplained)'
    BY CacheInvStep, ExplainedStep
<1> QED BY <1>1, <1>2, PTL DEF Spec
=============================================================================
