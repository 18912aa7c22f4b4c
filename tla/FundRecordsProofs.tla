------------------------- MODULE FundRecordsProofs -------------------------
(***************************************************************************)
(* The document of a fund keeps what its writers add, for any number of    *)
(* update workers, imports and maintenance requests in any interleaving.   *)
(***************************************************************************)
EXTENDS FundRecords, TLAPS

\* An import writes a quotation it fetched, and then has a fund to add metadata
\* to.
ImportInv ==
    \A i \in Imports :
        /\ ipc[i] = "upsert" => ifund[i] # None
        /\ ipc[i] \in {"metadata", "update"} => fund # NoFund

RecordInv == TypeOK /\ ImportInv /\ ResponsesAreTrue

\* Nothing is there and nobody has answered.
LEMMA RecordInvInitial == Init => RecordInv
BY RecordConstants
   DEF Init, RecordInv, TypeOK, ImportInv, ResponsesAreTrue, NoAnswer, Quotations

\* Both writes leave a fund with at least the fields it had.
LEMMA WritesKeepFields ==
    ASSUME TypeOK
    PROVE  /\ \A q \in Quotations : upsertFundBasicInfo(q) =>
                 /\ fund' \in Fund /\ fund' # NoFund
                 /\ IF fund = NoFund THEN fund'.extra = {} ELSE fund'.extra = fund.extra
           /\ \A fields \in SUBSET Extra : SetFields(fields) =>
                 /\ fund' \in Fund \cup {NoFund}
                 /\ IF fund = NoFund THEN fund' = NoFund
                    ELSE fund' # NoFund /\ fund'.extra = fund.extra \cup fields
<1>1. \A f \in Fund : f # NoFund
    BY RecordConstants DEF Fund, Quotations
<1>2. ASSUME NEW q \in Quotations, upsertFundBasicInfo(q)
      PROVE  /\ fund' \in Fund /\ fund' # NoFund
             /\ IF fund = NoFund THEN fund'.extra = {} ELSE fund'.extra = fund.extra
    BY <1>1, <1>2 DEF upsertFundBasicInfo, TypeOK, Fund
<1>3. ASSUME NEW fields \in SUBSET Extra, SetFields(fields)
      PROVE  /\ fund' \in Fund \cup {NoFund}
             /\ IF fund = NoFund THEN fund' = NoFund
                ELSE fund' # NoFund /\ fund'.extra = fund.extra \cup fields
    <2>1. CASE fund = NoFund
        BY <1>3, <2>1 DEF SetFields, Matched, TypeOK
    <2>2. CASE fund # NoFund
        <3>1. fund \in Fund /\ fund' = [fund EXCEPT !.extra = @ \cup fields]
            BY <1>3, <2>2 DEF SetFields, Matched, TypeOK
        <3>2. fund' \in Fund /\ fund'.extra = fund.extra \cup fields
            BY <3>1 DEF Fund
        <3> QED
            BY <1>1, <2>2, <3>2
    <2> QED
        BY <2>1, <2>2
<1> QED
    BY <1>2, <1>3

\* What a step does to the document: it keeps it, and the fields in it, and
\* creates it without any.
Grows ==
    /\ fund' \in Fund \cup {NoFund}
    /\ fund # NoFund => fund' # NoFund /\ fund.extra \subseteq fund'.extra
    /\ fund = NoFund /\ fund' # NoFund => fund'.extra = {}

\* Every step of every writer is such a step.
LEMMA NextGrows == RecordInv /\ [Next]_vars => Grows
<1> SUFFICES ASSUME RecordInv, [Next]_vars PROVE Grows
    OBVIOUS
<1> USE DEF RecordInv
<1>1. CASE UNCHANGED fund
    BY <1>1 DEF Grows, TypeOK
<1>2. CASE \E q \in Quotations : upsertFundBasicInfo(q)
    BY <1>2, WritesKeepFields DEF Grows
<1>3. CASE \E fields \in SUBSET Extra : SetFields(fields)
    BY <1>3, WritesKeepFields DEF Grows
<1>4. ASSUME NEW u \in Updates, UpsertUpdate(u)
      PROVE  UNCHANGED fund \/ \E q \in Quotations : upsertFundBasicInfo(q)
    BY <1>4 DEF UpsertUpdate, TypeOK
<1>5. ASSUME NEW i \in Imports, UpsertImport(i)
      PROVE  UNCHANGED fund \/ \E q \in Quotations : upsertFundBasicInfo(q)
    BY <1>5 DEF UpsertImport, ImportInv, TypeOK
<1>6. ASSUME NEW i \in Imports, UpdateImportMetadata(i)
      PROVE  UNCHANGED fund \/ \E fields \in SUBSET Extra : SetFields(fields)
    BY <1>6 DEF UpdateImportMetadata, TypeOK, Extra
<1>7. ASSUME NEW p \in Patches, UpdatePatch(p)
      PROVE  UNCHANGED fund \/ \E fields \in SUBSET Extra : SetFields(fields)
    BY <1>7 DEF UpdatePatch, TypeOK
<1>8. CASE UNCHANGED vars
    BY <1>1, <1>8 DEF vars
<1> QED
    BY <1>1, <1>2, <1>3, <1>4, <1>5, <1>6, <1>7, <1>8
       DEF Next, Publish, FetchUpdate, FindFund, FetchImport, FetchImportMetadata, FetchPatch
\* A response that was true stays so while the document only grows.
LEMMA ResponsesStay ==
    ASSUME RecordInv, Grows
    PROVE  /\ \A i \in Imports :
                 ianswer'[i] = ianswer[i] =>
                     (ianswer'[i].status \in {"existing", "success", "partial_success"} =>
                         fund' # NoFund /\ ianswer'[i].metadata \subseteq fund'.extra)
           /\ \A p \in Patches :
                 ppc'[p] = ppc[p] /\ pfields'[p] = pfields[p] =>
                     (ppc'[p] = "enriched" =>
                         fund' # NoFund /\ pfields'[p] \subseteq fund'.extra)
BY DEF RecordInv, ResponsesAreTrue, Grows

\* The steps of an import.
ImportStep(i) ==
    \/ FindFund(i) \/ FetchImport(i) \/ UpsertImport(i)
    \/ FetchImportMetadata(i) \/ UpdateImportMetadata(i)

\* A step of an import changes nothing of the others.
LEMMA ImportAlone ==
    ASSUME NEW i \in Imports, TypeOK, ImportStep(i)
    PROVE  /\ UNCHANGED <<site, ufund, patchVars>>
           /\ \A j \in Imports \ {i} : ianswer'[j] = ianswer[j] /\ ipc'[j] = ipc[j]
                                        /\ ifund'[j] = ifund[j]
BY DEF TypeOK, ImportStep, FindFund, FetchImport, UpsertImport, FetchImportMetadata,
       UpdateImportMetadata, Respond

\* A step of an import keeps the types.
LEMMA ImportTypes ==
    ASSUME NEW i \in Imports, RecordInv, Grows, ImportStep(i)
    PROVE  TypeOK'
<1> USE DEF RecordInv, ImportStep
<1>1. failures' \in 0..MaxFailures
    BY RecordConstants DEF TypeOK, FindFund, FetchImport, UpsertImport, FetchImportMetadata,
                           UpdateImportMetadata, Fail
<1>2. ipc' \in [Imports -> {"find", "fetch", "upsert", "metadata", "update", "done"}]
    BY DEF TypeOK, FindFund, FetchImport, UpsertImport, FetchImportMetadata,
           UpdateImportMetadata, Respond
<1>3. ifund' \in [Imports -> Quotations \cup {None}]
    BY DEF TypeOK, FindFund, FetchImport, fetchFundBasicInfo, UpsertImport, FetchImportMetadata,
           UpdateImportMetadata
<1>4. imeta' \in [Imports -> SUBSET Metadata]
    BY DEF TypeOK, FindFund, FetchImport, UpsertImport, FetchImportMetadata, fetchFundMetadata,
           UpdateImportMetadata
<1>5. \/ UNCHANGED ianswer
      \/ \E status \in {"failed", "existing", "success", "partial_success"} :
            \E metadata \in SUBSET Metadata : Respond(i, status, metadata)
    BY DEF TypeOK, FindFund, FetchImport, UpsertImport, FetchImportMetadata, UpdateImportMetadata
<1>6. ianswer' \in [Imports ->
          [status : {"none", "failed", "existing", "success", "partial_success"},
           metadata : SUBSET Metadata]]
    BY <1>5 DEF TypeOK, Respond
<1>7. fund' \in Fund \cup {NoFund}
    BY DEF Grows
<1> QED
    BY <1>1, <1>2, <1>3, <1>4, <1>6, <1>7, ImportAlone DEF TypeOK, patchVars

\* An import gets past its upsert only with a fund, which stays.
LEMMA ImportReady ==
    ASSUME NEW i \in Imports, RecordInv, Grows, ImportStep(i)
    PROVE  ImportInv'
<1> USE DEF RecordInv
<1>1. /\ ipc'[i] = "upsert" => ifund'[i] # None
      /\ ipc'[i] \in {"metadata", "update"} => fund' # NoFund
    <2>1. CASE FindFund(i)
        BY <2>1 DEF FindFund, Respond, TypeOK
    <2>2. CASE FetchImport(i)
        BY <2>2, RecordConstants DEF FetchImport, fetchFundBasicInfo, Respond, TypeOK, Quotations
    <2>3. CASE UpsertImport(i)
        <3>1. ifund[i] \in Quotations
            BY <2>3 DEF UpsertImport, ImportInv, TypeOK
        <3>2. ipc'[i] = "metadata" => fund' # NoFund
            BY <2>3, <3>1, WritesKeepFields DEF UpsertImport, Respond, TypeOK
        <3>3. ipc'[i] \in {"metadata", "done"}
            BY <2>3 DEF UpsertImport, Respond, TypeOK
        <3> QED
            BY <3>2, <3>3
    <2>4. CASE FetchImportMetadata(i)
        BY <2>4 DEF FetchImportMetadata, Respond, TypeOK, ImportInv, Grows
    <2>5. CASE UpdateImportMetadata(i)
        BY <2>5 DEF UpdateImportMetadata, Respond, TypeOK
    <2> QED
        BY <2>1, <2>2, <2>3, <2>4, <2>5 DEF ImportStep
<1> QED
    BY <1>1, ImportAlone DEF ImportInv, Grows

\* An import answers "failed", or what the document has.
LEMMA ImportAnswers ==
    ASSUME NEW i \in Imports, RecordInv, Grows, ImportStep(i)
    PROVE  ResponsesAreTrue'
<1> USE DEF RecordInv
<1> DEFINE Truthful == ianswer'[i].status \in {"existing", "success", "partial_success"} =>
                       fund' # NoFund /\ ianswer'[i].metadata \subseteq fund'.extra
<1>1. CASE UNCHANGED ianswer
    BY <1>1, ImportAlone, ResponsesStay DEF ResponsesAreTrue, patchVars
<1>2. ASSUME NEW status, NEW metadata, Respond(i, status, metadata),
             status = "failed" \/ (fund' # NoFund /\ metadata \subseteq fund'.extra)
      PROVE  ResponsesAreTrue'
    <2>1. Truthful
        BY <1>2 DEF Respond, TypeOK
    <2> QED
        BY <2>1, ImportAlone, ResponsesStay DEF ResponsesAreTrue, patchVars
<1>3. CASE FindFund(i)
    BY <1>1, <1>2, <1>3 DEF FindFund
<1>4. CASE FetchImport(i)
    BY <1>1, <1>2, <1>4 DEF FetchImport
<1>5. CASE UpsertImport(i)
    BY <1>1, <1>2, <1>5 DEF UpsertImport
<1>6. CASE FetchImportMetadata(i)
    BY <1>1, <1>2, <1>6 DEF FetchImportMetadata, ImportInv, Grows
<1>7. CASE UpdateImportMetadata(i)
    <2>1. fund # NoFund /\ fund' # NoFund /\ imeta[i] \in SUBSET Extra
        BY <1>7 DEF UpdateImportMetadata, ImportInv, Grows, TypeOK, Extra
    <2>2. SetFields(imeta[i]) => imeta[i] \subseteq fund'.extra
        BY <2>1, WritesKeepFields
    <2> QED
        BY <1>1, <1>2, <1>7, <2>1, <2>2 DEF UpdateImportMetadata
<1> QED
    BY <1>3, <1>4, <1>5, <1>6, <1>7 DEF ImportStep

\* A maintenance request counts the fund only when it had one to write to.
LEMMA PatchKeeps ==
    ASSUME NEW p \in Patches, RecordInv, Grows, FetchPatch(p) \/ UpdatePatch(p)
    PROVE  RecordInv'
<1> USE DEF RecordInv
<1>1. /\ \A q \in Patches \ {p} : ppc'[q] = ppc[q] /\ pfields'[q] = pfields[q]
      /\ UNCHANGED <<site, ufund, importVars>>
    BY DEF FetchPatch, UpdatePatch, TypeOK
<1>2. TypeOK'
    <2>1. failures' \in 0..MaxFailures
        BY RecordConstants DEF TypeOK, FetchPatch, UpdatePatch, Fail
    <2>2. ppc' \in [Patches -> {"fetch", "update", "enriched", "skipped", "failed"}]
        BY DEF TypeOK, FetchPatch, UpdatePatch
    <2>3. FetchedBy(p) \subseteq SUBSET Extra
        BY DEF FetchedBy, fetchFundMetadata, fetchFundPerformance, Extra
    <2>4. pfields' \in [Patches -> SUBSET Extra]
        BY <2>3 DEF TypeOK, FetchPatch, UpdatePatch
    <2> QED
        BY <1>1, <2>1, <2>2, <2>4 DEF TypeOK, Grows, importVars
<1>3. ImportInv'
    BY <1>1 DEF ImportInv, Grows, importVars
<1>4. ppc'[p] = "enriched" => fund' # NoFund /\ pfields'[p] \subseteq fund'.extra
    <2>1. CASE FetchPatch(p)
        BY <2>1 DEF FetchPatch, TypeOK
    <2>2. CASE UpdatePatch(p)
        <3>1. pfields'[p] = pfields[p] /\ pfields[p] \in SUBSET Extra
            BY <2>2 DEF UpdatePatch, TypeOK
        <3>2. ppc'[p] = "enriched" => fund # NoFund /\ SetFields(pfields[p])
            BY <2>2 DEF UpdatePatch, Matched, TypeOK
        <3> QED
            BY <3>1, <3>2, WritesKeepFields
    <2> QED
        BY <2>1, <2>2
<1>5. ResponsesAreTrue'
    BY <1>1, <1>4, ResponsesStay DEF ResponsesAreTrue, importVars
<1> QED
    BY <1>2, <1>3, <1>5

\* Every step keeps the invariant.
LEMMA NextKeeps == RecordInv /\ [Next]_vars => RecordInv'
<1> SUFFICES ASSUME RecordInv, [Next]_vars PROVE RecordInv'
    OBVIOUS
<1>1. Grows
    BY NextGrows
<1>2. ASSUME UNCHANGED <<importVars, patchVars>>, TypeOK' PROVE RecordInv'
    <2>1. ResponsesAreTrue'
        BY <1>1, <1>2, ResponsesStay DEF ResponsesAreTrue, importVars, patchVars
    <2>2. ImportInv'
        BY <1>1, <1>2 DEF RecordInv, ImportInv, Grows, importVars
    <2> QED
        BY <1>2, <2>1, <2>2 DEF RecordInv
<1>3. CASE Publish
    <2>1. site' \in Quotations
        BY <1>3, RecordConstants DEF RecordInv, TypeOK, Publish, Quotations
    <2> QED
        BY <1>2, <1>3, <2>1 DEF RecordInv, TypeOK, Publish, importVars, patchVars
<1>4. ASSUME NEW u \in Updates, FetchUpdate(u) PROVE RecordInv'
    BY <1>2, <1>4 DEF RecordInv, TypeOK, FetchUpdate, fetchFundBasicInfo, importVars, patchVars
<1>5. ASSUME NEW u \in Updates, UpsertUpdate(u) PROVE RecordInv'
    <2>1. failures' \in 0..MaxFailures
        BY <1>5, RecordConstants DEF RecordInv, TypeOK, UpsertUpdate, Fail
    <2> QED
        BY <1>1, <1>2, <1>5, <2>1
           DEF RecordInv, TypeOK, UpsertUpdate, Grows, importVars, patchVars
<1>6. ASSUME NEW i \in Imports, ImportStep(i) PROVE RecordInv'
    BY <1>1, <1>6, ImportTypes, ImportReady, ImportAnswers DEF RecordInv
<1>7. ASSUME NEW p \in Patches, FetchPatch(p) \/ UpdatePatch(p) PROVE RecordInv'
    BY <1>1, <1>7, PatchKeeps
<1>8. CASE UNCHANGED vars
    BY <1>2, <1>8 DEF RecordInv, TypeOK, vars, importVars, patchVars
<1> QED
    BY <1>3, <1>4, <1>5, <1>6, <1>7, <1>8 DEF Next, ImportStep

\* No response claims more than the document has, however late the answer is
\* read and whoever writes in between.
THEOREM ResponsesTrue == Spec => [](TypeOK /\ ResponsesAreTrue)
<1>1. RecordInv => TypeOK /\ ResponsesAreTrue
    BY DEF RecordInv
<1> QED
    BY <1>1, RecordInvInitial, NextKeeps, PTL DEF Spec

\* What a write may do to the fields of a fund.
LEMMA FieldsGrow == Spec => FieldsStay /\ NoPartialFund
<1>1. RecordInv /\ [Next]_vars =>
          /\ [fund # NoFund => fund' # NoFund /\ fund.extra \subseteq fund'.extra]_vars
          /\ [fund = NoFund /\ fund' # NoFund => fund'.extra = {}]_vars
    BY NextGrows DEF Grows
<1> QED
    BY <1>1, RecordInvInitial, NextKeeps, PTL DEF Spec, FieldsStay, NoPartialFund

\* Nobody takes a field away that another writer has added.
THEOREM FieldsKept == Spec => FieldsStay
BY FieldsGrow

\* Nobody creates a fund that has only the fields of a patch.
THEOREM FundsAreWhole == Spec => NoPartialFund
BY FieldsGrow
=============================================================================
