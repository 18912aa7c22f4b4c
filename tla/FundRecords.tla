---------------------------- MODULE FundRecords ----------------------------
(***************************************************************************)
(* The document of one fund in fund_data and everybody who writes it: the  *)
(* workers of update runs (internal/update/service.go), imports of users   *)
(* (import.go), and the maintenance requests that add metadata (enrich.go) *)
(* and growth figures (performance.go).  An update run holds the lock of   *)
(* the pipeline; the others take no lock.  Each fetches from the fund site *)
(* first and writes what it got afterwards.                                *)
(*                                                                         *)
(* basic is the number of the quotation the document shows: name, value,   *)
(* growth and dates are written together (and is_seed, which no Go code    *)
(* reads).  extra are the metadata and growth fields it has; a field of    *)
(* the site that is blank, zero or no number is not among those fetched.   *)
(* fund_code is taken to be unique, by the index of the archived backend.  *)
(***************************************************************************)
EXTENDS Integers

CONSTANTS
    Metadata,       \* fund_type, fund_company, fund_manager, fund_scale
    Performance,    \* week_growth ... three_year_growth
    Updates,        \* workers with the fund: the run's, a straggler's of the last
    Imports,        \* POST /api/funds/import
    Patches,        \* POST /api/funds/enrich and /api/funds/performance
    Enriches,       \* the enriches among them
    Newest,         \* bound on the quotations of the site
    MaxFailures,    \* bound on failed calls
    NoFund, None

Extra == Metadata \cup Performance

ASSUME RecordConstants ==
    /\ Newest \in Nat \ {0} /\ MaxFailures \in Nat
    /\ Enriches \subseteq Patches
    /\ NoFund \notin [basic : 1..Newest, extra : SUBSET Extra]
    /\ None \notin 1..Newest

VARIABLES
    site,       \* external: the quotation the fund site shows
    fund,       \* MongoDB: the document
    ufund,      \* the quotation an update is about to write
    ipc,        \* control of an import
    ifund,      \* the quotation it is about to write
    imeta,      \* the metadata it is about to write
    ianswer,    \* its response
    ppc,        \* control of a patch
    pfields,    \* the fields it is about to write
    failures

importVars == <<ipc, ifund, imeta, ianswer>>
patchVars == <<ppc, pfields>>
vars == <<site, fund, ufund, importVars, patchVars, failures>>

Quotations == 1..Newest
Fund == [basic : Quotations, extra : SUBSET Extra]
NoAnswer == [status |-> "none", metadata |-> {}]

TypeOK ==
    /\ site \in Quotations
    /\ fund \in Fund \cup {NoFund}
    /\ ufund \in [Updates -> Quotations \cup {None}]
    /\ ipc \in [Imports -> {"find", "fetch", "upsert", "metadata", "update", "done"}]
    /\ ifund \in [Imports -> Quotations \cup {None}]
    /\ imeta \in [Imports -> SUBSET Metadata]
    /\ ianswer \in [Imports ->
          [status : {"none", "failed", "existing", "success", "partial_success"},
           metadata : SUBSET Metadata]]
    /\ ppc \in [Patches -> {"fetch", "update", "enriched", "skipped", "failed"}]
    /\ pfields \in [Patches -> SUBSET Extra]
    /\ failures \in 0..MaxFailures

Init ==
    /\ site = 1 /\ fund = NoFund /\ failures = 0
    /\ ufund = [u \in Updates |-> None]
    /\ ipc = [i \in Imports |-> "find"]
    /\ ifund = [i \in Imports |-> None]
    /\ imeta = [i \in Imports |-> {}]
    /\ ianswer = [i \in Imports |-> NoAnswer]
    /\ ppc = [p \in Patches |-> "fetch"]
    /\ pfields = [p \in Patches |-> {}]

Fail == failures < MaxFailures /\ failures' = failures + 1

\* The site moves on to the next quotation.
Publish ==
    /\ site < Newest
    /\ site' = site + 1
    /\ UNCHANGED <<fund, ufund, importVars, patchVars, failures>>

-----------------------------------------------------------------------------
(* The fund site: a valid quotation, and the fields with a usable value,   *)
(* which may be none.  Each call may fail instead.                         *)

fetchFundBasicInfo == site
fetchFundMetadata == SUBSET Metadata
fetchFundPerformance == SUBSET Performance

-----------------------------------------------------------------------------
(* The two writes                                                          *)

Mut_Replaced(q) ==          \* the document replaced
    fund' = [basic |-> q, extra |-> {}]

Mut_Inserted(q) ==          \* $setOnInsert instead of $set
    fund' = IF fund = NoFund THEN [basic |-> q, extra |-> {}] ELSE fund

\* $set of the basic fields with upsert: creates the document or keeps the rest.
upsertFundBasicInfo(q) ==
    fund' = [basic |-> q, extra |-> IF fund = NoFund THEN {} ELSE fund.extra]

Matched == fund # NoFund

Mut_SetFields(fields) ==    \* with upsert
    fund' = IF Matched THEN [fund EXCEPT !.extra = @ \cup fields]
                       ELSE [basic |-> None, extra |-> fields]

\* updateFundMetadata, updateFundPerformance: $set of what was fetched, no upsert.
SetFields(fields) ==
    fund' = IF Matched THEN [fund EXCEPT !.extra = @ \cup fields] ELSE fund

-----------------------------------------------------------------------------
(* updateSingleFund; the run around it is UpdateWorkers, and what fails    *)
(* leaves the fund to the next run                                         *)

FetchUpdate(u) ==
    /\ ufund[u] = None
    /\ ufund' = [ufund EXCEPT ![u] = fetchFundBasicInfo]
    /\ UNCHANGED <<site, fund, importVars, patchVars, failures>>

UpsertUpdate(u) ==
    /\ ufund[u] # None
    /\ ufund' = [ufund EXCEPT ![u] = None]
    /\ \/ upsertFundBasicInfo(ufund[u]) /\ (UNCHANGED failures \/ Fail)
       \/ Fail /\ UNCHANGED fund
    /\ UNCHANGED <<site, importVars, patchVars>>

-----------------------------------------------------------------------------
(* importFundByCode                                                        *)

Respond(i, status, metadata) ==
    /\ ipc' = [ipc EXCEPT ![i] = "done"]
    /\ ianswer' = [ianswer EXCEPT ![i] = [status |-> status, metadata |-> metadata]]

FindFund(i) ==
    /\ ipc[i] = "find"
    /\ \/ fund # NoFund /\ Respond(i, "existing", {}) /\ UNCHANGED failures
       \/ /\ fund = NoFund
          /\ ipc' = [ipc EXCEPT ![i] = "fetch"]
          /\ UNCHANGED <<ianswer, failures>>
       \/ Fail /\ Respond(i, "failed", {})
    /\ UNCHANGED <<site, fund, ufund, ifund, imeta, patchVars>>

\* With an error, or a quotation that is not valid, nothing is stored.
FetchImport(i) ==
    /\ ipc[i] = "fetch"
    /\ \/ /\ ipc' = [ipc EXCEPT ![i] = "upsert"]
          /\ ifund' = [ifund EXCEPT ![i] = fetchFundBasicInfo]
          /\ UNCHANGED <<ianswer, failures>>
       \/ Fail /\ Respond(i, "failed", {}) /\ UNCHANGED ifund
    /\ UNCHANGED <<site, fund, ufund, imeta, patchVars>>

\* An upsert with an error may have been applied.
UpsertImport(i) ==
    /\ ipc[i] = "upsert"
    /\ ifund' = [ifund EXCEPT ![i] = None]
    /\ \/ /\ upsertFundBasicInfo(ifund[i])
          /\ \/ ipc' = [ipc EXCEPT ![i] = "metadata"] /\ UNCHANGED <<ianswer, failures>>
             \/ Fail /\ Respond(i, "failed", {})
       \/ Fail /\ Respond(i, "failed", {}) /\ UNCHANGED fund
    /\ UNCHANGED <<site, ufund, imeta, patchVars>>

\* A fund without any metadata is a success with a warning.
FetchImportMetadata(i) ==
    /\ ipc[i] = "metadata"
    /\ \/ \E fields \in fetchFundMetadata \ {{}} :
             /\ imeta' = [imeta EXCEPT ![i] = fields]
             /\ ipc' = [ipc EXCEPT ![i] = "update"]
             /\ UNCHANGED <<ianswer, failures>>
       \/ Respond(i, "success", {}) /\ UNCHANGED <<imeta, failures>>
       \/ Fail /\ Respond(i, "partial_success", {}) /\ UNCHANGED imeta
    /\ UNCHANGED <<site, fund, ufund, ifund, patchVars>>

Mut_UpdateImportMetadata(i) ==          \* the error only logged
    /\ ipc[i] = "update"
    /\ \/ SetFields(imeta[i]) /\ UNCHANGED failures
       \/ Fail /\ UNCHANGED fund
    /\ Respond(i, "success", imeta[i])
    /\ imeta' = [imeta EXCEPT ![i] = {}]
    /\ UNCHANGED <<site, ufund, ifund, patchVars>>

UpdateImportMetadata(i) ==
    /\ ipc[i] = "update"
    /\ imeta' = [imeta EXCEPT ![i] = {}]
    /\ \/ /\ SetFields(imeta[i])
          /\ \/ /\ IF Matched THEN Respond(i, "success", imeta[i])
                            ELSE Respond(i, "partial_success", {})
                /\ UNCHANGED failures
             \/ Fail /\ Respond(i, "partial_success", {})
       \/ Fail /\ Respond(i, "partial_success", {}) /\ UNCHANGED fund
    /\ UNCHANGED <<site, ufund, ifund, patchVars>>

-----------------------------------------------------------------------------
(* The loop of buildEnrichFundsResponse and buildPerformanceFundsResponse, *)
(* for this fund                                                           *)

FetchedBy(p) == IF p \in Enriches THEN fetchFundMetadata ELSE fetchFundPerformance

\* A fund without a usable field is skipped.
FetchPatch(p) ==
    /\ ppc[p] = "fetch"
    /\ \/ \E fields \in FetchedBy(p) \ {{}} :
             /\ pfields' = [pfields EXCEPT ![p] = fields]
             /\ ppc' = [ppc EXCEPT ![p] = "update"]
             /\ UNCHANGED failures
       \/ ppc' = [ppc EXCEPT ![p] = "skipped"] /\ UNCHANGED <<pfields, failures>>
       \/ Fail /\ ppc' = [ppc EXCEPT ![p] = "failed"] /\ UNCHANGED pfields
    /\ UNCHANGED <<site, fund, ufund, importVars>>

\* A fund that is not there is skipped.
UpdatePatch(p) ==
    /\ ppc[p] = "update"
    /\ \/ /\ SetFields(pfields[p])
          /\ \/ /\ ppc' = [ppc EXCEPT ![p] = IF Matched THEN "enriched" ELSE "skipped"]
                /\ UNCHANGED failures
             \/ Fail /\ ppc' = [ppc EXCEPT ![p] = "failed"]
       \/ Fail /\ ppc' = [ppc EXCEPT ![p] = "failed"] /\ UNCHANGED fund
    /\ UNCHANGED <<site, ufund, importVars, pfields>>

-----------------------------------------------------------------------------
Next ==
    \/ Publish
    \/ \E u \in Updates : FetchUpdate(u) \/ UpsertUpdate(u)
    \/ \E i \in Imports :
          \/ FindFund(i) \/ FetchImport(i) \/ UpsertImport(i)
          \/ FetchImportMetadata(i) \/ UpdateImportMetadata(i)
    \/ \E p \in Patches : FetchPatch(p) \/ UpdatePatch(p)

Spec == Init /\ [][Next]_vars

\* The workflow runs an update on every working day, of the default funds and of
\* those on a watchlist; contexts bound all calls; the site moves on.
Fairness ==
    /\ WF_vars(Publish)
    /\ \A u \in Updates : WF_vars(FetchUpdate(u) \/ UpsertUpdate(u))
    /\ \A i \in Imports : WF_vars(FetchImport(i) \/ UpsertImport(i))

FairSpec == Spec /\ Fairness

-----------------------------------------------------------------------------
(* Properties                                                              *)

\* A field that is there stays there: neither a new quotation, written by an
\* update or by an import that raced with it, nor a site that leaves fields
\* blank takes what another writer has added.
FieldsStay ==
    [][fund # NoFund => fund' # NoFund /\ fund.extra \subseteq fund'.extra]_vars

\* A fund comes into being with a quotation only: metadata and growth figures
\* that arrive first create no document without a name and a date.
NoPartialFund ==
    [][fund = NoFund /\ fund' # NoFund => fund'.extra = {}]_vars

\* What a response claims is in the document, and stays there whatever others
\* write: an import that lists metadata, an enrich that counts the fund.
ResponsesAreTrue ==
    /\ \A i \in Imports :
          ianswer[i].status \in {"existing", "success", "partial_success"} =>
              fund # NoFund /\ ianswer[i].metadata \subseteq fund.extra
    /\ \A p \in Patches : ppc[p] = "enriched" => fund # NoFund /\ pfields[p] \subseteq fund.extra

\* An import that found no fund, or a straggler, may write an old quotation over
\* a newer one; the update runs repair it, and once the last quotation is out
\* the fund shows it for good.
FundCatchesUp == <>[](fund # NoFund /\ fund.basic = Newest)
=============================================================================
