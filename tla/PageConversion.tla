--------------------------- MODULE PageConversion ---------------------------
(***************************************************************************)
(* What a conversion does with the pages of a document: each page is       *)
(* analysed, the digital text gate and the decision engine choose its      *)
(* route, a local model may read it, review its own reading and read parts *)
(* again, and the outcome of the job follows from the pages.               *)
(*                                                                         *)
(* A remote conversion (execute_worker_conversion) starts over in every    *)
(* run; a local one (execute_conversion) keeps a checkpoint of the pages   *)
(* it has decided, can be cancelled, and writes its own row.  A page is    *)
(* the set of facts its analysis finds; texts are left out, and a result   *)
(* is its page_state.                                                      *)
(***************************************************************************)
EXTENDS Naturals

CONSTANTS
    DocumentPages,     \* pages of the document
    Evidences,     \* what analyses find: a set of sets of facts
    MaxRegions,    \* ReReadBudget.max_regions, and max_total_attempts
    MaxRuns        \* bound on the runs of one conversion

ASSUME PageConversionAssumption ==
    /\ DocumentPages \in Nat \ {0} /\ MaxRegions \in Nat /\ MaxRuns \in Nat
    /\ Evidences \subseteq SUBSET {"blank", "near blank", "text", "usable",
         "distributed", "damaged", "partial", "layout risk", "missing"}

VARIABLES
    evidence,      \* PageAnalysis of each page
    legible,       \* the digital text of a page scores 90 or better
    local,         \* the conversion runs in execute_conversion
    row,           \* status of the conversion as its last run left it
    docx,          \* the pages the output file shows
    checkpoint,    \* checkpoint.json
    running,       \* where the run is
    ocr,           \* this run has an available OCR engine
    results,       \* results_by_page
    pageNo,        \* the page at hand
    regions,       \* suspicious regions yet to be read again
    reread,        \* every region read again so far came out well
    reviewed,      \* the local variable review has a value
    cancelled,     \* the cancel event is set
    runs           \* runs so far

documentVars == <<evidence, legible, local>>
storedVars == <<row, docx, checkpoint>>
ocrVars == <<regions, reread, reviewed>>
pagesVars == <<documentVars, storedVars, running, ocr, results, pageNo,
               ocrVars, cancelled, runs>>

Numbers == 1..DocumentPages
Undecided == [p \in Numbers |-> "none"]
PageResults == {"none", "blank_page", "near_blank", "review_required",
                "pending_ocr_model", "digital_text", "ocr_failed",
                "accepted_first_pass", "accepted_after_selective_reread"}
ConversionPlaces ==
    {"off", "pages", "rereading", "telling", "deciding", "writing", "ending"}

-----------------------------------------------------------------------------
(* The gate and the decision: evaluate_digital_text_trust and               *)
(* decide_page_route                                                        *)

\* fragmented, broken Arabic or corrupt text; an image that hides text; or
\* certainly no text
IsUntrusted(e) ==
    \/ "damaged" \in e \/ "partial" \in e
    \/ "text" \notin e /\ "missing" \notin e

IsUncertain(e) ==
    \/ "missing" \in e \/ "layout risk" \in e
    \/ "text" \in e /\ ~({"usable", "distributed"} \subseteq e)

IsTrusted(e) ==
    ~IsUntrusted(e) /\ ~IsUncertain(e) /\ {"usable", "distributed"} \subseteq e

HasNoContent(e) == "blank" \in e \/ "near blank" \in e

\* Mutant: the verdict of doubt is taken for trust.
TrustsDoubt(e) ==
    IF HasNoContent(e) THEN "no_extraction"
    ELSE IF ~IsUntrusted(e) THEN "direct_pdf_text"
    ELSE IF ocr THEN "local_ocr" ELSE "pending_ocr_model"

Route(e) ==
    IF HasNoContent(e) THEN "no_extraction"
    ELSE IF IsTrusted(e) THEN "direct_pdf_text"
    ELSE IF ~IsUntrusted(e) THEN "manual_review"
    ELSE IF ocr THEN "local_ocr" ELSE "pending_ocr_model"

-----------------------------------------------------------------------------
(* The pages: process_pdf *)

\* Mutant: the pages are decided again from the first.
LoadsNothing == Undecided

\* What execute_conversion loads; a remote run has no checkpoint and works in a
\* directory of its own.
Loaded == IF local THEN checkpoint ELSE Undecided

BeginsRun ==
    /\ running = "off" /\ runs < MaxRuns
    /\ local \/ row \notin {"completed", "manual_review"}
    /\ running' = "pages" /\ pageNo' = 1
    /\ row' = "processing"
    /\ results' = Loaded
    /\ ocr' \in BOOLEAN
    /\ reviewed' = FALSE /\ cancelled' = FALSE
    /\ docx' = IF local THEN docx ELSE Undecided
    /\ runs' = runs + 1
    /\ UNCHANGED <<documentVars, checkpoint, regions, reread>>

SkipsPage ==
    /\ running = "pages" /\ pageNo \in Numbers
    /\ results[pageNo] # "none"
    /\ pageNo' = pageNo + 1
    /\ UNCHANGED <<documentVars, storedVars, running, ocr, results, ocrVars,
                   cancelled, runs>>

\* The page is in results_by_page and, of a local run, in the checkpoint.
Decides(result) ==
    /\ results' = [results EXCEPT ![pageNo] = result]
    /\ checkpoint' = IF local THEN results' ELSE checkpoint
    /\ pageNo' = pageNo + 1
    /\ running' = "pages"
    /\ UNCHANGED <<documentVars, row, docx, ocr, cancelled, runs>>

\* A page that is to be decided and whose job is not cancelled
Turn(route) ==
    /\ running = "pages" /\ pageNo \in Numbers
    /\ results[pageNo] = "none" /\ ~cancelled
    /\ Route(evidence[pageNo]) = route

LeavesPage ==
    /\ Turn("no_extraction")
    /\ Decides(IF "near blank" \in evidence[pageNo] THEN "near_blank"
                                                    ELSE "blank_page")
    /\ UNCHANGED ocrVars

SendsToReview ==
    /\ Turn("manual_review")
    /\ Decides("review_required")
    /\ UNCHANGED ocrVars

AwaitsModel ==
    /\ Turn("pending_ocr_model")
    /\ Decides("pending_ocr_model")
    /\ UNCHANGED ocrVars

\* The text is taken if it is the text that was analysed.
ExtractsText ==
    /\ Turn("direct_pdf_text")
    /\ \/ Decides("digital_text")
       \/ Decides("review_required")
    /\ UNCHANGED ocrVars

\* Rendering or the engine raises.
ModelRaises ==
    /\ Turn("local_ocr")
    /\ Decides("ocr_failed")
    /\ UNCHANGED ocrVars

\* review_first_pass: the engine failed, the reading shows no defect, or its
\* defects cannot be placed on the page.
ReviewsAtOnce ==
    /\ Turn("local_ocr")
    /\ \E r \in {"ocr_failed", "accepted_first_pass", "review_required"} :
          Decides(r)
    /\ reviewed' = TRUE
    /\ UNCHANGED <<regions, reread>>

\* Every defect lies in one of a few regions.
ReviewsRegions ==
    /\ Turn("local_ocr")
    /\ regions' \in 1..MaxRegions
    /\ reread' = TRUE /\ reviewed' = TRUE
    /\ running' = "rereading"
    /\ UNCHANGED <<documentVars, storedVars, ocr, results, pageNo, cancelled,
                   runs>>

\* reconcile_ocr_results refuses the first region that was not read again.
AllReadings(well) == reread /\ well

\* A region is read again, or cropping, the budget or the engine fails.
RereadsRegion ==
    /\ running = "rereading" /\ regions > 0 /\ ~cancelled
    /\ \E well \in BOOLEAN : reread' = AllReadings(well)
    /\ regions' = regions - 1
    /\ UNCHANGED <<documentVars, storedVars, running, ocr, results, pageNo,
                   reviewed, cancelled, runs>>

\* The reading with its replacements shows no defect any more, or it does.
ReconcilesPage ==
    /\ running = "rereading" /\ regions = 0
    /\ \/ reread /\ Decides("accepted_after_selective_reread")
       \/ Decides("review_required")
    /\ UNCHANGED ocrVars

EndsPages ==
    /\ running = "pages" /\ pageNo > DocumentPages
    /\ running' = "telling"
    /\ UNCHANGED <<documentVars, storedVars, ocr, results, pageNo, ocrVars,
                   cancelled, runs>>

-----------------------------------------------------------------------------
(* The outcome: process_pdf's last lines, _normalize_manual_review_flags,   *)
(* and the end of the two conversions                                       *)

LeavesRest ==
    UNCHANGED <<documentVars, ocr, results, pageNo, ocrVars, cancelled, runs>>

\* The row of a remote job is written by its upload or its failure report.
EndsAs(status) ==
    /\ running' = "off"
    /\ row' = status
    /\ UNCHANGED <<docx, checkpoint>> /\ LeavesRest

Has(result) == \E p \in Numbers : results[p] = result

\* The message of a document with pages to review formats the variable review,
\* which only a page that was read by a model has bound.
FormatsUnbound ==
    Has("review_required") /\ ~Has("pending_ocr_model") /\ ~reviewed

TellsStatus ==
    /\ running = "telling"
    /\ ~FormatsUnbound
    /\ running' = "deciding"
    /\ UNCHANGED storedVars /\ LeavesRest

TellsOfUnbound ==
    /\ running = "telling" /\ FormatsUnbound
    /\ EndsAs("failed")

\* requires_manual_review as _normalize_manual_review_flags leaves it
NeedsReview(p) ==
    CASE results[p] = "digital_text" -> ~legible[p]
      [] results[p] \in {"blank_page", "accepted_first_pass",
                         "accepted_after_selective_reread"} -> FALSE
      [] results[p] \in {"near_blank", "review_required", "pending_ocr_model",
                         "ocr_failed", "none"} -> TRUE

\* should_cancel is asked for the last time.
GoesOn ==
    /\ running = "deciding" /\ ~cancelled
    /\ running' = "writing"
    /\ UNCHANGED storedVars /\ LeavesRest

WritesDocx ==
    /\ running = "writing"
    /\ docx' = results
    /\ running' = "ending"
    /\ UNCHANGED <<row, checkpoint>> /\ LeavesRest

\* Mutant: only pages that wait for a model count.
AnyPending == Has("pending_ocr_model")

AnyReview == \E p \in Numbers : NeedsReview(p)

EndsInOutcome ==
    /\ running = "ending"
    /\ EndsAs(IF AnyReview THEN "manual_review" ELSE "completed")

\* JobCancelled, raised before a page, before a region, or in the end
HearsCancel ==
    /\ cancelled
    /\ \/ running = "pages" /\ pageNo \in Numbers /\ results[pageNo] = "none"
       \/ running = "rereading" /\ regions > 0
       \/ running = "deciding"
    /\ EndsAs("cancelled")

\* An exception: a damaged document, a checkpoint or a file that cannot be
\* written
RunFails ==
    /\ running \notin {"off", "telling"}
    /\ EndsAs("failed")

\* JobQueue.cancel, of a local conversion
CancelsRun ==
    /\ local /\ running # "off" /\ ~cancelled
    /\ cancelled' = TRUE
    /\ UNCHANGED <<documentVars, storedVars, running, ocr, results, pageNo,
                   ocrVars, runs>>

RunDies ==
    /\ running # "off"
    /\ running' = "off"
    /\ UNCHANGED storedVars /\ LeavesRest

PagesInit ==
    /\ evidence \in [Numbers -> Evidences]
    /\ legible \in [Numbers -> BOOLEAN]
    /\ local \in BOOLEAN
    /\ row = "pending" /\ docx = Undecided /\ checkpoint = Undecided
    /\ running = "off" /\ ocr = FALSE
    /\ results = Undecided /\ pageNo = 1
    /\ regions = 0 /\ reread = FALSE /\ reviewed = FALSE
    /\ cancelled = FALSE /\ runs = 0

DecidesPage ==
    \/ LeavesPage \/ SendsToReview \/ AwaitsModel \/ ExtractsText
    \/ ModelRaises \/ ReviewsAtOnce \/ ReviewsRegions

PagesNext ==
    \/ BeginsRun \/ SkipsPage \/ DecidesPage \/ RereadsRegion \/ ReconcilesPage
    \/ EndsPages \/ TellsStatus \/ TellsOfUnbound \/ GoesOn \/ WritesDocx
    \/ EndsInOutcome \/ HearsCancel \/ RunFails \/ CancelsRun \/ RunDies

PagesSpec == PagesInit /\ [][PagesNext]_pagesVars

-----------------------------------------------------------------------------
(* Properties *)

\* Type invariant of a conversion.
PagesTypeOK ==
    /\ evidence \in [Numbers -> Evidences]
    /\ legible \in [Numbers -> BOOLEAN]
    /\ row \in {"pending", "processing", "failed", "cancelled",
                "manual_review", "completed"}
    /\ docx \in [Numbers -> PageResults]
    /\ checkpoint \in [Numbers -> PageResults]
    /\ results \in [Numbers -> PageResults]
    /\ running \in ConversionPlaces
    /\ pageNo \in 1..(DocumentPages + 1)
    /\ regions \in 0..MaxRegions
    /\ local \in BOOLEAN /\ ocr \in BOOLEAN /\ reread \in BOOLEAN
    /\ reviewed \in BOOLEAN /\ cancelled \in BOOLEAN /\ runs \in 0..MaxRuns

\* A completed conversion has put every page into its document and none of
\* them wants a reviewer; one that ended in manual_review shows one that does.
\* Pages that an earlier run decided, with or without a model, count as well.
Shows(p) == docx[p] = results[p] /\ results[p] # "none"
OutcomeTellsReview ==
    /\ row = "completed" => \A p \in Numbers : Shows(p) /\ ~NeedsReview(p)
    /\ row = "manual_review" =>
         (\A p \in Numbers : Shows(p)) /\ \E p \in Numbers : NeedsReview(p)

\* Text reaches the document only from a page whose digital text was trusted,
\* or that a model had to read; no page is taken for blank that the analysis
\* did not find so (docs/ARCHITECTURE.md:11-12).
TextIsTrusted ==
    \A p \in Numbers :
        /\ docx[p] = "digital_text" => IsTrusted(evidence[p])
        /\ docx[p] \in {"accepted_first_pass",
                        "accepted_after_selective_reread"} =>
              IsUntrusted(evidence[p]) /\ ~HasNoContent(evidence[p])
        /\ docx[p] \in {"blank_page", "near_blank"} => HasNoContent(evidence[p])

PagesHold == OutcomeTellsReview /\ TextIsTrusted

\* A page of a local conversion is decided once: whatever dies, fails or is
\* cancelled afterwards, no later run decides it again (load_checkpoint).
KeepsDecisions ==
    \A p \in Numbers :
        checkpoint[p] # "none" => checkpoint'[p] = checkpoint[p]
DecidedOnce == [][KeepsDecisions]_pagesVars

\* A cancel that is set before the last look at it ends the conversion, and no
\* document is written for it.
ObeysCancel ==
    cancelled /\ running \in {"pages", "rereading", "telling", "deciding"} =>
        docx' = docx /\ row' \notin {"completed", "manual_review"}
CancelEnds == [][ObeysCancel]_pagesVars

ConversionHolds == DecidedOnce /\ CancelEnds

\* Pages that ask for a reviewer make the outcome manual_review: they do not
\* fail the conversion that has decided them ("`manual_review`: a job-level
\* outcome when one or more pages require review", docs/ARCHITECTURE.md:51).
ReviewIsAnOutcome == [][running = "telling" => row' # "failed"]_pagesVars
=============================================================================
