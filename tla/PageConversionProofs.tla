------------------------ MODULE PageConversionProofs ------------------------
(***************************************************************************)
(* What holds of a conversion's pages for documents of any length, for     *)
(* whatever analyses find, and for any number of runs.                     *)
(***************************************************************************)
EXTENDS PageConversion, TLAPS

\* The analysis of page p allows the result r.
Allows(p, r) ==
    /\ r = "digital_text" => IsTrusted(evidence[p])
    /\ r \in {"accepted_first_pass", "accepted_after_selective_reread"} =>
         IsUntrusted(evidence[p]) /\ ~HasNoContent(evidence[p])
    /\ r \in {"blank_page", "near_blank"} => HasNoContent(evidence[p])

\* Every result that is at hand, in the document or in the checkpoint
Justified ==
    \A p \in Numbers : /\ Allows(p, results[p])
                       /\ Allows(p, docx[p])
                       /\ Allows(p, checkpoint[p])

\* Pages are decided in order; what follows them sees all of them decided.
Progress ==
    /\ running \in {"pages", "rereading"} =>
         \A p \in Numbers : p < pageNo => results[p] # "none"
    /\ running \in {"telling", "deciding", "writing", "ending"} =>
         \A p \in Numbers : results[p] # "none"
    /\ running = "rereading" =>
         /\ pageNo \in Numbers /\ results[pageNo] = "none"
         /\ IsUntrusted(evidence[pageNo]) /\ ~HasNoContent(evidence[pageNo])
    /\ running = "ending" => docx = results
    /\ running # "off" => row = "processing"

\* A local run never forgets what the checkpoint says.
Keeps ==
    local /\ running # "off" =>
        \A p \in Numbers : checkpoint[p] # "none" =>
            results[p] = checkpoint[p]

PagesIInv ==
    PagesTypeOK /\ Progress /\ Keeps /\ Justified /\ OutcomeTellsReview

\* The bounds alone, without what analyses find
LEMMA Bounds ==
  DocumentPages \in Nat \ {0} /\ MaxRegions \in Nat /\ MaxRuns \in Nat
  BY PageConversionAssumption, Zenon

\* The first state is one of them: no page is decided.
LEMMA PagesInitial == PagesInit => PagesIInv
  <1> SUFFICES ASSUME PagesInit PROVE PagesIInv
    OBVIOUS
  <1> USE Bounds
  <1>1. \A p \in Numbers : Undecided[p] = "none"
    BY DEF Undecided
  <1>2. Undecided \in [Numbers -> PageResults]
    BY DEF Undecided, PageResults
  <1>. /\ pageNo \in 1..(DocumentPages + 1) /\ regions \in 0..MaxRegions
      /\ runs \in 0..MaxRuns
    BY DEF PagesInit
  <1>2a. PagesTypeOK
    BY <1>2 DEF PagesInit, PagesTypeOK, ConversionPlaces
  <1>3. Progress /\ Keeps /\ OutcomeTellsReview
    BY <1>1 DEF PagesInit, Progress, Keeps, OutcomeTellsReview
  <1>4. Justified
    BY <1>1 DEF PagesInit, Justified, Allows
  <1> QED
    BY <1>2a, <1>3, <1>4 DEF PagesIInv

\* A page at hand that is decided as its analysis allows (process_pdf,
\* results_by_page and checkpoint_callback)
LEMMA Deciding ==
  ASSUME PagesIInv, running \in {"pages", "rereading"}, pageNo \in Numbers,
         results[pageNo] = "none",
         NEW r \in PageResults \ {"none"}, Allows(pageNo, r), Decides(r),
         regions' \in 0..MaxRegions, reread' \in BOOLEAN,
         reviewed' \in BOOLEAN
  PROVE  PagesIInv'
  <1> USE Bounds
  <1>1. /\ results \in [Numbers -> PageResults] /\ pageNo \in Nat
        /\ results' = [results EXCEPT ![pageNo] = r]
        /\ results' \in [Numbers -> PageResults]
        /\ UNCHANGED <<evidence, legible, local, row, docx, ocr, cancelled,
                       runs>>
        /\ running' = "pages" /\ pageNo' = pageNo + 1
        /\ checkpoint' = IF local THEN results' ELSE checkpoint
    BY DEF Decides, documentVars, PagesIInv, PagesTypeOK, Numbers
  <1>2. \A p \in Numbers :
           results'[p] = IF p = pageNo THEN r ELSE results[p]
    BY <1>1
  <1>3. PagesTypeOK'
    BY <1>1 DEF PagesIInv, PagesTypeOK, Numbers, ConversionPlaces
  <1>4. \A p \in Numbers : p < pageNo' => results'[p] # "none"
    BY <1>1, <1>2 DEF PagesIInv, Progress, Numbers
  <1>5. row = "processing"
    BY DEF PagesIInv, Progress
  <1>6. Progress'
    BY <1>1, <1>4, <1>5 DEF Progress
  <1>7. Keeps'
    <2> SUFFICES ASSUME local', NEW p \in Numbers,
                        checkpoint'[p] # "none"
                 PROVE  results'[p] = checkpoint'[p]
      BY DEF Keeps
    <2> QED
      BY <1>1
  <1>8. Justified'
    <2> SUFFICES ASSUME NEW p \in Numbers
                 PROVE  /\ Allows(p, results'[p])
                        /\ Allows(p, docx[p])
                        /\ Allows(p, checkpoint'[p])
      BY <1>1 DEF Justified, Allows
    <2>1. Allows(p, results[p]) /\ Allows(p, docx[p])
                                /\ Allows(p, checkpoint[p])
      BY DEF PagesIInv, Justified
    <2>2. Allows(p, results'[p])
      BY <1>2, <2>1
    <2> QED
      BY <1>1, <2>1, <2>2
  <1>9. OutcomeTellsReview'
    BY <1>1, <1>5 DEF OutcomeTellsReview
  <1> QED
    BY <1>3, <1>6, <1>7, <1>8, <1>9 DEF PagesIInv

\* The page at hand, on the route the decision engine gave it
LEMMA AtHand ==
  ASSUME PagesIInv, NEW route, Turn(route)
  PROVE  /\ running = "pages" /\ pageNo \in Numbers
         /\ results[pageNo] = "none"
         /\ route = "no_extraction" => HasNoContent(evidence[pageNo])
         /\ route = "direct_pdf_text" => IsTrusted(evidence[pageNo])
         /\ route = "local_ocr" =>
              IsUntrusted(evidence[pageNo]) /\ ~HasNoContent(evidence[pageNo])
  BY DEF Turn, Route

\* The page steps: each decides the page at hand, or starts to read parts of
\* it again.
LEMMA PageSteps ==
  ASSUME PagesIInv, DecidesPage \/ ReconcilesPage
  PROVE  PagesIInv'
  <1> USE Bounds
  <1>0. /\ regions \in 0..MaxRegions /\ reread \in BOOLEAN
        /\ reviewed \in BOOLEAN
    BY DEF PagesIInv, PagesTypeOK
  <1>1. CASE LeavesPage
    <2>1. PICK r \in {"near_blank", "blank_page"} : Decides(r)
      BY <1>1 DEF LeavesPage
    <2>2. HasNoContent(evidence[pageNo]) /\ running = "pages"
          /\ pageNo \in Numbers /\ results[pageNo] = "none"
      BY <1>1, AtHand DEF LeavesPage
    <2>3. Allows(pageNo, r)
      BY <2>2 DEF Allows
    <2> QED
      BY <1>0, <1>1, <2>1, <2>2, <2>3, Deciding
         DEF LeavesPage, ocrVars, PageResults
  <1>2. CASE SendsToReview \/ AwaitsModel \/ ModelRaises
    <2>1. PICK r \in {"review_required", "pending_ocr_model", "ocr_failed"} :
              Decides(r)
      BY <1>2 DEF SendsToReview, AwaitsModel, ModelRaises
    <2>2. running = "pages" /\ pageNo \in Numbers /\ results[pageNo] = "none"
      BY <1>2, AtHand DEF SendsToReview, AwaitsModel, ModelRaises
    <2>3. Allows(pageNo, r)
      BY DEF Allows
    <2> QED
      BY <1>0, <1>2, <2>1, <2>2, <2>3, Deciding
         DEF SendsToReview, AwaitsModel, ModelRaises, ocrVars, PageResults
  <1>3. CASE ExtractsText
    <2>1. PICK r \in {"digital_text", "review_required"} : Decides(r)
      BY <1>3 DEF ExtractsText
    <2>2. IsTrusted(evidence[pageNo]) /\ running = "pages"
          /\ pageNo \in Numbers /\ results[pageNo] = "none"
      BY <1>3, AtHand DEF ExtractsText
    <2>3. Allows(pageNo, r)
      BY <2>2 DEF Allows
    <2> QED
      BY <1>0, <1>3, <2>1, <2>2, <2>3, Deciding
         DEF ExtractsText, ocrVars, PageResults
  <1>4. CASE ReviewsAtOnce
    <2>1. PICK r \in {"ocr_failed", "accepted_first_pass",
                      "review_required"} : Decides(r)
      BY <1>4 DEF ReviewsAtOnce
    <2>2. /\ IsUntrusted(evidence[pageNo]) /\ ~HasNoContent(evidence[pageNo])
          /\ running = "pages" /\ pageNo \in Numbers
          /\ results[pageNo] = "none"
      BY <1>4, AtHand DEF ReviewsAtOnce
    <2>3. Allows(pageNo, r)
      BY <2>2 DEF Allows
    <2> QED
      BY <1>0, <1>4, <2>1, <2>2, <2>3, Deciding
         DEF ReviewsAtOnce, PageResults
  <1>5. CASE ReviewsRegions
    <2>1. /\ IsUntrusted(evidence[pageNo]) /\ ~HasNoContent(evidence[pageNo])
          /\ running = "pages" /\ pageNo \in Numbers
          /\ results[pageNo] = "none"
      BY <1>5, AtHand DEF ReviewsRegions
    <2>2. /\ UNCHANGED <<evidence, legible, local, row, docx, checkpoint, ocr,
                         results, pageNo, cancelled, runs>>
          /\ running' = "rereading" /\ regions' \in 1..MaxRegions
          /\ reread' = TRUE /\ reviewed' = TRUE
      BY <1>5 DEF ReviewsRegions, documentVars, storedVars
    <2>3. PagesTypeOK'
      BY <2>2 DEF PagesIInv, PagesTypeOK, ConversionPlaces
    <2>4. Progress' /\ Keeps' /\ OutcomeTellsReview'
      BY <2>1, <2>2 DEF PagesIInv, Progress, Keeps, OutcomeTellsReview
    <2>5. Justified'
      BY <2>2 DEF PagesIInv, Justified, Allows
    <2> QED
      BY <2>3, <2>4, <2>5 DEF PagesIInv
  <1>6. CASE ReconcilesPage
    <2>1. PICK r \in {"accepted_after_selective_reread", "review_required"} :
              Decides(r)
      BY <1>6 DEF ReconcilesPage
    <2>2. /\ running = "rereading" /\ pageNo \in Numbers
          /\ results[pageNo] = "none"
          /\ IsUntrusted(evidence[pageNo]) /\ ~HasNoContent(evidence[pageNo])
      BY <1>6 DEF ReconcilesPage, PagesIInv, Progress
    <2>3. Allows(pageNo, r)
      BY <2>2 DEF Allows
    <2> QED
      BY <1>0, <1>6, <2>1, <2>2, <2>3, Deciding
         DEF ReconcilesPage, ocrVars, PageResults
  <1> QED
    BY <1>1, <1>2, <1>3, <1>4, <1>5, <1>6 DEF DecidesPage

\* Before a conversion has ended nothing is claimed of its outcome.
LEMMA NoOutcomeYet ==
  ASSUME row' \notin {"completed", "manual_review"}
  PROVE  OutcomeTellsReview'
  BY DEF OutcomeTellsReview

\* A step that leaves the results where they are leaves them justified.
LEMMA StaysJustified ==
  ASSUME PagesIInv, evidence' = evidence,
         \A p \in Numbers :
            /\ results'[p] \in {results[p], checkpoint[p], "none"}
            /\ docx'[p] \in {docx[p], results[p], "none"}
            /\ checkpoint'[p] = checkpoint[p]
  PROVE  Justified'
  <1> SUFFICES ASSUME NEW p \in Numbers
               PROVE  /\ Allows(p, results'[p]) /\ Allows(p, docx'[p])
                      /\ Allows(p, checkpoint'[p])
    BY DEF Justified, Allows
  <1>1. Allows(p, results[p]) /\ Allows(p, docx[p]) /\ Allows(p, checkpoint[p])
    BY DEF PagesIInv, Justified
  <1>2. Allows(p, "none")
    BY DEF Allows
  <1> QED
    BY <1>1, <1>2

\* A run that begins: it takes over the checkpoint, or nothing.
LEMMA Beginning ==
  ASSUME PagesIInv, BeginsRun
  PROVE  PagesIInv'
  <1> USE Bounds
  <1>1. /\ UNCHANGED <<evidence, legible, local, checkpoint, regions, reread>>
        /\ running' = "pages" /\ pageNo' = 1 /\ row' = "processing"
        /\ results' = Loaded /\ ocr' \in BOOLEAN
        /\ reviewed' = FALSE /\ cancelled' = FALSE
        /\ docx' = IF local THEN docx ELSE Undecided
        /\ runs' = runs + 1 /\ runs < MaxRuns
    BY DEF BeginsRun, documentVars
  <1>2. /\ Undecided \in [Numbers -> PageResults]
        /\ \A p \in Numbers : Undecided[p] = "none"
    BY DEF Undecided, PageResults
  <1>3a. /\ results' \in [Numbers -> PageResults]
         /\ docx' \in [Numbers -> PageResults]
    BY <1>1, <1>2 DEF PagesIInv, PagesTypeOK, Loaded
  <1>3b. pageNo' \in 1..(DocumentPages + 1) /\ runs' \in 0..MaxRuns
    BY <1>1 DEF PagesIInv, PagesTypeOK
  <1>3. PagesTypeOK'
    BY <1>1, <1>3a, <1>3b DEF PagesIInv, PagesTypeOK, ConversionPlaces
  <1>4. Progress'
    BY <1>1 DEF Progress, Numbers
  <1>5. Keeps'
    BY <1>1 DEF Keeps, Loaded
  <1>6. Justified'
    BY <1>1, <1>2, StaysJustified DEF Loaded
  <1>7. OutcomeTellsReview'
    BY <1>1, NoOutcomeYet
  <1> QED
    BY <1>3, <1>4, <1>5, <1>6, <1>7 DEF PagesIInv

\* The steps within a run that decide no page and do not end it
LEMMA RunningOn ==
  ASSUME PagesIInv,
         \/ SkipsPage \/ RereadsRegion \/ EndsPages \/ TellsStatus
         \/ GoesOn \/ WritesDocx \/ CancelsRun
  PROVE  PagesIInv'
  <1> USE Bounds
  <1>1. /\ UNCHANGED <<evidence, legible, local, row, checkpoint, ocr,
                       results, reviewed, runs>>
        /\ running # "off" /\ running' # "off"
        /\ docx' = docx \/ (docx' = results /\ running = "writing")
    BY DEF SkipsPage, RereadsRegion, EndsPages, TellsStatus, GoesOn,
           WritesDocx, CancelsRun, LeavesRest, documentVars, storedVars,
           ocrVars
  <1>2. row = "processing"
    BY <1>1 DEF PagesIInv, Progress
  <1>3. regions' \in 0..MaxRegions /\ reread' \in BOOLEAN
        /\ cancelled' \in BOOLEAN
    <2>0. /\ regions \in 0..MaxRegions /\ reread \in BOOLEAN
          /\ cancelled \in BOOLEAN
      BY DEF PagesIInv, PagesTypeOK
    <2>1. CASE RereadsRegion
      <3>1. cancelled' = cancelled /\ regions' = regions - 1 /\ regions > 0
        BY <2>1 DEF RereadsRegion
      <3>2. reread' \in BOOLEAN
        BY <2>1, Zenon DEF RereadsRegion, AllReadings
      <3> QED
        BY <2>0, <3>1, <3>2
    <2>2. CASE ~RereadsRegion
      BY <2>0, <2>2 DEF SkipsPage, EndsPages, TellsStatus, GoesOn,
           WritesDocx, CancelsRun, LeavesRest, ocrVars
    <2> QED
      BY <2>1, <2>2
  <1>4. pageNo' \in 1..(DocumentPages + 1) /\ running' \in ConversionPlaces
    BY DEF SkipsPage, RereadsRegion, EndsPages, TellsStatus, GoesOn,
           WritesDocx, CancelsRun, LeavesRest, ConversionPlaces, Numbers,
           PagesIInv, PagesTypeOK
  <1>5. PagesTypeOK'
    BY <1>1, <1>3, <1>4 DEF PagesIInv, PagesTypeOK
  <1>6. Progress'
    <2>1. CASE SkipsPage
      BY <1>1, <1>2, <2>1 DEF SkipsPage, storedVars, PagesIInv, PagesTypeOK,
                              Progress, Numbers
    <2>2. CASE RereadsRegion
      BY <1>1, <1>2, <2>2 DEF RereadsRegion, storedVars, PagesIInv, Progress
    <2>3. CASE EndsPages
      BY <1>1, <1>2, <2>3 DEF EndsPages, PagesIInv, PagesTypeOK, Progress,
                              Numbers
    <2>4. CASE TellsStatus \/ GoesOn \/ WritesDocx
      BY <1>1, <1>2, <2>4 DEF TellsStatus, GoesOn, WritesDocx, PagesIInv,
                              Progress
    <2>5. CASE CancelsRun
      BY <1>1, <1>2, <2>5 DEF CancelsRun, storedVars, PagesIInv, Progress
    <2> QED
      BY <2>1, <2>2, <2>3, <2>4, <2>5
  <1>7. Keeps'
    BY <1>1 DEF PagesIInv, Keeps
  <1>8. Justified'
    BY <1>1, StaysJustified
  <1>9. OutcomeTellsReview'
    BY <1>1, <1>2, NoOutcomeYet
  <1> QED
    BY <1>5, <1>6, <1>7, <1>8, <1>9 DEF PagesIInv

\* The steps that end a run; only EndsInOutcome claims an outcome.
LEMMA Ending ==
  ASSUME PagesIInv,
         \/ EndsInOutcome \/ HearsCancel \/ RunFails \/ TellsOfUnbound
         \/ RunDies
  PROVE  PagesIInv'
  <1> USE Bounds
  <1>1. /\ UNCHANGED <<evidence, legible, local, docx, checkpoint, ocr,
                       results, pageNo, regions, reread, reviewed, cancelled,
                       runs>>
        /\ running' = "off" /\ running # "off"
    BY DEF EndsInOutcome, HearsCancel, RunFails, TellsOfUnbound, RunDies,
           EndsAs, LeavesRest, documentVars, storedVars, ocrVars
  <1>2. row' \in {"processing", "failed", "cancelled", "manual_review",
                  "completed"}
    BY DEF EndsInOutcome, HearsCancel, RunFails, TellsOfUnbound, RunDies,
           EndsAs, storedVars, PagesIInv, Progress
  <1>3. PagesTypeOK'
    BY <1>1, <1>2 DEF PagesIInv, PagesTypeOK, ConversionPlaces
  <1>4. Progress' /\ Keeps'
    BY <1>1 DEF Progress, Keeps
  <1>5. Justified'
    BY <1>1, StaysJustified
  <1>6. OutcomeTellsReview'
    <2>1. CASE EndsInOutcome
      <3>1. /\ running = "ending"
            /\ row' = IF AnyReview THEN "manual_review" ELSE "completed"
        BY <2>1 DEF EndsInOutcome, EndsAs
      <3>2. \A p \in Numbers : docx[p] = results[p] /\ results[p] # "none"
        BY <3>1 DEF PagesIInv, Progress
      <3>3. \A p \in Numbers : Shows(p)'
        BY <1>1, <3>2 DEF Shows
      <3>4. \A p \in Numbers : NeedsReview(p)' = NeedsReview(p)
        BY <1>1 DEF NeedsReview
      <3> QED
        BY <3>1, <3>3, <3>4 DEF OutcomeTellsReview, AnyReview
    <2>2. CASE HearsCancel \/ RunFails \/ TellsOfUnbound \/ RunDies
      <3>1. row' \notin {"completed", "manual_review"}
        BY <2>2 DEF HearsCancel, RunFails, TellsOfUnbound, RunDies, EndsAs,
                    storedVars, PagesIInv, Progress
      <3> QED
        BY <3>1, NoOutcomeYet
    <2> QED
      BY <2>1, <2>2
  <1> QED
    BY <1>3, <1>4, <1>5, <1>6 DEF PagesIInv

\* Nothing but these steps, or a stutter
LEMMA PagesStep == PagesIInv /\ [PagesNext]_pagesVars => PagesIInv'
  <1> SUFFICES ASSUME PagesIInv, [PagesNext]_pagesVars PROVE PagesIInv'
    OBVIOUS
  <1>1. CASE UNCHANGED pagesVars
    <2>1. UNCHANGED <<evidence, legible, local, row, docx, checkpoint,
                      running, ocr, results, pageNo, regions, reread,
                      reviewed, cancelled, runs>>
      BY <1>1 DEF pagesVars, documentVars, storedVars, ocrVars
    <2>2. PagesTypeOK' /\ Progress' /\ Keeps'
      BY <2>1 DEF PagesIInv, PagesTypeOK, Progress, Keeps
    <2>3. Justified'
      BY <2>1, StaysJustified
    <2>4. \A p \in Numbers :
             Shows(p)' = Shows(p) /\ NeedsReview(p)' = NeedsReview(p)
      BY <2>1 DEF Shows, NeedsReview
    <2>5. OutcomeTellsReview'
      BY <2>1, <2>4 DEF PagesIInv, OutcomeTellsReview
    <2> QED
      BY <2>2, <2>3, <2>5 DEF PagesIInv
  <1>2. CASE PagesNext
    BY <1>2, PageSteps, Beginning, RunningOn, Ending DEF PagesNext
  <1> QED
    BY <1>1, <1>2

LEMMA PagesInvariant == PagesSpec => []PagesIInv
  BY PagesInitial, PagesStep, PTL DEF PagesSpec

\* A conversion's state always has its values, for documents of any length and
\* any number of regions and runs.
THEOREM PagesTypeCorrect == PagesSpec => []PagesTypeOK
  <1>1. PagesIInv => PagesTypeOK
    BY DEF PagesIInv
  <1> QED
    BY <1>1, PagesInvariant, PTL

\* The outcome of a conversion follows from all of its pages, those of earlier
\* runs included, and its document shows text only as the analysis of the page
\* allowed (PagesHold; process_pdf, _normalize_manual_review_flags).
THEOREM PagesTruth == PagesSpec => []PagesHold
  <1>1. PagesIInv => PagesHold
    BY DEF PagesIInv, PagesHold, Justified, Allows, TextIsTrusted
  <1> QED
    BY <1>1, PagesInvariant, PTL

\* A step never changes what the checkpoint says of a page it has.
LEMMA CheckpointStays ==
  ASSUME PagesIInv, [PagesNext]_pagesVars, NEW p \in Numbers,
         checkpoint[p] # "none"
  PROVE  checkpoint'[p] = checkpoint[p]
  <1>1. CASE checkpoint' = checkpoint
    BY <1>1
  <1>2. CASE checkpoint' # checkpoint
    <2>1. DecidesPage \/ ReconcilesPage
      BY <1>2 DEF PagesNext, pagesVars, storedVars, BeginsRun, SkipsPage,
         RereadsRegion, EndsPages, TellsStatus, TellsOfUnbound, EndsAs,
         GoesOn, WritesDocx, EndsInOutcome, HearsCancel, RunFails, CancelsRun,
         RunDies
    <2>2. PICK r : Decides(r)
      BY <1>2, <2>1 DEF DecidesPage, LeavesPage, SendsToReview, AwaitsModel,
         ExtractsText, ModelRaises, ReviewsAtOnce, ReviewsRegions, storedVars,
         ReconcilesPage
    <2>3. running # "off" /\ results[pageNo] = "none" /\ pageNo \in Numbers
      BY <2>1 DEF DecidesPage, LeavesPage, SendsToReview, AwaitsModel, Turn,
         ExtractsText, ModelRaises, ReviewsAtOnce, ReviewsRegions,
         ReconcilesPage, PagesIInv, Progress
    <2>4. /\ local /\ checkpoint' = results'
          /\ results' = [results EXCEPT ![pageNo] = r]
      BY <1>2, <2>2 DEF Decides
    <2>5. results[p] = checkpoint[p]
      BY <2>3, <2>4 DEF PagesIInv, Keeps
    <2> QED
      BY <2>3, <2>4, <2>5 DEF PagesIInv, PagesTypeOK
  <1> QED
    BY <1>1, <1>2

\* Before the last look at the cancel no step writes the document or an outcome
\* of a cancelled run.
LEMMA CancelledWritesNothing ==
  ASSUME PagesIInv, [PagesNext]_pagesVars, cancelled,
         running \in {"pages", "rereading", "telling", "deciding"}
  PROVE  docx' = docx /\ row' \notin {"completed", "manual_review"}
  <1>1. row = "processing"
    BY DEF PagesIInv, Progress
  <1>2. CASE UNCHANGED pagesVars
    BY <1>1, <1>2 DEF pagesVars, storedVars
  <1>3. CASE DecidesPage \/ ReconcilesPage
    <2>1. docx' = docx /\ row' = row
      BY <1>3 DEF DecidesPage, LeavesPage, SendsToReview, AwaitsModel,
         ExtractsText, ModelRaises, ReviewsAtOnce, ReviewsRegions, storedVars,
         ReconcilesPage, Decides
    <2> QED
      BY <1>1, <2>1
  <1>4. CASE \/ SkipsPage \/ RereadsRegion \/ EndsPages \/ TellsStatus
             \/ GoesOn \/ CancelsRun \/ RunDies
    BY <1>1, <1>4 DEF SkipsPage, RereadsRegion, EndsPages, TellsStatus,
                      GoesOn, CancelsRun, RunDies, storedVars
  <1>5. CASE TellsOfUnbound \/ HearsCancel \/ RunFails
    BY <1>5 DEF TellsOfUnbound, HearsCancel, RunFails, EndsAs
  <1>6. CASE BeginsRun \/ WritesDocx \/ EndsInOutcome
    BY <1>6 DEF BeginsRun, WritesDocx, EndsInOutcome
  <1> QED
    BY <1>2, <1>3, <1>4, <1>5, <1>6 DEF PagesNext

\* A page a local conversion has decided is never decided again, and a cancel
\* that is set in time is obeyed (ConversionHolds; load_checkpoint,
\* should_cancel).
THEOREM ConversionSteps == PagesSpec => ConversionHolds
  <1>1. PagesIInv /\ [PagesNext]_pagesVars => [KeepsDecisions]_pagesVars
    BY CheckpointStays DEF KeepsDecisions
  <1>2. PagesIInv /\ [PagesNext]_pagesVars => [ObeysCancel]_pagesVars
    BY CancelledWritesNothing DEF ObeysCancel
  <1>3. PagesSpec => DecidedOnce
    BY <1>1, PagesInvariant, PTL DEF PagesSpec, DecidedOnce
  <1>4. PagesSpec => CancelEnds
    BY <1>2, PagesInvariant, PTL DEF PagesSpec, CancelEnds
  <1> QED
    BY <1>3, <1>4 DEF ConversionHolds

-----------------------------------------------------------------------------
(* How a run ends *)

PlaceRank ==
    IF running = "pages" THEN 6
    ELSE IF running = "rereading" THEN 5
    ELSE IF running = "telling" THEN 4
    ELSE IF running = "deciding" THEN 3
    ELSE IF running = "writing" THEN 2
    ELSE IF running = "ending" THEN 1
    ELSE 0

\* What a run has before it: pages, the places it goes to with a page and with
\* the document, the regions of a page, and a cancel
PagesRank ==
    <<DocumentPages + 1 - pageNo, PlaceRank, regions, IF cancelled THEN 0 ELSE 1>>

PagesFallAt(i) ==
    /\ PagesRank'[i] < PagesRank[i]
    /\ \A j \in 1..(i - 1) : PagesRank'[j] <= PagesRank[j]

\* Every step of a run brings it nearer to its end.
PagesNearEnd ==
    /\ \A i \in 1..4 : PagesRank[i] \in Nat
    /\ BeginsRun \/ \E i \in 1..4 : PagesFallAt(i)

LEMMA PagesRankIsNat ==
  ASSUME PagesTypeOK
  PROVE  \A i \in 1..4 : PagesRank[i] \in Nat
  <1>1. /\ DocumentPages + 1 - pageNo \in Nat
        /\ regions \in Nat
    BY Bounds DEF PagesTypeOK
  <1>2. PlaceRank \in Nat
    BY DEF PlaceRank
  <1>3. (IF cancelled THEN 0 ELSE 1) \in Nat
    OBVIOUS
  <1>4. /\ PagesRank[1] \in Nat /\ PagesRank[2] \in Nat /\ PagesRank[3] \in Nat
        /\ PagesRank[4] \in Nat
    BY <1>1, <1>2, <1>3 DEF PagesRank
  <1>5. \A i \in 1..4 : i = 1 \/ i = 2 \/ i = 3 \/ i = 4
    OBVIOUS
  <1> HIDE DEF PagesRank
  <1> QED BY <1>4, <1>5

LEMMA PagesFall ==
  ASSUME PagesIInv, PagesNext, ~BeginsRun
  PROVE  \E i \in 1..4 : PagesFallAt(i)
  <1>1. /\ pageNo \in 1..(DocumentPages + 1) /\ regions \in 0..MaxRegions
        /\ cancelled \in BOOLEAN
    BY DEF PagesIInv, PagesTypeOK
  <1>2. CASE pageNo' = pageNo + 1
    <2>1. PagesFallAt(1)
      BY <1>1, <1>2, Bounds DEF PagesFallAt, PagesRank
    <2> QED BY <2>1
  <1>3. CASE pageNo' = pageNo /\ PlaceRank' < PlaceRank
    <2>1. PagesFallAt(2)
      BY <1>1, <1>3, Bounds DEF PagesFallAt, PagesRank
    <2> QED BY <2>1
  <1>4. CASE RereadsRegion
    <2>1. pageNo' = pageNo /\ running' = running /\ regions' = regions - 1
      BY <1>4 DEF RereadsRegion
    <2>2. PlaceRank' <= PlaceRank
      BY <2>1 DEF PlaceRank
    <2>3. PagesFallAt(3)
      BY <1>1, <2>1, <2>2, Bounds DEF PagesFallAt, PagesRank
    <2> QED BY <2>3
  <1>5. CASE CancelsRun
    <2>1. /\ pageNo' = pageNo /\ running' = running /\ regions' = regions
          /\ ~cancelled /\ cancelled'
      BY <1>5 DEF CancelsRun, ocrVars
    <2>2. PlaceRank' <= PlaceRank
      BY <2>1 DEF PlaceRank
    <2>3. PagesFallAt(4)
      BY <1>1, <2>1, <2>2, Bounds DEF PagesFallAt, PagesRank
    <2> QED BY <2>3
  <1>6. CASE ReviewsRegions
    BY <1>3, <1>6 DEF ReviewsRegions, Turn, PlaceRank
  <1>7. CASE \/ LeavesPage \/ SendsToReview \/ AwaitsModel \/ ExtractsText
             \/ ModelRaises \/ ReviewsAtOnce \/ ReconcilesPage \/ SkipsPage
    BY <1>2, <1>7 DEF LeavesPage, SendsToReview, AwaitsModel, ExtractsText,
         ModelRaises, ReviewsAtOnce, ReconcilesPage, SkipsPage, Decides
  <1>8. CASE \/ EndsPages \/ TellsStatus \/ GoesOn \/ WritesDocx
             \/ TellsOfUnbound \/ EndsInOutcome
    BY <1>3, <1>8 DEF EndsPages, TellsStatus, GoesOn, WritesDocx, PlaceRank,
         TellsOfUnbound, EndsInOutcome, EndsAs, LeavesRest
  <1>9. CASE HearsCancel \/ RunFails \/ RunDies
    <2>1. /\ pageNo' = pageNo /\ running' = "off"
          /\ running \in ConversionPlaces \ {"off"}
      BY <1>9 DEF HearsCancel, RunFails, RunDies, EndsAs, LeavesRest,
                  PagesIInv, PagesTypeOK
    <2> QED BY <1>3, <2>1 DEF PlaceRank, ConversionPlaces
  <1> QED BY <1>4, <1>5, <1>6, <1>7, <1>8, <1>9 DEF PagesNext, DecidesPage

\* A run of a conversion comes to its end: each of its steps, rereadings,
\* failures and cancels included, lowers a rank of pages, places and regions;
\* only the beginning of another run raises it (process_pdf,
\* execute_selective_reread).
THEOREM ConversionsEnd == PagesSpec => [][PagesNearEnd]_pagesVars
  <1>1. PagesIInv /\ [PagesNext]_pagesVars => [PagesNearEnd]_pagesVars
    BY PagesRankIsNat, PagesFall DEF PagesNearEnd, PagesIInv
  <1> QED BY <1>1, PagesInvariant, PTL DEF PagesSpec
=============================================================================
