----------------------------- MODULE FactoryRun -----------------------------
(***************************************************************************)
(* One run of the data factory: its folder, the outputs in it, the         *)
(* manifest that lists them, and the processes that generate or resume it. *)
(* The manifest is only written at the end of a process, from what that    *)
(* process read of it at its start and what it made.  A process may die,   *)
(* or raise, at any step; nothing keeps two from working at once.          *)
(*                                                                         *)
(* An item is a page in one variant, in the order of _process_document; a  *)
(* document is a content, its id the hash of that, so two sources may be   *)
(* one document.  Outputs are a function of the document and the item (the *)
(* seeds are derived), and are written under a temporary name and renamed: *)
(* one is whole, was never there, or was lost (removed or changed) later.  *)
(* A source of an unknown type, which fails without a document, is as a    *)
(* document that cannot be rendered.                                       *)
(***************************************************************************)
EXTENDS Integers, FiniteSets

CONSTANTS
    Makers,         \* processes that run generate_run
    Sources,        \* input files
    Documents,      \* contents of them
    ItemCount,      \* pages times variants
    NoDocument,
    MaxLaunches,    \* bound on the processes begun
    MaxMishaps      \* bound on failures, crashes, losses and edits

ASSUME FactoryAssumption ==
    /\ IsFiniteSet(Sources)
    /\ ItemCount \in Nat \ {0} /\ NoDocument \notin Documents
    /\ MaxLaunches \in Nat /\ MaxMishaps \in Nat

Items == 1..ItemCount
WholeDocument == 0    \* the item of a row without page_index

VARIABLES
    contentOf,   \* of each source
    output,      \* of each document and item: "absent", "whole" or "lost"
    runDir,      \* "none", "bare" (without manifest.jsonl) or "listed"
    listing,     \* manifest.jsonl
    listingCsv,  \* manifest.csv
    maker,       \* what each process knows
    launched,
    mishaps

filesVars == <<contentOf, output>>
listsVars == <<runDir, listing, listingCsv>>
countVars == <<launched, mishaps>>
factoryVars == <<filesVars, listsVars, maker, countVars>>

\* The rows of a source, and the rows auto_run adds for PDFs it cannot read
ItemRows == [doc : Documents, source : Sources,
             item : Items \cup {WholeDocument}, ok : BOOLEAN]
Listings == [rows : SUBSET ItemRows, pdfs : Nat]
NoRows == [rows |-> {}, pdfs |-> 0]

RowOf(d, s, i, ok) == [doc |-> d, source |-> s, item |-> i, ok |-> ok]

MakerPlaces == {"off", "making", "exporting", "closing", "folding", "ending"}

\* A process of which only the resume flag, the rows it read and whether it
\* is alone are known
MakerAt(place, resume, read, alone) ==
    [at |-> place, resume |-> resume, read |-> read, made |-> {},
     doc |-> [s \in Sources |-> NoDocument], left |-> [s \in Sources |-> {}],
     alone |-> alone, disturbed |-> FALSE]

NotAtWork == MakerAt("off", FALSE, NoRows, FALSE)

AtWork == {m \in Makers : maker[m].at # "off"}

\* history: m is not alone any more, nor are the others
Joins(m, new) ==
    [n \in Makers |-> IF n = m THEN new ELSE [maker[n] EXCEPT !.alone = FALSE]]

\* history: something failed, was lost or edited while the process worked
Disturbs == maker' = [m \in Makers |-> [maker[m] EXCEPT !.disturbed = TRUE]]

-----------------------------------------------------------------------------
(* plan_run, and what generate_run reads before it works *)

\* A run that is not resumed must not exist: mkdir of its folder
Launches(m) ==
    /\ maker[m].at = "off" /\ launched < MaxLaunches /\ runDir = "none"
    /\ runDir' = "bare"
    /\ maker' = Joins(m, MakerAt("making", FALSE, NoRows, AtWork = {}))
    /\ launched' = launched + 1
    /\ UNCHANGED <<filesVars, listing, listingCsv, mishaps>>

\* prior_hashes: what the rows of a source were made of
PriorDocuments(s) == {r.doc : r \in {q \in listing.rows : q.source = s}}

\* Mutant: the sources are not compared.
SourcesPass == TRUE

SourcesAreThose == \A s \in Sources : PriorDocuments(s) \subseteq {contentOf[s]}

\* A resumed run must have a manifest and the sources it was made of.
Resumes(m) ==
    /\ maker[m].at = "off" /\ launched < MaxLaunches /\ runDir = "listed"
    /\ SourcesAreThose
    /\ maker' = Joins(m, MakerAt("making", TRUE, listing, AtWork = {}))
    /\ launched' = launched + 1
    /\ UNCHANGED <<filesVars, listsVars, mishaps>>

-----------------------------------------------------------------------------
(* _process_document, of several sources at once with workers > 1 *)

\* Mutant: what the manifest says is complete, without a look at the output.
IsListed(d, i) ==
    \E r \in listing.rows : r.doc = d /\ r.item = i /\ r.ok

\* _row_output_is_valid
IsValid(d, i) == IsListed(d, i) /\ output[<<d, i>>] = "whole"

\* completed: a process that resumes reads the manifest again, for each source
CompleteItems(m, d) ==
    IF maker[m].resume THEN {i \in Items : IsValid(d, i)} ELSE {}

IsWaiting(m, s) == maker[m].at = "making" /\ maker[m].doc[s] = NoDocument

OpensSource(m, s) ==
    /\ IsWaiting(m, s)
    /\ LET d == contentOf[s] IN
       maker' = [maker EXCEPT ![m].doc[s] = d,
                              ![m].left[s] = Items \ CompleteItems(m, d)]
    /\ UNCHANGED <<filesVars, listsVars, countVars>>

\* The renderer is unavailable or fails: one row for the document
CannotRender(m, s) ==
    /\ IsWaiting(m, s) /\ mishaps < MaxMishaps
    /\ LET d == contentOf[s] IN
       maker' = [maker EXCEPT
           ![m].doc[s] = d, ![m].disturbed = TRUE,
           ![m].made = @ \cup {RowOf(d, s, WholeDocument, FALSE)}]
    /\ mishaps' = mishaps + 1
    /\ UNCHANGED <<filesVars, listsVars, launched>>

NextItem(m, s, i) ==
    /\ maker[m].at = "making" /\ i \in maker[m].left[s]
    /\ \A j \in maker[m].left[s] : i <= j

\* save_page_png, jpeg_images_to_pdf and the row of the two
MakesItem(m, s) ==
    \E i \in Items :
        /\ NextItem(m, s, i)
        /\ LET d == maker[m].doc[s] IN
           /\ output' = [output EXCEPT ![<<d, i>>] = "whole"]
           /\ maker' = [maker EXCEPT ![m].left[s] = @ \ {i},
                                     ![m].made = @ \cup {RowOf(d, s, i, TRUE)}]
        /\ UNCHANGED <<contentOf, listsVars, countVars>>

\* per-page failure isolation
ItemFails(m, s) ==
    \E i \in Items :
        /\ NextItem(m, s, i) /\ mishaps < MaxMishaps
        /\ maker' = [maker EXCEPT
               ![m].left[s] = @ \ {i}, ![m].disturbed = TRUE,
               ![m].made = @ \cup {RowOf(maker[m].doc[s], s, i, FALSE)}]
        /\ mishaps' = mishaps + 1
        /\ UNCHANGED <<filesVars, listsVars, launched>>

-----------------------------------------------------------------------------
(* The end of generate_run, and of auto_run *)

SameIdentity(r, q) == r.doc = q.doc /\ r.source = q.source /\ r.item = q.item

\* recovered_documents: an earlier failure of the document as a whole goes
\* with the first item of it that succeeds.
IsRecovered(r, made) ==
    /\ r.item = WholeDocument
    /\ \E q \in made : q.ok /\ q.doc = r.doc /\ q.source = r.source

IsReplaced(r, made) == \E q \in made : SameIdentity(r, q)

\* Mutant: a row that is there stays.
AddsTo(old, made) == old \cup {q \in made : ~ IsReplaced(q, old)}

\* Merge by stable identity
Merged(old, made) ==
    {r \in old : ~ IsRecovered(r, made) /\ ~ IsReplaced(r, made)} \cup made

IsDone(m) ==
    /\ maker[m].at = "making"
    /\ \A s \in Sources : maker[m].doc[s] # NoDocument /\ maker[m].left[s] = {}

\* write_manifest_jsonl
WritesListing(m) ==
    /\ IsDone(m)
    /\ LET all == [rows |-> Merged(maker[m].read.rows, maker[m].made),
                   pdfs |-> maker[m].read.pdfs] IN
       /\ listing' = all
       /\ maker' = [maker EXCEPT ![m].read = all, ![m].at = "exporting"]
    /\ runDir' = "listed"
    /\ UNCHANGED <<filesVars, listingCsv, countVars>>

\* write_manifest_csv and metadata.json, which only counts the same rows
Exports(m) ==
    /\ maker[m].at \in {"exporting", "ending"}
    /\ listingCsv' = maker[m].read
    /\ maker' = [maker EXCEPT ![m] =
         IF @.at = "exporting" THEN [@ EXCEPT !.at = "closing"] ELSE NotAtWork]
    /\ UNCHANGED <<filesVars, runDir, listing, countVars>>

\* generate, or run without a PDF that cannot be read
EndsWell(m) ==
    /\ maker[m].at = "closing"
    /\ maker' = [maker EXCEPT ![m] = NotAtWork]
    /\ UNCHANGED <<filesVars, listsVars, countVars>>

\* pdf_failures: the manifest is read again...
ReadsListing(m) ==
    /\ maker[m].at = "closing"
    /\ maker' = [maker EXCEPT ![m].read = listing, ![m].at = "folding"]
    /\ UNCHANGED <<filesVars, listsVars, countVars>>

\* ... and written with one row more, whether such a row is there or not.
FoldsPdf(m) ==
    /\ maker[m].at = "folding"
    /\ LET all == [maker[m].read EXCEPT !.pdfs = @ + 1] IN
       /\ listing' = all
       /\ maker' = [maker EXCEPT ![m].read = all, ![m].at = "ending"]
    /\ UNCHANGED <<filesVars, runDir, listingCsv, countVars>>

-----------------------------------------------------------------------------
(* What goes wrong *)

\* The process is killed, or an exception leaves _process_document: nothing
\* it made is listed.
Collapses(m) ==
    /\ maker[m].at # "off" /\ mishaps < MaxMishaps
    /\ maker' = [maker EXCEPT ![m] = NotAtWork]
    /\ mishaps' = mishaps + 1
    /\ UNCHANGED <<filesVars, listsVars, launched>>

LosesOutput ==
    /\ mishaps < MaxMishaps
    /\ \E d \in Documents, i \in Items :
        /\ output[<<d, i>>] = "whole"
        /\ output' = [output EXCEPT ![<<d, i>>] = "lost"]
    /\ Disturbs
    /\ mishaps' = mishaps + 1
    /\ UNCHANGED <<contentOf, listsVars, launched>>

EditsSource ==
    /\ mishaps < MaxMishaps
    /\ \E s \in Sources, d \in Documents :
        /\ d # contentOf[s]
        /\ contentOf' = [contentOf EXCEPT ![s] = d]
    /\ Disturbs
    /\ mishaps' = mishaps + 1
    /\ UNCHANGED <<output, listsVars, launched>>

-----------------------------------------------------------------------------
FactoryInit ==
    /\ contentOf \in [Sources -> Documents]
    /\ output = [p \in Documents \X Items |-> "absent"]
    /\ runDir = "none" /\ listing = NoRows /\ listingCsv = NoRows
    /\ maker = [m \in Makers |-> NotAtWork]
    /\ launched = 0 /\ mishaps = 0

FactoryNext ==
    \/ \E m \in Makers :
        \/ Launches(m) \/ Resumes(m)
        \/ WritesListing(m) \/ Exports(m) \/ EndsWell(m)
        \/ ReadsListing(m) \/ FoldsPdf(m) \/ Collapses(m)
        \/ \E s \in Sources :
            \/ OpensSource(m, s) \/ CannotRender(m, s)
            \/ MakesItem(m, s) \/ ItemFails(m, s)
    \/ LosesOutput \/ EditsSource

FactorySpec == FactoryInit /\ [][FactoryNext]_factoryVars

-----------------------------------------------------------------------------
(* Properties *)

MakerStates ==
    [at : MakerPlaces, resume : BOOLEAN, read : Listings,
     made : SUBSET ItemRows, doc : [Sources -> Documents \cup {NoDocument}],
     left : [Sources -> SUBSET Items], alone : BOOLEAN, disturbed : BOOLEAN]

\* Type invariant of a run of the factory.
FactoryTypeOK ==
    /\ contentOf \in [Sources -> Documents]
    /\ output \in [Documents \X Items -> {"absent", "whole", "lost"}]
    /\ runDir \in {"none", "bare", "listed"}
    /\ listing \in Listings /\ listingCsv \in Listings
    /\ maker \in [Makers -> MakerStates]
    /\ launched \in 0..MaxLaunches /\ mishaps \in 0..MaxMishaps

\* What is listed as made and is there
Delivered ==
    {p \in Documents \X Items :
        /\ output[p] = "whole"
        /\ \E r \in listing.rows : r.doc = p[1] /\ r.item = p[2] /\ r.ok}

EndsNow(m) ==
    /\ maker[m].at \in {"closing", "ending"} /\ maker'[m].at = "off"
    /\ mishaps' = mishaps

\* Every source is of one content, each of its items is listed and there,
\* and both forms of the manifest say so.
IsComplete ==
    /\ \A s \in Sources :
        /\ \A r \in listing.rows : r.source = s => r.doc = contentOf[s]
        /\ \A i \in Items : <<contentOf[s], i>> \in Delivered
    /\ listingCsv = listing

\* A process that is alone and meets no failure completes the run, whatever
\* earlier ones left behind (_process_document, generate_run).
EndsComplete ==
    \A m \in Makers :
        EndsNow(m) /\ maker[m].alone /\ ~ maker[m].disturbed
            => IsComplete'

\* What is listed and there is so for good, unless its file is lost or two
\* processes work at once (generate_run, atomic_target).
KeepsDelivered ==
    \A p \in Delivered :
        \/ p \in Delivered'
        \/ output'[p] = "lost"
        \/ \E m \in AtWork : ~ maker[m].alone

\* A row is in the manifest only after its file was (_process_document).
ListedWasMade ==
    \A r \in listing.rows \cup listingCsv.rows :
        r.ok => output[<<r.doc, r.item>>] # "absent"

\* A run can be broken off and resumed: what is listed was made, what was made
\* and listed stays, and a resumed run completes.
ResumesHold ==
    /\ []ListedWasMade
    /\ [][KeepsDelivered /\ EndsComplete]_factoryVars
=============================================================================
