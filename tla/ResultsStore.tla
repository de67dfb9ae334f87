---------------------------- MODULE ResultsStore ----------------------------
(***************************************************************************)
(* The bundle of one inference run: its JSON Lines files, its summary and  *)
(* its metadata, and the writers that ingest into it at once.  An append   *)
(* holds the run's lock from the reading of the files to the last row, a   *)
(* finalization only while it appends.  A writer may die anywhere, in the  *)
(* middle of a row as well.  A part of a row is a line that no reader      *)
(* parses.  A row that lacks but the end of its line is read like any      *)
(* other, until the next append writes on behind it: both are one line     *)
(* then, and no reader parses that.                                        *)
(*                                                                         *)
(* A row is its page, what it says of pages (a content, a text, the score  *)
(* of a text, or, in the row of the whole run, the scores it is made of)   *)
(* and, for a prediction, the time it was made: the others are compared    *)
(* without it.  Ground truth is appended like pages and is left out, as    *)
(* are the artifacts, the index and the checks of dataset, model and split.*)
(***************************************************************************)
EXTENDS Integers, Sequences, FiniteSets, SequencesExt

CONSTANTS
    Writers,
    PageIds,
    Texts,        \* contents of a page, texts of a prediction
    WholeRun,     \* stands for the page of a row of the run
    NoWriter,
    MaxCalls      \* bound on the calls

ASSUME ResultsAssumption ==
    /\ WholeRun \notin PageIds /\ NoWriter \notin Writers /\ MaxCalls \in Nat
    /\ IsFiniteSet(PageIds)

Files == {"pages", "predictions", "metrics"}

VARIABLES
    rows,       \* of each file, the whole ones
    tornFile,   \* the files with a line that does not parse
    openEnd,    \* the files whose last line has no end
    holder,     \* of the run's ingest lock
    writer,     \* the call each writer is in
    runState,     \* of the run, in metadata.json
    summary,    \* summary.json: the scores and the predictions it counts
    calls

resultsVars == <<rows, tornFile, openEnd, holder, writer, runState, summary, calls>>

Said == SUBSET (PageIds \X Texts)
NoSummary == [scores |-> {}, count |-> -1]

Row(p, said, made) == [page |-> p, says |-> said, made |-> made]

\* A call: where it is, the file it appends to and the rows that are left,
\* the rows it read, and what a finalization computed and read.
Call(place, file, todo) ==
    [at |-> place, file |-> file, todo |-> todo, all |-> Range(todo),
     existing |-> {}, known |-> {}, ends |-> FALSE, scores |-> {}]

Idle == Call("off", "pages", <<>>)

Becomes(w, call) == writer' = [writer EXCEPT ![w] = call]

PagesIn(f) == {r.page : r \in Range(rows[f])}

bundleVars == <<rows, tornFile, openEnd, runState, summary>>

\* Mutant: a line that does not parse is passed over.
ReadsOver(f) == TRUE

\* iter_jsonl raises on such a line.
Readable(f) == f \notin tornFile

-----------------------------------------------------------------------------
(* The calls *)

Calls(w) == writer[w].at = "off" /\ calls < MaxCalls /\ calls' = calls + 1

\* append_pages, of a manifest with one content for each page
AddsPages(w, p, q, text) ==
    /\ Calls(w)
    /\ Becomes(w, Call("waiting", "pages",
         <<Row(p, {<<p, text>>}, 0), Row(q, {<<q, text>>}, 0)>>))
    /\ UNCHANGED <<bundleVars, holder>>

\* add_prediction: get_page, before the lock is taken
AddsPrediction(w, p, text) ==
    /\ Calls(w) /\ p \in PagesIn("pages")
    /\ Becomes(w, Call("waiting", "predictions",
                       <<Row(p, {<<p, text>>}, calls + 1)>>))
    /\ UNCHANGED <<bundleVars, holder>>

\* evaluate_prediction, of a prediction that is stored
Evaluates(w, r) ==
    /\ Calls(w)
    /\ Becomes(w, Call("waiting", "metrics",
                       <<Row(r.page, r.says, 0)>>))
    /\ UNCHANGED <<bundleVars, holder>>

PageScores == UNION {r.says : r \in {m \in Range(rows["metrics"]) :
                                       m.page # WholeRun}}

\* finalize_run: the scores of the pages are read without the lock; without
\* one there is no row of the run to append.
Finalizes(w) ==
    LET todo == IF PageScores = {} THEN <<>>
                ELSE <<Row(WholeRun, PageScores, 0)>>
    IN /\ Calls(w) /\ Readable("metrics")
       /\ Becomes(w, [Call(IF todo = <<>> THEN "counting" ELSE "waiting",
                           "metrics", todo)
                        EXCEPT !.ends = TRUE, !.scores = PageScores])
       /\ UNCHANGED <<bundleVars, holder>>

\* mark_run
MarksRun(w, new) ==
    /\ Calls(w) /\ runState' = new
    /\ UNCHANGED <<rows, tornFile, openEnd, summary, holder, writer>>

-----------------------------------------------------------------------------
(* An append *)

\* Mutant: writers do not exclude each other.
NeverHeld == TRUE

LockIsFree == holder = NoWriter

\* _run_ingest_lock, then the reading of the pages and of the file itself
TakesLock(w) ==
    /\ writer[w].at = "waiting" /\ LockIsFree
    /\ Readable("pages") /\ Readable(writer[w].file)
    /\ holder' = w
    /\ Becomes(w, [writer[w] EXCEPT
         !.at = "appending", !.known = PagesIn("pages") \cup {WholeRun},
         !.existing = Range(rows[writer[w].file])])
    /\ UNCHANGED <<bundleVars, calls>>

\* ValueError of a reader
FindsTorn(w) ==
    /\ writer[w].at = "waiting" /\ LockIsFree
    /\ ~(Readable("pages") /\ Readable(writer[w].file))
    /\ Becomes(w, Idle)
    /\ UNCHANGED <<bundleVars, holder, calls>>

\* The wall clock is part of a prediction (created_at), and of no other row.
SameRow(r, s) == r.says = s.says /\ r.made = s.made

Prior(w) == {r \in writer[w].existing : r.page = Head(writer[w].todo).page}

\* Mutant: only a row that is the same is looked for.
NewUnlessSame(w) ==
    \A r \in Prior(w) : ~SameRow(r, Head(writer[w].todo))

IsNew(w) == Prior(w) = {}

IsConflict(w) ==
    /\ ~IsNew(w)
    /\ \E r \in Prior(w) : ~SameRow(r, Head(writer[w].todo))

KnowsPage(w) ==
    writer[w].file # "pages" => Head(writer[w].todo).page \in writer[w].known

Appending(w) == writer[w].at = "appending" /\ writer[w].todo # <<>>

\* append_jsonl: a line, or what a death leaves of it, is written to the end
\* of the file, and to the last row if that has no end.
Writes(w, much) ==
    LET f == writer[w].file IN
    /\ rows' = [rows EXCEPT ![f] =
         IF f \in openEnd \ tornFile THEN Front(@)
         ELSE IF f \in openEnd \/ much = "part" THEN @
         ELSE Append(@, Head(writer[w].todo))]
    /\ tornFile' = tornFile \cup {g \in {f} : g \in openEnd \/ much = "part"}
    /\ openEnd' = (openEnd \ {f}) \cup {g \in {f} : much # "line"}

Appends(w) == Appending(w) /\ KnowsPage(w) /\ IsNew(w)

AppendsRow(w) ==
    /\ Appends(w) /\ Writes(w, "line")
    /\ Becomes(w, [writer[w] EXCEPT
         !.todo = Tail(@), !.existing = @ \cup {Head(writer[w].todo)}])
    /\ UNCHANGED <<runState, summary, holder, calls>>

\* Mutant: the rest of the batch is dropped.
DropsRest(w) == <<>>

RestOf(w) == Tail(writer[w].todo)

\* An identical row is there already.
PassesRow(w) ==
    /\ Appending(w) /\ KnowsPage(w) /\ ~IsNew(w) /\ ~IsConflict(w)
    /\ Becomes(w, [writer[w] EXCEPT !.todo = RestOf(w)])
    /\ UNCHANGED <<bundleVars, holder, calls>>

\* ConflictingRecordError, or an unknown page; what was appended stays.
RefusesRow(w) ==
    /\ Appending(w) /\ (~KnowsPage(w) \/ IsConflict(w))
    /\ holder' = NoWriter /\ Becomes(w, Idle)
    /\ UNCHANGED <<bundleVars, calls>>

\* The end of the append; a finalization goes on.
Returns(w) ==
    LET call == writer[w] IN
    /\ call.at = "appending" /\ call.todo = <<>>
    /\ holder' = NoWriter
    /\ Becomes(w, IF call.ends THEN [call EXCEPT !.at = "counting"] ELSE Idle)
    /\ UNCHANGED <<bundleVars, calls>>

-----------------------------------------------------------------------------
(* The rest of a finalization, and deaths *)

\* Mutant: the summary is made of the scores there are now.
ScoresNow(w) == PageScores

ScoresRead(w) == writer[w].scores

\* The predictions are counted and summary.json is replaced.
SavesSummary(w) ==
    /\ writer[w].at = "counting"
    /\ Readable("pages") /\ Readable("predictions")
    /\ summary' = [scores |-> ScoresRead(w), count |-> Len(rows["predictions"])]
    /\ Becomes(w, [writer[w] EXCEPT !.at = "marking"])
    /\ UNCHANGED <<rows, tornFile, openEnd, runState, holder, calls>>

CannotCount(w) ==
    /\ writer[w].at = "counting"
    /\ ~(Readable("pages") /\ Readable("predictions"))
    /\ Becomes(w, Idle)
    /\ UNCHANGED <<bundleVars, holder, calls>>

\* save_run_metadata
MarksCompleted(w) ==
    /\ writer[w].at = "marking"
    /\ runState' = "COMPLETED" /\ Becomes(w, Idle)
    /\ UNCHANGED <<rows, tornFile, openEnd, summary, holder, calls>>

\* The lock of a process that dies is released.  The row it was writing may
\* be cut short, by its end of line alone too; so it is by a write that
\* fails, which ends the call.
WriterDies(w) ==
    /\ writer[w].at # "off" /\ Becomes(w, Idle)
    /\ holder' = IF holder = w THEN NoWriter ELSE holder
    /\ \/ UNCHANGED <<rows, tornFile, openEnd>>
       \/ Appends(w) /\ (Writes(w, "part") \/ Writes(w, "row"))
    /\ UNCHANGED <<runState, summary, calls>>

\* A new bundle, or one whose pages all have a prediction by now
InFull(text) ==
    LET pages == SetToSeq({Row(p, {<<p, text>>}, 0) : p \in PageIds}) IN
    [f \in Files |-> IF f = "metrics" THEN <<>> ELSE pages]

ResultsInit ==
    /\ \/ rows = [f \in Files |-> <<>>]
       \/ \E text \in Texts : rows = InFull(text)
    /\ tornFile = {} /\ openEnd = {} /\ holder = NoWriter
    /\ writer = [w \in Writers |-> Idle]
    /\ runState = "CREATED" /\ summary = NoSummary /\ calls = 0

ResultsNext ==
    \E w \in Writers :
        \/ \E p, q \in PageIds, text \in Texts :
             p # q /\ AddsPages(w, p, q, text)
        \/ \E p \in PageIds, text \in Texts : AddsPrediction(w, p, text)
        \/ \E r \in Range(rows["predictions"]) : Evaluates(w, r)
        \/ Finalizes(w) \/ MarksRun(w, "FAILED")
        \/ TakesLock(w) \/ FindsTorn(w) \/ AppendsRow(w) \/ PassesRow(w)
        \/ RefusesRow(w) \/ Returns(w) \/ SavesSummary(w) \/ CannotCount(w)
        \/ MarksCompleted(w) \/ WriterDies(w)

ResultsSpec == ResultsInit /\ [][ResultsNext]_resultsVars

-----------------------------------------------------------------------------
(* Properties *)

\* Type invariant of the results store: the writer that appends has the lock.
ResultsTypeOK ==
    /\ \A f \in Files : \A i \in DOMAIN rows[f] :
         /\ rows[f][i].page \in PageIds \cup {WholeRun}
         /\ rows[f][i].says \in Said
    /\ tornFile \in SUBSET Files /\ openEnd \in SUBSET Files
    /\ \A w \in Writers : writer[w].at = "appending" <=> holder = w
    /\ holder \in Writers \cup {NoWriter}
    /\ runState \in {"CREATED", "FAILED", "COMPLETED"}
    /\ summary.count \in Int /\ calls \in 0..MaxCalls

\* Every reader gets through the file.
Intact(f) == f \notin tornFile

SaysOf(f, p) == {r.says : r \in {s \in Range(rows[f]) : s.page = p}}

\* Writers that ingest at once, retry, or die halfway never leave two rows
\* for one identity: verify_bundle finds no duplicate page or prediction.
OneRowEach ==
    \A f \in Files : \A i, j \in DOMAIN rows[f] :
        rows[f][i].page = rows[f][j].page => i = j

\* Every prediction is of a page of the bundle, and every score is that of
\* the one text stored for its page: what verify_bundle calls an unknown
\* page does not come about by any order of calls, as long as the pages (the
\* predictions) can be read.
RowsFitTogether ==
    /\ Intact("pages") => PagesIn("predictions") \subseteq PagesIn("pages")
    /\ Intact("predictions") =>
         \A r \in Range(rows["metrics"]) :
            r.page # WholeRun => SaysOf("predictions", r.page) = {r.says}

\* Of finalizations that overlap with appends of scores, with each other or
\* that are repeated, the summary repeats the row of the run in the metrics,
\* or was made when there was no score.
SummaryIsTheRow ==
    \/ summary.scores = {} \/ ~Intact("metrics")
    \/ SaysOf("metrics", WholeRun) = {summary.scores}

\* What verify_bundle and the summary's reader rely on, together
RowsAgree == OneRowEach /\ RowsFitTogether /\ SummaryIsTheRow

\* An append that returned has all of its rows in the file, those that were
\* there before and those that an earlier, failed try had written included,
\* or every reader of the file raises.
IsStored(w) ==
    Returns(w) /\ Intact(writer[w].file) =>
        \A r \in writer[w].all : r.says \in SaysOf(writer[w].file, r.page)
ReturnedIsStored == [][\A w \in Writers : IsStored(w)]_resultsVars

\* What no reader will return again: the last row, whose line a death had
\* left without its end, once something was written behind it.
LosesLast(f) ==
    /\ f \in openEnd \ tornFile /\ f \in tornFile'
    /\ rows'[f] = Front(rows[f])

\* Files only grow at their end, but for a loss of that kind; and not at all
\* behind a part of a row, to which a new one would be glued.
GrowsWhole ==
    \A f \in Files :
        /\ IsPrefix(rows[f], rows'[f]) \/ LosesLast(f)
        /\ f \in openEnd \cap tornFile => rows'[f] = rows[f] /\ f \in openEnd'
FilesGrowWhole == [][GrowsWhole]_resultsVars

\* What an append returned for is there for as long as the file can be read,
\* through deaths and rows cut short anywhere: none is lost without every
\* later reader raising (append_jsonl, iter_jsonl, _run_ingest_lock).
AppendsHold == ReturnedIsStored /\ FilesGrowWhole
=============================================================================
