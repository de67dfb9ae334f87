--------------------------- MODULE RunFilesProofs ---------------------------
(***************************************************************************)
(* Proofs about three parts of MCParts that keep records of a run in files *)
(* through crashes, a bundle of results, a dataset workspace and a run of  *)
(* the factory, for any numbers of writers, calls, pages, samples, groups, *)
(* sources and items; and the six parts of MCParts together.               *)
(*                                                                         *)
(* Results: a call that appends has seen the whole of its file, holds the  *)
(* lock, does not write behind a part of a row, and has stored what is not *)
(* left to do, unless its file can no longer be read (CallFits, CallOK).   *)
(*                                                                         *)
(* Dataset: while splits are assigned, the rows that are linked and those  *)
(* of merged groups have one split or none (LeakFree, AgreesOn), and what  *)
(* was read is merged with the owner of its hashes (ReadIsMerged).         *)
(*                                                                         *)
(* Factory: what a process that is alone has still to do, or has failed    *)
(* at, is not delivered unless it made it (MakerAlone), and if it met no   *)
(* failure the rest is there, and listed or made (MakerFresh, SourceOK).   *)
(* A process comes to its end: MakerRank falls with each of its steps.     *)
(***************************************************************************)
EXTENDS MCParts, PageConversionProofs, LabProofs, SequenceTheorems,
        FiniteSetTheorems

-----------------------------------------------------------------------------
(* The bundle of a run *)

LEMMA RangeAppend ==
  ASSUME NEW T, NEW s \in Seq(T), NEW e \in T
  PROVE  /\ Append(s, e) \in Seq(T)
         /\ Range(Append(s, e)) = Range(s) \cup {e}
  <1>1. Append(s, e) \in Seq(T)
    OBVIOUS
  <1>2. \A x : x \in Range(Append(s, e)) => x \in Range(s) \cup {e}
    BY DEF Range
  <1>3. e \in Range(Append(s, e))
    <2>1. /\ Len(s) + 1 \in DOMAIN Append(s, e)
          /\ Append(s, e)[Len(s) + 1] = e
      OBVIOUS
    <2> QED
      BY <2>1 DEF Range
  <1>4. \A x \in Range(s) : x \in Range(Append(s, e))
    <2> SUFFICES ASSUME NEW i \in DOMAIN s PROVE s[i] \in Range(Append(s, e))
      BY DEF Range
    <2>1. i \in DOMAIN Append(s, e) /\ Append(s, e)[i] = s[i]
      OBVIOUS
    <2> QED
      BY <2>1 DEF Range
  <1> QED
    BY <1>1, <1>2, <1>3, <1>4

LEMMA RangeTail ==
  ASSUME NEW T, NEW s \in Seq(T), s # <<>>
  PROVE  /\ Head(s) \in T /\ Tail(s) \in Seq(T)
         /\ Range(s) = {Head(s)} \cup Range(Tail(s))
  <1>1. Head(s) \in T /\ Tail(s) \in Seq(T) /\ Head(s) = s[1]
    OBVIOUS
  <1>2. /\ Len(s) \in Nat /\ Len(s) >= 1 /\ Len(Tail(s)) = Len(s) - 1
        /\ \A i \in 1..Len(Tail(s)) : Tail(s)[i] = s[i + 1]
        /\ DOMAIN s = 1..Len(s) /\ DOMAIN Tail(s) = 1..Len(Tail(s))
    OBVIOUS
  <1>3. Head(s) \in Range(s)
    BY <1>1, <1>2 DEF Range
  <1>4. ASSUME NEW x \in Range(Tail(s)) PROVE x \in Range(s)
    <2>1. PICK i \in 1..Len(Tail(s)) : x = Tail(s)[i]
      BY <1>2, <1>4 DEF Range
    <2>2. i + 1 \in DOMAIN s /\ x = s[i + 1]
      BY <1>2, <2>1
    <2> QED
      BY <2>2 DEF Range
  <1>5. ASSUME NEW x \in Range(s), x # Head(s) PROVE x \in Range(Tail(s))
    <2>1. PICK i \in 1..Len(s) : x = s[i]
      BY <1>2, <1>5 DEF Range
    <2>2. i # 1
      BY <1>1, <1>5, <2>1
    <2>3. i - 1 \in DOMAIN Tail(s) /\ Tail(s)[i - 1] = x
      BY <1>2, <2>1, <2>2
    <2> QED
      BY <2>3 DEF Range
  <1> QED
    BY <1>1, <1>3, <1>4, <1>5

LEMMA RangeFront ==
  ASSUME NEW T, NEW s \in Seq(T)
  PROVE  /\ Front(s) \in Seq(T) /\ Range(Front(s)) \subseteq Range(s)
         /\ DOMAIN Front(s) \subseteq DOMAIN s
         /\ \A i \in DOMAIN Front(s) : Front(s)[i] = s[i]
  <1>1. /\ Front(s) \in Seq(T)
        /\ DOMAIN Front(s) \subseteq DOMAIN s
        /\ \A i \in DOMAIN Front(s) : Front(s)[i] = s[i]
    BY DEF Front
  <1> QED
    BY <1>1 DEF Range

RowSet == [page : PageIds \cup {WholeRun}, says : Said, made : Nat]

CallSet ==
    [at : {"off", "waiting", "appending", "counting", "marking"},
     file : Files, todo : Seq(RowSet), all : SUBSET RowSet,
     existing : SUBSET RowSet, known : SUBSET (PageIds \cup {WholeRun}),
     ends : BOOLEAN, scores : SUBSET (PageIds \X Texts)]

BundleType ==
    /\ rows \in [Files -> Seq(RowSet)]
    /\ tornFile \in SUBSET Files /\ openEnd \in SUBSET Files
    /\ holder \in Writers \cup {NoWriter}
    /\ writer \in [Writers -> CallSet]
    /\ runState \in {"CREATED", "FAILED", "COMPLETED"}
    /\ summary \in [scores : Said, count : Int]
    /\ calls \in 0..MaxCalls

\* A row that a call has yet to append
TodoOK(c, r) ==
    /\ c.file # "metrics" => r.page # WholeRun
    /\ c.file = "metrics" /\ r.page # WholeRun /\ Intact("predictions") =>
         r.says \in SaysOf("predictions", r.page)
    /\ c.ends => r.page = WholeRun /\ r.says = c.scores

\* The scores of a finalization are in the row of the run, or there are none,
\* or the metrics cannot be read any more.
ScoresStored(c) ==
    Intact("metrics") /\ c.scores # {} =>
        c.scores \in SaysOf("metrics", WholeRun)

\* A call that appends has seen every row of its file, and no others of a file
\* that can be read; and it has stored what is not left to do.
CallFits(c) ==
    /\ c.at \in {"waiting", "appending"} =>
         \A r \in Range(c.todo) : TodoOK(c, r)
    /\ c.at = "waiting" => c.all = Range(c.todo) /\ (c.ends => c.todo # <<>>)
    /\ c.at = "appending" =>
         /\ Range(rows[c.file]) \subseteq c.existing
         /\ Intact(c.file) => c.existing = Range(rows[c.file])
         /\ Intact("pages") =>
              c.known \subseteq PagesIn("pages") \cup {WholeRun}
         /\ Intact(c.file) =>
              \A r \in c.all :
                r \in Range(c.todo) \/ r.says \in SaysOf(c.file, r.page)
         /\ c.ends /\ c.todo = <<>> => ScoresStored(c)
    /\ c.at = "counting" => ScoresStored(c)

\* It has the lock, and its file does not end in a part of a row.
CallOK(w) ==
    /\ writer[w].at = "appending" <=> holder = w
    /\ writer[w].at = "appending" => writer[w].file \notin openEnd \cap tornFile
    /\ CallFits(writer[w])

ResultsIInv ==
    /\ BundleType /\ RowsAgree
    /\ \A w \in Writers : CallOK(w)

LEMMA RowInSet ==
  ASSUME NEW p \in PageIds \cup {WholeRun}, NEW t \in Said, NEW n \in Nat
  PROVE  /\ Row(p, t, n) \in RowSet
         /\ Row(p, t, n).page = p /\ Row(p, t, n).says = t
  BY DEF Row, RowSet

LEMMA CallInSet ==
  ASSUME NEW stage \in {"off", "waiting", "appending", "counting", "marking"},
         NEW f \in Files, NEW s \in Seq(RowSet)
  PROVE  /\ Call(stage, f, s) \in CallSet
         /\ Call(stage, f, s).at = stage /\ Call(stage, f, s).file = f
         /\ Call(stage, f, s).todo = s /\ Call(stage, f, s).all = Range(s)
         /\ ~Call(stage, f, s).ends /\ Call(stage, f, s).scores = {}
  <1>1. Range(s) \subseteq RowSet
    BY DEF Range
  <1> QED
    BY <1>1 DEF Call, CallSet

LEMMA RangeEmpty == Range(<<>>) = {}
  BY DEF Range

LEMMA IdleCall == Idle \in CallSet /\ Idle.at = "off"
  <1>1. <<>> \in Seq(RowSet) /\ "pages" \in Files
    BY DEF Files
  <1>2. \A t \in Seq(RowSet) : /\ Call("off", "pages", t) \in CallSet
                               /\ Call("off", "pages", t).at = "off"
    BY <1>1, CallInSet
  <1> QED
    BY <1>1, <1>2 DEF Idle

\* Membership in the sets the model reads off a file
LEMMA ReadFile ==
  ASSUME BundleType, NEW f \in Files
  PROVE  /\ Range(rows[f]) \subseteq RowSet
         /\ \A p : p \in PagesIn(f) <=> \E r \in Range(rows[f]) : r.page = p
         /\ \A p, t : t \in SaysOf(f, p) <=>
               \E r \in Range(rows[f]) : r.page = p /\ r.says = t
  <1>1. Range(rows[f]) \subseteq RowSet
    BY DEF BundleType, Range
  <1> QED
    BY <1>1 DEF PagesIn, SaysOf

LEMMA ReadFileNext ==
  ASSUME BundleType', NEW f \in Files
  PROVE  /\ Range(rows'[f]) \subseteq RowSet
         /\ \A p : p \in PagesIn(f)' <=> \E r \in Range(rows'[f]) : r.page = p
         /\ \A p, t : t \in SaysOf(f, p)' <=>
               \E r \in Range(rows'[f]) : r.page = p /\ r.says = t
  <1>1. Range(rows'[f]) \subseteq RowSet
    BY DEF BundleType, Range
  <1> QED
    BY <1>1 DEF PagesIn, SaysOf

\* One row for each page: the rows of one page are one row.
LEMMA OneRow ==
  ASSUME BundleType, OneRowEach, NEW f \in Files
  PROVE  \A r, s \in Range(rows[f]) : r.page = s.page => r = s
  BY DEF OneRowEach, Range

\* The rows of a full file: one for each page
LEMMA FullFile ==
  ASSUME NEW S, IsFiniteSet(S)
  PROVE  /\ SetToSeq(S) \in Seq(S)
         /\ \A i, j \in DOMAIN SetToSeq(S) :
               SetToSeq(S)[i] = SetToSeq(S)[j] => i = j
  <1>1. /\ Cardinality(S) \in Nat
        /\ \E f \in [1..Cardinality(S) -> S] : IsInjective(f)
    BY FS_CardinalityType
    DEF ExistsBijection, Bijection, Injection, IsInjective
  <1>2. /\ SetToSeq(S) \in [1..Cardinality(S) -> S]
        /\ IsInjective(SetToSeq(S))
    BY <1>1 DEF SetToSeq
  <1> QED
    BY <1>1, <1>2 DEF IsInjective

LEMMA ResultsInitial == ResultsInit => ResultsIInv
  <1> SUFFICES ASSUME ResultsInit PROVE ResultsIInv
    OBVIOUS
  <1>1. /\ rows \in [Files -> Seq(RowSet)]
        /\ OneRowEach
        /\ rows["metrics"] = <<>> /\ rows["pages"] = rows["predictions"]
    <2>1. CASE rows = [f \in Files |-> <<>>]
      BY <2>1 DEF Files, OneRowEach
    <2>2. ASSUME NEW text \in Texts, rows = InFull(text)
          PROVE  /\ rows \in [Files -> Seq(RowSet)]
                 /\ OneRowEach
                 /\ rows["metrics"] = <<>>
                 /\ rows["pages"] = rows["predictions"]
      <3> DEFINE R(p) == Row(p, {<<p, text>>}, 0)
                 S == {R(p) : p \in PageIds}
                 g == [p \in PageIds |-> R(p)]
                 Q == SetToSeq(S)
      <3>1. rows = [f \in Files |-> IF f = "metrics" THEN <<>> ELSE Q]
        BY <2>2 DEF InFull
      <3>2. \A p \in PageIds : R(p) \in RowSet /\ R(p).page = p
        <4>1. \A p \in PageIds : {<<p, text>>} \in Said
          BY DEF Said
        <4> QED
          BY <4>1, RowInSet
      <3>3. IsFiniteSet(S)
        <4>1. g \in Surjection(PageIds, S)
          BY DEF Surjection
        <4> QED
          BY <4>1, FS_Surjection, ResultsAssumption
      <3>4. /\ S \subseteq RowSet
            /\ \A r, s \in S : r.page = s.page => r = s
        BY <3>2
      <3> HIDE DEF S
      <3>5. Q \in Seq(S) /\ \A i, j \in DOMAIN Q : Q[i] = Q[j] => i = j
        BY <3>3, FullFile
      <3> HIDE DEF Q
      <3>6. /\ Q \in Seq(RowSet)
            /\ \A i, j \in DOMAIN Q : Q[i].page = Q[j].page => i = j
        BY <3>4, <3>5
      <3> QED
        BY <3>1, <3>6 DEF Files, OneRowEach
    <2> QED
      BY <2>1, <2>2 DEF ResultsInit
  <1>2. /\ tornFile = {} /\ openEnd = {} /\ holder = NoWriter
        /\ summary = NoSummary
        /\ \A w \in Writers : writer[w] = Idle
    BY DEF ResultsInit
  <1>3. BundleType
    <2>1. writer \in [Writers -> CallSet]
      BY IdleCall DEF ResultsInit
    <2>2. summary \in [scores : Said, count : Int] /\ calls \in 0..MaxCalls
      BY ResultsAssumption DEF ResultsInit, NoSummary, Said
    <2> QED
      BY <1>1, <1>2, <2>1, <2>2 DEF BundleType, ResultsInit
  <1>4. RowsAgree
    <2>1. PagesIn("predictions") \subseteq PagesIn("pages")
      BY <1>1 DEF PagesIn
    <2>2. Range(rows["metrics"]) = {}
      BY <1>1, RangeEmpty
    <2>3. summary.scores = {}
      BY <1>2 DEF NoSummary
    <2> QED
      BY <1>1, <2>1, <2>2, <2>3
      DEF RowsAgree, RowsFitTogether, SummaryIsTheRow
  <1>5. \A w \in Writers : CallOK(w)
    BY <1>2, IdleCall, ResultsAssumption DEF CallOK, CallFits
  <1> QED
    BY <1>3, <1>4, <1>5 DEF ResultsIInv

\* What a call could read before it can read afterwards, if it can read.
LEMMA RowsGrow ==
  ASSUME BundleType, BundleType', tornFile \subseteq tornFile',
         \A f \in Files \ tornFile' : Range(rows[f]) \subseteq Range(rows'[f])
  PROVE  /\ \A f \in Files : Intact(f)' =>
              Intact(f) /\ \A p : SaysOf(f, p) \subseteq SaysOf(f, p)'
         /\ \A f \in Files : Intact(f)' => PagesIn(f) \subseteq PagesIn(f)'
  BY ReadFile, ReadFileNext DEF Intact

\* A step of one writer leaves the others' calls true: rows only grow, and the
\* file of a writer that appends is changed by that writer alone.
LEMMA OneWriter ==
  ASSUME ResultsIInv, NEW w \in Writers, BundleType', RowsAgree', CallOK(w)',
         \A v \in Writers \ {w} : writer'[v] = writer[v],
         tornFile \subseteq tornFile',
         \A f \in Files \ tornFile' : Range(rows[f]) \subseteq Range(rows'[f]),
         holder # w => UNCHANGED <<rows, tornFile, openEnd>>,
         holder' \in {holder, w, NoWriter},
         holder' # holder => holder \in {w, NoWriter}
  PROVE  ResultsIInv'
  <1> SUFFICES ASSUME NEW v \in Writers, v # w PROVE CallOK(v)'
    BY DEF ResultsIInv
  <1> DEFINE c == writer[v]
  <1>1. BundleType /\ CallOK(v) /\ writer'[v] = c /\ c \in CallSet
    BY DEF ResultsIInv, BundleType
  <1>2. c.at = "appending" <=> holder' = v
    BY <1>1, ResultsAssumption DEF CallOK
  <1>3. /\ \A f \in Files : Intact(f)' =>
              Intact(f) /\ \A p : SaysOf(f, p) \subseteq SaysOf(f, p)'
        /\ \A f \in Files : Intact(f)' => PagesIn(f) \subseteq PagesIn(f)'
        /\ "metrics" \in Files /\ "pages" \in Files /\ "predictions" \in Files
        /\ c.file \in Files
    BY <1>1, RowsGrow DEF Files, CallSet
  <1>4. c.at = "appending" => UNCHANGED <<rows, tornFile, openEnd>>
    BY <1>1 DEF CallOK
  <1> HIDE DEF c
  <1>5. CallFits(c)
    BY <1>1 DEF CallOK, c
  <1>6. c' = c
    BY <1>1 DEF c
  <1>7. CallFits(c)'
    BY <1>3, <1>4, <1>5, <1>6 DEF CallFits, TodoOK, ScoresStored, Intact
  <1>8. c.at = "appending" => c.file \notin openEnd' \cap tornFile'
    BY <1>1, <1>4 DEF CallOK, c
  <1> QED
    BY <1>1, <1>2, <1>6, <1>7, <1>8 DEF CallOK, c

\* The files stay, and the call of one writer becomes c.
LEMMA Turns ==
  ASSUME ResultsIInv, NEW w \in Writers, NEW c \in CallSet,
         writer' = [writer EXCEPT ![w] = c], CallFits(c),
         UNCHANGED <<rows, tornFile, openEnd>>,
         runState' \in {"CREATED", "FAILED", "COMPLETED"},
         summary' \in [scores : Said, count : Int],
         summary' = summary \/ ScoresStored(summary'),
         calls' \in 0..MaxCalls,
         holder' \in {holder, w, NoWriter},
         holder' # holder => holder \in {w, NoWriter},
         c.at = "appending" <=> holder' = w,
         c.at = "appending" => c.file \notin openEnd \cap tornFile
  PROVE  ResultsIInv'
  <1>1. BundleType'
    BY DEF ResultsIInv, BundleType
  <1>2. /\ \A v \in Writers \ {w} : writer'[v] = writer[v]
        /\ writer'[w] = c
    BY DEF ResultsIInv, BundleType
  <1>3. CallFits(c)'
    BY DEF CallFits, TodoOK, ScoresStored, PagesIn, SaysOf, Intact
  <1>4. CallOK(w)'
    BY <1>2, <1>3 DEF CallOK
  <1>5. OneRowEach' /\ RowsFitTogether'
    BY DEF ResultsIInv, RowsAgree, OneRowEach, RowsFitTogether, PagesIn, SaysOf,
           Intact
  <1>6. SummaryIsTheRow'
    <2>1. CASE summary' = summary
      BY <2>1 DEF ResultsIInv, RowsAgree, SummaryIsTheRow, SaysOf, Intact
    <2>2. CASE ScoresStored(summary')
      <3>1. /\ BundleType /\ OneRowEach /\ "metrics" \in Files
        BY DEF ResultsIInv, RowsAgree, Files
      <3>2. summary'.scores \in SaysOf("metrics", WholeRun) =>
               SaysOf("metrics", WholeRun) = {summary'.scores}
        BY <3>1, ReadFile, OneRow
      <3>3. UNCHANGED <<SaysOf("metrics", WholeRun), Intact("metrics")>>
        BY DEF SaysOf, Intact
      <3> QED
        BY <2>2, <3>2, <3>3 DEF ScoresStored, SummaryIsTheRow
    <2> QED
      BY <2>1, <2>2
  <1> QED
    BY <1>1, <1>2, <1>4, <1>5, <1>6, OneWriter DEF RowsAgree

LEMMA IdleFits == CallFits(Idle)
  BY IdleCall DEF CallFits

\* A call ends, or its writer dies, and nothing is written.
LEMMA StopsWriting ==
  ASSUME ResultsIInv, NEW w \in Writers,
         FindsTorn(w) \/ RefusesRow(w) \/ CannotCount(w) \/ MarksCompleted(w)
         \/ (WriterDies(w) /\ UNCHANGED <<rows, tornFile, openEnd>>)
  PROVE  ResultsIInv'
  <1>1. /\ writer' = [writer EXCEPT ![w] = Idle]
        /\ UNCHANGED <<rows, tornFile, openEnd, summary, calls>>
        /\ runState' \in {runState, "COMPLETED"}
    BY DEF FindsTorn, RefusesRow, CannotCount, MarksCompleted, WriterDies,
           Becomes, bundleVars
  <1>2. BundleType /\ CallOK(w) /\ writer[w] \in CallSet
    BY DEF ResultsIInv, BundleType
  <1>3. /\ holder' \in {holder, w, NoWriter} /\ holder' # w
        /\ holder' # holder => holder = w
    <2>1. CASE WriterDies(w)
      BY <2>1, ResultsAssumption DEF WriterDies
    <2>2. CASE RefusesRow(w)
      BY <1>2, <2>2, ResultsAssumption DEF RefusesRow, Appending, CallOK
    <2>3. CASE FindsTorn(w) \/ CannotCount(w) \/ MarksCompleted(w)
      BY <1>2, <2>3, ResultsAssumption
      DEF FindsTorn, CannotCount, MarksCompleted, CallOK
    <2> QED
      BY <2>1, <2>2, <2>3
  <1>4. /\ runState' \in {"CREATED", "FAILED", "COMPLETED"}
        /\ summary' \in [scores : Said, count : Int]
        /\ calls' \in 0..MaxCalls
    BY <1>1, <1>2 DEF BundleType
  <1> QED
    BY <1>1, <1>3, <1>4, IdleCall, IdleFits, Turns

LEMMA CallFields ==
  ASSUME NEW c \in CallSet,
         NEW stage \in {"off", "waiting", "appending", "counting", "marking"}
  PROVE  LET d == [c EXCEPT !.at = stage] IN
         /\ d \in CallSet /\ d.at = stage /\ d.file = c.file
         /\ d.todo = c.todo /\ d.all = c.all /\ d.existing = c.existing
         /\ d.known = c.known /\ d.ends = c.ends /\ d.scores = c.scores
  BY DEF CallSet

\* A call that keeps the lock or the lack of it, and the bundle
LEMMA PassStep ==
  ASSUME ResultsIInv, NEW w \in Writers, PassesRow(w)
  PROVE  ResultsIInv'
  <1> DEFINE c == writer[w]
             d == [c EXCEPT !.todo = Tail(c.todo)]
             entry == Head(c.todo)
  <1>1. /\ BundleType /\ CallOK(w) /\ c \in CallSet /\ c.at = "appending"
        /\ holder = w /\ c.todo # <<>> /\ c.todo \in Seq(RowSet)
        /\ c.file \in Files
    BY DEF ResultsIInv, BundleType, PassesRow, Appending, CallOK, CallSet
  <1>2. /\ writer' = [writer EXCEPT ![w] = d]
        /\ UNCHANGED <<rows, tornFile, openEnd, runState, summary, holder,
                       calls>>
        /\ \E r \in c.existing : r.page = entry.page
        /\ \A r \in c.existing : r.page = entry.page => r.says = entry.says
    BY DEF PassesRow, Becomes, RestOf, bundleVars, IsNew, IsConflict, Prior,
           SameRow
  <1>3. /\ entry \in RowSet /\ Tail(c.todo) \in Seq(RowSet)
        /\ Range(c.todo) = {entry} \cup Range(Tail(c.todo))
    BY <1>1, RangeTail
  <1>4. /\ d \in CallSet /\ d.at = "appending" /\ d.file = c.file
        /\ d.todo = Tail(c.todo) /\ d.all = c.all /\ d.existing = c.existing
        /\ d.known = c.known /\ d.ends = c.ends /\ d.scores = c.scores
    BY <1>1, <1>3 DEF CallSet
  <1>5. Intact(c.file) => entry.says \in SaysOf(c.file, entry.page)
    BY <1>1, <1>2, ReadFile DEF CallOK, CallFits
  <1> HIDE DEF c, d, entry
  <1>6. CallFits(c)
    BY <1>1 DEF CallOK, c
  <1>7. \A r \in Range(d.todo) : TodoOK(d, r)
    BY <1>1, <1>3, <1>4, <1>6 DEF CallFits, TodoOK
  <1>8. Intact(d.file) =>
           \A r \in d.all :
             r \in Range(d.todo) \/ r.says \in SaysOf(d.file, r.page)
    BY <1>1, <1>3, <1>4, <1>5, <1>6 DEF CallFits
  <1>9. d.ends => ScoresStored(d)
    <2>1. TodoOK(c, entry)
      BY <1>1, <1>3, <1>6 DEF CallFits
    <2>2. c.ends => /\ c.file = "metrics" /\ entry.page = WholeRun
                    /\ entry.says = c.scores
      BY <2>1 DEF TodoOK
    <2> QED
      BY <1>4, <1>5, <2>2 DEF ScoresStored
  <1>10. CallFits(d)
    BY <1>1, <1>4, <1>6, <1>7, <1>8, <1>9 DEF CallFits
  <1>11. c.file \notin openEnd \cap tornFile
    BY <1>1 DEF CallOK, c
  <1> QED
    BY <1>1, <1>2, <1>4, <1>10, <1>11, Turns DEF BundleType

LEMMA LockStep ==
  ASSUME ResultsIInv, NEW w \in Writers, TakesLock(w)
  PROVE  ResultsIInv'
  <1> DEFINE c == writer[w]
             seen == PagesIn("pages") \cup {WholeRun}
             all == Range(rows[c.file])
             d == [c EXCEPT !.at = "appending", !.known = seen,
                            !.existing = all]
  <1>1. /\ BundleType /\ CallOK(w) /\ c \in CallSet /\ c.at = "waiting"
        /\ holder = NoWriter /\ c.file \in Files /\ c.file \notin tornFile
    BY DEF ResultsIInv, BundleType, TakesLock, LockIsFree, CallSet, Readable
  <1>2. /\ writer' = [writer EXCEPT ![w] = d] /\ holder' = w
        /\ UNCHANGED <<rows, tornFile, openEnd, runState, summary, calls>>
    BY DEF TakesLock, Becomes, bundleVars
  <1>3. "pages" \in Files
    BY DEF Files
  <1>4. /\ all \in SUBSET RowSet
        /\ seen \in SUBSET (PageIds \cup {WholeRun})
    <2>1. Range(rows["pages"]) \subseteq RowSet
      BY <1>1, <1>3, ReadFile
    <2> QED
      BY <1>1, <2>1, ReadFile DEF PagesIn, RowSet
  <1> HIDE DEF all, seen
  <1>5. /\ d \in CallSet /\ d.at = "appending" /\ d.file = c.file
        /\ d.todo = c.todo /\ d.all = c.all /\ d.existing = all
        /\ d.known = seen /\ d.ends = c.ends /\ d.scores = c.scores
    BY <1>1, <1>4 DEF CallSet
  <1> HIDE DEF c, d
  <1>6. CallFits(c)
    BY <1>1 DEF CallOK, c
  <1>7. \A r : TodoOK(c, r) => TodoOK(d, r)
    BY <1>5 DEF TodoOK
  <1>8. CallFits(d)
    BY <1>1, <1>5, <1>6, <1>7 DEF CallFits, Intact, all, seen
  <1> QED
    BY <1>1, <1>2, <1>5, <1>8, Turns DEF BundleType

LEMMA ReturnStep ==
  ASSUME ResultsIInv, NEW w \in Writers, Returns(w)
  PROVE  ResultsIInv'
  <1> DEFINE c == writer[w]
             d == [c EXCEPT !.at = "counting"]
  <1>1. /\ BundleType /\ CallOK(w) /\ c \in CallSet /\ c.at = "appending"
        /\ c.todo = <<>> /\ holder = w
    BY DEF ResultsIInv, BundleType, Returns, CallOK
  <1>2. /\ writer' = [writer EXCEPT ![w] = IF c.ends THEN d ELSE Idle]
        /\ holder' = NoWriter
        /\ UNCHANGED <<rows, tornFile, openEnd, runState, summary, calls>>
    BY DEF Returns, Becomes, bundleVars
  <1>3. d \in CallSet /\ d.at = "counting" /\ d.scores = c.scores
    BY <1>1, CallFields
  <1> HIDE DEF d
  <1>4. c.ends => CallFits(d)
    BY <1>1, <1>3 DEF CallOK, CallFits, ScoresStored
  <1>5. /\ NoWriter # w /\ runState \in {"CREATED", "FAILED", "COMPLETED"}
        /\ tornFile \in SUBSET Files /\ calls \in 0..MaxCalls
        /\ summary \in [scores : Said, count : Int]
    BY <1>1, ResultsAssumption DEF BundleType
  <1>6. CASE c.ends
    BY <1>1, <1>2, <1>3, <1>4, <1>5, <1>6, Turns
  <1>7. CASE ~c.ends
    BY <1>1, <1>2, <1>5, <1>7, IdleCall, IdleFits, Turns
  <1> QED
    BY <1>6, <1>7

LEMMA SummaryStep ==
  ASSUME ResultsIInv, NEW w \in Writers, SavesSummary(w)
  PROVE  ResultsIInv'
  <1> DEFINE c == writer[w]
             d == [c EXCEPT !.at = "marking"]
             new == [scores |-> c.scores, count |-> Len(rows["predictions"])]
  <1>1. /\ BundleType /\ CallOK(w) /\ c \in CallSet /\ c.at = "counting"
        /\ holder # w
    BY DEF ResultsIInv, BundleType, SavesSummary, CallOK
  <1>2. /\ writer' = [writer EXCEPT ![w] = d] /\ summary' = new
        /\ UNCHANGED <<rows, tornFile, openEnd, runState, holder, calls>>
    BY DEF SavesSummary, Becomes, ScoresRead
  <1>3. d \in CallSet /\ d.at = "marking"
    BY <1>1, CallFields
  <1>4. /\ new \in [scores : Said, count : Int] /\ ScoresStored(new)
    <2>1. ScoresStored(c) /\ c.scores \in Said
      BY <1>1 DEF CallOK, CallFits, CallSet, Said
    <2>2. Len(rows["predictions"]) \in Int
      BY <1>1 DEF BundleType, Files
    <2> QED
      BY <2>1, <2>2 DEF ScoresStored
  <1> HIDE DEF d, new
  <1>5. CallFits(d)
    BY <1>3 DEF CallFits
  <1> QED
    BY <1>1, <1>2, <1>3, <1>4, <1>5, Turns DEF BundleType

LEMMA MarkStep ==
  ASSUME ResultsIInv, NEW w \in Writers, MarksRun(w, "FAILED")
  PROVE  ResultsIInv'
  <1>1. /\ writer[w] \in CallSet /\ CallOK(w) /\ BundleType
        /\ calls < MaxCalls /\ calls' = calls + 1 /\ runState' = "FAILED"
        /\ UNCHANGED <<rows, tornFile, openEnd, summary, holder, writer>>
    BY DEF ResultsIInv, BundleType, MarksRun, Calls
  <1>2. calls' \in 0..MaxCalls
    BY <1>1, ResultsAssumption DEF BundleType
  <1>3. writer' = [writer EXCEPT ![w] = writer[w]]
    BY <1>1 DEF BundleType
  <1> QED
    BY <1>1, <1>2, <1>3, Turns DEF BundleType, CallOK

\* A call of a writer that is in none
LEMMA Begins ==
  ASSUME ResultsIInv, NEW w \in Writers, Calls(w), NEW c \in CallSet,
         Becomes(w, c), UNCHANGED <<bundleVars, holder>>,
         c.at # "appending", CallFits(c)
  PROVE  ResultsIInv'
  <1>1. /\ writer[w].at = "off" /\ CallOK(w) /\ BundleType
        /\ calls < MaxCalls /\ calls' = calls + 1
        /\ writer' = [writer EXCEPT ![w] = c]
        /\ UNCHANGED <<rows, tornFile, openEnd, runState, summary, holder>>
    BY DEF ResultsIInv, Calls, Becomes, bundleVars
  <1>2. calls' \in 0..MaxCalls
    BY <1>1, ResultsAssumption DEF BundleType
  <1>3. holder' # w
    BY <1>1 DEF CallOK
  <1> QED
    BY <1>1, <1>2, <1>3, Turns DEF BundleType

LEMMA OneRowCall ==
  ASSUME NEW r \in RowSet, NEW f \in Files
  PROVE  /\ Call("waiting", f, <<r>>) \in CallSet
         /\ Call("waiting", f, <<r>>).at = "waiting"
         /\ (IF f = "metrics" THEN r.says \in SaysOf("predictions", r.page)
                              ELSE r.page # WholeRun)
              => CallFits(Call("waiting", f, <<r>>))
  <1> DEFINE c == Call("waiting", f, <<r>>)
  <1>1. <<r>> \in Seq(RowSet) /\ Range(<<r>>) = {r}
    BY DEF Range
  <1>2. \A s \in Seq(RowSet) :
           /\ Call("waiting", f, s) \in CallSet
           /\ Call("waiting", f, s).at = "waiting"
           /\ Call("waiting", f, s).file = f
           /\ Call("waiting", f, s).todo = s
           /\ Call("waiting", f, s).all = Range(s)
           /\ ~Call("waiting", f, s).ends
    BY CallInSet
  <1>3. /\ c \in CallSet /\ c.at = "waiting" /\ c.file = f
        /\ Range(c.todo) = {r} /\ c.all = Range(c.todo) /\ ~c.ends
    BY <1>1, <1>2
  <1> HIDE DEF c
  <1>4. (IF f = "metrics" THEN r.says \in SaysOf("predictions", r.page)
                          ELSE r.page # WholeRun)
        => TodoOK(c, r)
    BY <1>3 DEF TodoOK
  <1> QED
    BY <1>3, <1>4 DEF CallFits, c

LEMMA AddSteps ==
  ASSUME ResultsIInv, NEW w \in Writers,
         \/ \E p, q \in PageIds, text \in Texts : AddsPages(w, p, q, text)
         \/ \E p \in PageIds, text \in Texts : AddsPrediction(w, p, text)
         \/ \E r \in Range(rows["predictions"]) : Evaluates(w, r)
  PROVE  ResultsIInv'
  <1>1. ASSUME NEW p \in PageIds, NEW q \in PageIds, NEW text \in Texts,
               AddsPages(w, p, q, text)
        PROVE  ResultsIInv'
    <2> DEFINE r == Row(p, {<<p, text>>}, 0)
               s == Row(q, {<<q, text>>}, 0)
               todo == <<r, s>>
               c == Call("waiting", "pages", todo)
    <2>1. r \in RowSet /\ s \in RowSet /\ r.page = p /\ s.page = q
      <3>1. {<<p, text>>} \in Said /\ {<<q, text>>} \in Said
        BY DEF Said
      <3> QED
        BY <3>1, RowInSet
    <2>2. Calls(w) /\ Becomes(w, c) /\ UNCHANGED <<bundleVars, holder>>
      BY <1>1 DEF AddsPages
    <2> HIDE DEF r, s
    <2>3. todo \in Seq(RowSet) /\ Range(todo) = {r, s}
      BY <2>1 DEF Range
    <2> HIDE DEF todo
    <2>4. /\ c \in CallSet /\ c.at = "waiting" /\ c.file = "pages"
          /\ c.todo = todo /\ c.all = Range(todo) /\ ~c.ends
      <3>1. "pages" \in Files
        BY DEF Files
      <3> QED
        BY <2>3, <3>1, CallInSet
    <2> HIDE DEF c
    <2>5. \A t \in Range(c.todo) : TodoOK(c, t)
      BY <2>1, <2>3, <2>4, ResultsAssumption DEF TodoOK
    <2>6. CallFits(c)
      BY <2>4, <2>5 DEF CallFits
    <2> QED
      BY <2>2, <2>4, <2>6, Begins
  <1>2. ASSUME NEW p \in PageIds, NEW text \in Texts,
               AddsPrediction(w, p, text)
        PROVE  ResultsIInv'
    <2> DEFINE r == Row(p, {<<p, text>>}, calls + 1)
    <2>1. /\ Calls(w) /\ Becomes(w, Call("waiting", "predictions", <<r>>))
          /\ UNCHANGED <<bundleVars, holder>>
      BY <1>2 DEF AddsPrediction
    <2>2. r \in RowSet /\ r.page # WholeRun
      <3>1. {<<p, text>>} \in Said /\ calls + 1 \in Nat
        BY ResultsAssumption DEF Said, ResultsIInv, BundleType
      <3> QED
        BY <3>1, RowInSet, ResultsAssumption
    <2> HIDE DEF r
    <2> QED
      BY <2>1, <2>2, OneRowCall, Begins DEF Files
  <1>3. ASSUME NEW t \in Range(rows["predictions"]), Evaluates(w, t)
        PROVE  ResultsIInv'
    <2> DEFINE r == Row(t.page, t.says, 0)
    <2>1. /\ Calls(w) /\ Becomes(w, Call("waiting", "metrics", <<r>>))
          /\ UNCHANGED <<bundleVars, holder>>
      BY <1>3 DEF Evaluates
    <2>2. t \in RowSet /\ t.says \in SaysOf("predictions", t.page)
      BY ReadFile DEF ResultsIInv, Files
    <2>3. r \in RowSet /\ r.page = t.page /\ r.says = t.says
      BY <2>2, RowInSet DEF RowSet
    <2> HIDE DEF r
    <2> QED
      BY <2>1, <2>2, <2>3, OneRowCall, Begins DEF Files
  <1> QED
    BY <1>1, <1>2, <1>3

LEMMA FinalizeStep ==
  ASSUME ResultsIInv, NEW w \in Writers, Finalizes(w)
  PROVE  ResultsIInv'
  <1> DEFINE entry == Row(WholeRun, PageScores, 0)
             todo == IF PageScores = {} THEN <<>> ELSE <<entry>>
             stage == IF todo = <<>> THEN "counting" ELSE "waiting"
             call == Call(stage, "metrics", todo)
             c == [call EXCEPT !.ends = TRUE, !.scores = PageScores]
  <1>1. Calls(w) /\ Becomes(w, c) /\ UNCHANGED <<bundleVars, holder>>
    BY DEF Finalizes
  <1>2. PageScores \in Said
    <2>1. Range(rows["metrics"]) \subseteq RowSet
      BY ReadFile DEF ResultsIInv, Files
    <2>2. \A r \in Range(rows["metrics"]) : r.says \in Said
      BY <2>1 DEF RowSet
    <2> QED
      BY <2>2 DEF PageScores, Said
  <1>3. entry \in RowSet /\ entry.page = WholeRun /\ entry.says = PageScores
    BY <1>2, RowInSet
  <1> HIDE DEF entry
  <1>4. todo \in Seq(RowSet) /\ \A r \in Range(todo) : r = entry
    BY <1>3, RangeEmpty DEF Range
  <1>5. /\ todo = <<>> => PageScores = {}
        /\ stage \in {"counting", "waiting"}
        /\ stage = "waiting" => todo # <<>>
    BY <1>3
  <1> HIDE DEF todo, stage
  <1>6. /\ call \in CallSet /\ call.at = stage /\ call.file = "metrics"
        /\ call.todo = todo /\ call.all = Range(todo)
    <2>1. "metrics" \in Files
      BY DEF Files
    <2> QED
      BY <1>4, <1>5, <2>1, CallInSet
  <1> HIDE DEF call
  <1>7. /\ c \in CallSet /\ c.at = stage /\ c.file = "metrics"
        /\ c.todo = todo /\ c.all = Range(todo) /\ c.ends
        /\ c.scores = PageScores
    BY <1>2, <1>6 DEF CallSet, Said
  <1> HIDE DEF c
  <1>8. \A r \in Range(c.todo) : TodoOK(c, r)
    BY <1>3, <1>4, <1>7 DEF TodoOK
  <1>9. stage = "counting" => ScoresStored(c)
    <2>1. stage = "counting" => todo = <<>>
      BY DEF stage
    <2> QED
      BY <1>5, <1>7, <2>1 DEF ScoresStored
  <1>10. CallFits(c)
    BY <1>5, <1>7, <1>8, <1>9 DEF CallFits
  <1> QED
    BY <1>1, <1>5, <1>7, <1>10, Begins

\* A new row keeps the pages of a file apart.
LEMMA AppendedOnce ==
  ASSUME NEW s \in Seq(RowSet), NEW r \in RowSet,
         \A i, j \in DOMAIN s : s[i].page = s[j].page => i = j,
         \A t \in Range(s) : t.page # r.page
  PROVE  \A i, j \in DOMAIN Append(s, r) :
            Append(s, r)[i].page = Append(s, r)[j].page => i = j
  <1>1. /\ DOMAIN s = 1..Len(s) /\ Len(s) \in Nat
        /\ DOMAIN Append(s, r) = 1..(Len(s) + 1)
        /\ Append(s, r)[Len(s) + 1] = r
        /\ \A i \in 1..Len(s) : Append(s, r)[i] = s[i]
    OBVIOUS
  <1>2. \A i \in 1..Len(s) : s[i].page # r.page
    BY <1>1 DEF Range
  <1> QED
    BY <1>1, <1>2

\* What is written to a file, in full or not: nothing that was read before is
\* read differently, and what a reader no longer gets makes it fail.
WritesTo(f, entry) ==
    /\ f \in Files /\ entry \in RowSet
    /\ rows' \in [Files -> Seq(RowSet)]
    /\ tornFile' \in SUBSET Files /\ openEnd' \in SUBSET Files
    /\ tornFile \subseteq tornFile'
    /\ \A g \in Files \ {f} :
         rows'[g] = rows[g] /\ (g \in tornFile' <=> g \in tornFile)
    /\ Range(rows'[f]) \subseteq Range(rows[f]) \cup {entry}
    /\ f \notin tornFile' => Range(rows'[f]) = Range(rows[f]) \cup {entry}

LEMMA WriteEffect ==
  ASSUME ResultsIInv, NEW w \in Writers, NEW much, Appends(w), Writes(w, much),
         NEW f, f = writer[w].file, NEW entry, entry = Head(writer[w].todo)
  PROVE  /\ WritesTo(f, entry) /\ OneRowEach' /\ GrowsWhole
         /\ much = "line" => f \notin openEnd'
  <1> DEFINE c == writer[w]
             new == IF f \in openEnd \ tornFile THEN Front(rows[f])
                    ELSE IF f \in openEnd \/ much = "part" THEN rows[f]
                    ELSE Append(rows[f], entry)
  <1>1. /\ BundleType /\ CallOK(w) /\ c \in CallSet /\ c.at = "appending"
        /\ c.todo # <<>> /\ c.todo \in Seq(RowSet)
        /\ f \in Files /\ f \notin openEnd \cap tornFile
        /\ tornFile \in SUBSET Files /\ openEnd \in SUBSET Files
    BY DEF ResultsIInv, BundleType, Appends, Appending, CallOK, CallSet
  <1>2. entry \in RowSet
    BY <1>1, RangeTail
  <1>3. \A r \in Range(rows[f]) : r.page # entry.page
    BY <1>1 DEF Appends, IsNew, Prior, CallOK, CallFits
  <1>4. /\ rows' = [rows EXCEPT ![f] = new]
        /\ tornFile' =
             tornFile \cup {g \in {f} : g \in openEnd \/ much = "part"}
        /\ openEnd' = (openEnd \ {f}) \cup {g \in {f} : much # "line"}
    BY DEF Writes
  <1>5. /\ rows[f] \in Seq(RowSet)
        /\ Append(rows[f], entry) \in Seq(RowSet)
        /\ Range(Append(rows[f], entry)) = Range(rows[f]) \cup {entry}
        /\ Front(rows[f]) \in Seq(RowSet)
        /\ Range(Front(rows[f])) \subseteq Range(rows[f])
    BY <1>1, <1>2, RangeAppend, RangeFront DEF BundleType
  <1>6. \A i, j \in DOMAIN rows[f] : rows[f][i].page = rows[f][j].page => i = j
    BY <1>1 DEF ResultsIInv, RowsAgree, OneRowEach
  <1>7. /\ \A i, j \in DOMAIN Append(rows[f], entry) :
             Append(rows[f], entry)[i].page = Append(rows[f], entry)[j].page
               => i = j
        /\ \A i, j \in DOMAIN Front(rows[f]) :
             Front(rows[f])[i].page = Front(rows[f])[j].page => i = j
    <2>1. /\ DOMAIN Front(rows[f]) \subseteq DOMAIN rows[f]
          /\ \A i \in DOMAIN Front(rows[f]) : Front(rows[f])[i] = rows[f][i]
      BY <1>5, RangeFront
    <2>2. \A i, j \in DOMAIN Append(rows[f], entry) :
             Append(rows[f], entry)[i].page = Append(rows[f], entry)[j].page
               => i = j
      BY <1>2, <1>3, <1>5, <1>6, AppendedOnce
    <2> QED
      BY <1>6, <2>1, <2>2
  <1>8. /\ new \in Seq(RowSet)
        /\ Range(new) \subseteq Range(rows[f]) \cup {entry}
        /\ \A i, j \in DOMAIN new : new[i].page = new[j].page => i = j
    BY <1>5, <1>6, <1>7
  <1>9. /\ f \notin tornFile' => Range(new) = Range(rows[f]) \cup {entry}
        /\ \/ IsPrefix(rows[f], new)
           \/ /\ f \in openEnd \ tornFile /\ f \in tornFile'
              /\ new = Front(rows[f])
    <2>1. /\ IsPrefix(rows[f], rows[f])
          /\ IsPrefix(rows[f], Append(rows[f], entry))
      BY <1>2, <1>5 DEF IsPrefix
    <2> QED
      BY <1>1, <1>4, <1>5, <2>1
  <1> HIDE DEF new
  <1>10. \A g \in Files : rows'[g] = IF g = f THEN new ELSE rows[g]
    BY <1>1, <1>4 DEF BundleType
  <1>11. rows' \in [Files -> Seq(RowSet)]
    BY <1>1, <1>4, <1>8 DEF BundleType
  <1>12. OneRowEach'
    BY <1>8, <1>10 DEF ResultsIInv, RowsAgree, OneRowEach
  <1>13. GrowsWhole
    <2> SUFFICES ASSUME NEW g \in Files
                 PROVE  /\ IsPrefix(rows[g], rows'[g]) \/ LosesLast(g)
                        /\ g \in openEnd \cap tornFile =>
                             rows'[g] = rows[g] /\ g \in openEnd'
      BY DEF GrowsWhole
    <2>1. CASE g = f
      BY <1>1, <1>9, <1>10, <2>1 DEF LosesLast
    <2>2. CASE g # f
      <3>1. rows'[g] = rows[g] /\ rows[g] \in Seq(RowSet)
        BY <1>1, <1>10, <2>2 DEF BundleType
      <3> QED
        BY <1>4, <2>2, <3>1 DEF IsPrefix
    <2> QED
      BY <2>1, <2>2
  <1>14. /\ tornFile' \in SUBSET Files /\ openEnd' \in SUBSET Files
         /\ tornFile \subseteq tornFile'
         /\ \A g \in Files \ {f} : g \in tornFile' <=> g \in tornFile
         /\ much = "line" => f \notin openEnd'
    BY <1>1, <1>4
  <1> QED
    BY <1>1, <1>2, <1>8, <1>9, <1>10, <1>11, <1>12, <1>13, <1>14 DEF WritesTo

\* What is read afterwards of files that can be read: the new row, if any, is
\* of an identity the file did not have.
LEMMA WrittenSays ==
  ASSUME ResultsIInv, NEW w \in Writers, NEW much, Appends(w), Writes(w, much),
         BundleType', NEW f, f = writer[w].file,
         NEW entry, entry = Head(writer[w].todo)
  PROVE  /\ \A g \in Files : Intact(g)' =>
              /\ Intact(g)
              /\ \A p, t : t \in SaysOf(g, p)' <=>
                   \/ t \in SaysOf(g, p)
                   \/ g = f /\ entry.page = p /\ entry.says = t
              /\ \A p : p \in PagesIn(g)' <=>
                   p \in PagesIn(g) \/ (g = f /\ entry.page = p)
         /\ \A g \in Files : \A p : p \in PagesIn(g)' =>
              p \in PagesIn(g) \/ (g = f /\ entry.page = p)
         /\ \A g \in Files : \A r \in Range(rows'[g]) :
              r \in Range(rows[g]) \/ (g = f /\ r = entry)
         /\ \A t : t \notin SaysOf(f, entry.page)
         /\ f \in Files /\ TodoOK(writer[w], entry)
         /\ Intact("pages") /\ f = "predictions" =>
              entry.page \in PagesIn("pages")
  <1> DEFINE c == writer[w]
  <1>1. /\ f \in Files /\ entry \in RowSet /\ tornFile \subseteq tornFile'
        /\ \A g \in Files \ {f} :
             rows'[g] = rows[g] /\ (g \in tornFile' <=> g \in tornFile)
        /\ Range(rows'[f]) \subseteq Range(rows[f]) \cup {entry}
        /\ f \notin tornFile' => Range(rows'[f]) = Range(rows[f]) \cup {entry}
    <2>1. WritesTo(f, entry)
      BY WriteEffect
    <2> QED
      BY <2>1 DEF WritesTo
  <1>2. /\ BundleType /\ CallFits(c) /\ c.at = "appending"
        /\ c.todo # <<>> /\ c.todo \in Seq(RowSet)
        /\ Range(rows[f]) \subseteq c.existing
        /\ \A r \in c.existing : r.page # entry.page
        /\ f # "pages" => entry.page \in c.known
    BY DEF ResultsIInv, BundleType, CallSet, Appends, Appending, CallOK,
           CallFits, IsNew, Prior, KnowsPage
  <1>3. TodoOK(c, entry)
    BY <1>2, RangeTail DEF CallFits
  <1>4. \A t : t \notin SaysOf(f, entry.page)
    BY <1>1, <1>2, ReadFile
  <1>5. Intact("pages") /\ f = "predictions" => entry.page \in PagesIn("pages")
    BY <1>2, <1>3 DEF CallFits, TodoOK
  <1>6. \A g \in Files : g \notin tornFile' =>
           /\ g \notin tornFile
           /\ Range(rows'[g]) = IF g = f THEN Range(rows[f]) \cup {entry}
                                         ELSE Range(rows[g])
    BY <1>1
  <1>7. \A g \in Files : \A r \in Range(rows'[g]) :
           r \in Range(rows[g]) \/ (g = f /\ r = entry)
    BY <1>1
  <1>8. \A g \in Files : Intact(g)' =>
           /\ Intact(g)
           /\ \A p, t : t \in SaysOf(g, p)' <=>
                \/ t \in SaysOf(g, p)
                \/ g = f /\ entry.page = p /\ entry.says = t
           /\ \A p : p \in PagesIn(g)' <=>
                p \in PagesIn(g) \/ (g = f /\ entry.page = p)
    BY <1>2, <1>6, ReadFile, ReadFileNext DEF Intact
  <1>9. \A g \in Files : \A p : p \in PagesIn(g)' =>
           p \in PagesIn(g) \/ (g = f /\ entry.page = p)
    BY <1>2, <1>7, ReadFile, ReadFileNext
  <1> QED
    BY <1>1, <1>3, <1>4, <1>5, <1>7, <1>8, <1>9

LEMMA WrittenFits ==
  ASSUME ResultsIInv, NEW w \in Writers, NEW much, Appends(w), Writes(w, much),
         BundleType', UNCHANGED summary
  PROVE  RowsAgree'
  <1> DEFINE f == writer[w].file
             entry == Head(writer[w].todo)
  <1>1. /\ \A g \in Files : Intact(g)' =>
             /\ Intact(g)
             /\ \A p, t : t \in SaysOf(g, p)' <=>
                  \/ t \in SaysOf(g, p)
                  \/ g = f /\ entry.page = p /\ entry.says = t
             /\ \A p : p \in PagesIn(g)' <=>
                  p \in PagesIn(g) \/ (g = f /\ entry.page = p)
        /\ \A g \in Files : \A p : p \in PagesIn(g)' =>
             p \in PagesIn(g) \/ (g = f /\ entry.page = p)
        /\ \A g \in Files : \A r \in Range(rows'[g]) :
             r \in Range(rows[g]) \/ (g = f /\ r = entry)
        /\ \A t : t \notin SaysOf(f, entry.page)
        /\ Intact("pages") /\ f = "predictions" =>
             entry.page \in PagesIn("pages")
    BY WrittenSays
  <1>2. /\ f = "metrics" /\ entry.page # WholeRun /\ Intact("predictions") =>
             entry.says \in SaysOf("predictions", entry.page)
    BY WrittenSays DEF TodoOK
  <1>3. OneRowEach'
    BY WriteEffect
  <1>4. /\ BundleType /\ OneRowEach /\ RowsFitTogether /\ SummaryIsTheRow
        /\ "pages" \in Files /\ "predictions" \in Files /\ "metrics" \in Files
    BY DEF ResultsIInv, RowsAgree, Files
  <1> HIDE DEF f, entry
  <1>5. Intact("pages")' => PagesIn("predictions")' \subseteq PagesIn("pages")'
    BY <1>1, <1>4 DEF RowsFitTogether
  <1>6. ASSUME Intact("predictions")', NEW r \in Range(rows'["metrics"]),
               r.page # WholeRun
        PROVE  SaysOf("predictions", r.page)' = {r.says}
    <2>1. SaysOf("predictions", r.page) = {r.says}
      <3>1. CASE r \in Range(rows["metrics"])
        BY <1>1, <1>4, <1>6, <3>1 DEF RowsFitTogether
      <3>2. CASE f = "metrics" /\ r = entry
        <4>1. r.says \in SaysOf("predictions", r.page)
          BY <1>1, <1>2, <1>4, <1>6, <3>2
        <4>2. \A s, t \in Range(rows["predictions"]) : s.page = t.page => s = t
          BY <1>4, OneRow
        <4> QED
          BY <1>4, <4>1, <4>2, ReadFile
      <3> QED
        BY <1>1, <1>4, <1>6, <3>1, <3>2
    <2>2. ~(f = "predictions" /\ entry.page = r.page)
      BY <1>1, <2>1
    <2> QED
      BY <1>1, <1>4, <1>6, <2>1, <2>2
  <1>7. RowsFitTogether'
    BY <1>5, <1>6 DEF RowsFitTogether
  <1>8. SummaryIsTheRow'
    <2>1. ASSUME summary.scores # {}, Intact("metrics")'
          PROVE  SaysOf("metrics", WholeRun)' = {summary.scores}
      <3>1. SaysOf("metrics", WholeRun) = {summary.scores}
        BY <1>1, <1>4, <2>1 DEF SummaryIsTheRow
      <3>2. ~(f = "metrics" /\ entry.page = WholeRun)
        BY <1>1, <3>1
      <3> QED
        BY <1>1, <1>4, <2>1, <3>1, <3>2
    <2> QED
      BY <2>1 DEF SummaryIsTheRow
  <1> QED
    BY <1>3, <1>7, <1>8 DEF RowsAgree

LEMMA AppendStep ==
  ASSUME ResultsIInv, NEW w \in Writers, AppendsRow(w)
  PROVE  ResultsIInv'
  <1> DEFINE c == writer[w]
             f == c.file
             entry == Head(c.todo)
             d == [c EXCEPT !.todo = Tail(c.todo),
                            !.existing = c.existing \cup {entry}]
  <1>1. /\ BundleType /\ CallOK(w) /\ c \in CallSet /\ c.at = "appending"
        /\ holder = w /\ c.todo # <<>> /\ c.todo \in Seq(RowSet)
        /\ Appends(w) /\ Writes(w, "line")
    BY DEF ResultsIInv, BundleType, AppendsRow, Appends, Appending, CallOK,
           CallSet
  <1>2. /\ writer' = [writer EXCEPT ![w] = d]
        /\ UNCHANGED <<runState, summary, holder, calls>>
    BY DEF AppendsRow, Becomes
  <1>3. /\ entry \in RowSet /\ Tail(c.todo) \in Seq(RowSet)
        /\ Range(c.todo) = {entry} \cup Range(Tail(c.todo))
    BY <1>1, RangeTail
  <1>4. CallFits(c) /\ c.existing \cup {entry} \subseteq RowSet
    BY <1>1, <1>3 DEF CallOK, CallSet
  <1>5. /\ d \in CallSet /\ d.at = "appending" /\ d.file = f
        /\ d.todo = Tail(c.todo) /\ d.all = c.all
        /\ d.existing = c.existing \cup {entry}
        /\ d.known = c.known /\ d.ends = c.ends /\ d.scores = c.scores
    BY <1>1, <1>3, <1>4 DEF CallSet
  <1> HIDE DEF d
  <1>6. /\ f \in Files /\ rows' \in [Files -> Seq(RowSet)]
        /\ tornFile' \in SUBSET Files /\ openEnd' \in SUBSET Files
        /\ tornFile \subseteq tornFile' /\ f \notin openEnd'
        /\ \A g \in Files \ {f} : rows'[g] = rows[g]
        /\ Range(rows'[f]) \subseteq Range(rows[f]) \cup {entry}
        /\ f \notin tornFile' => Range(rows'[f]) = Range(rows[f]) \cup {entry}
    <2>1. WritesTo(f, entry) /\ f \notin openEnd'
      BY <1>1, WriteEffect
    <2> QED
      BY <2>1 DEF WritesTo
  <1>7. BundleType'
    <2>1. writer' \in [Writers -> CallSet]
      BY <1>1, <1>2, <1>5 DEF BundleType
    <2> QED
      BY <1>1, <1>2, <1>6, <2>1 DEF BundleType
  <1>8. RowsAgree'
    BY <1>1, <1>2, <1>7, WrittenFits
  <1>9. /\ \A g \in Files : Intact(g)' =>
             /\ Intact(g)
             /\ \A p, t : t \in SaysOf(g, p)' <=>
                  \/ t \in SaysOf(g, p)
                  \/ g = f /\ entry.page = p /\ entry.says = t
             /\ \A p : p \in PagesIn(g)' <=>
                  p \in PagesIn(g) \/ (g = f /\ entry.page = p)
        /\ TodoOK(c, entry)
    BY <1>1, <1>7, WrittenSays
  <1> HIDE DEF entry, f
  <1>10. /\ "pages" \in Files /\ "predictions" \in Files
         /\ "metrics" \in Files
    BY DEF Files
  <1>11. CallOK(w)'
    <2>1. PICK e \in CallSet : e = d
      BY <1>5
    <2>2. writer'[w] = e
      BY <1>1, <1>2, <2>1 DEF BundleType
    <2>3. \A r \in Range(e.todo) : TodoOK(c, r)
      BY <1>1, <1>3, <1>4, <1>5, <2>1 DEF CallFits
    <2>4. \A r : TodoOK(c, r) => TodoOK(e, r)'
      BY <1>5, <1>9, <1>10, <2>1 DEF TodoOK, f
    <2>5. \A g, p : g = f /\ p = entry.page /\ Intact(g)' =>
             entry.says \in SaysOf(g, p)'
      BY <1>6, <1>9
    <2>6. Intact(e.file)' => \A r \in e.all :
             r \in Range(e.todo) \/ r.says \in SaysOf(e.file, r.page)'
      BY <1>1, <1>3, <1>4, <1>5, <1>6, <1>9, <2>1, <2>5 DEF CallFits, f
    <2>7. /\ Range(rows'[e.file]) \subseteq e.existing
          /\ Intact(e.file)' => e.existing = Range(rows'[e.file])
      BY <1>1, <1>4, <1>5, <1>6, <1>9, <2>1 DEF CallFits, Intact, f
    <2>8. Intact("pages")' =>
             e.known \subseteq PagesIn("pages")' \cup {WholeRun}
      BY <1>1, <1>4, <1>5, <1>9, <1>10, <2>1 DEF CallFits
    <2>9. e.ends => ScoresStored(e)'
      <3>1. c.ends => /\ f = "metrics" /\ entry.page = WholeRun
                      /\ entry.says = c.scores
        BY <1>9 DEF TodoOK, f
      <3> QED
        BY <1>5, <1>10, <2>1, <2>5, <3>1 DEF ScoresStored
    <2>10. CallFits(e)'
      BY <1>5, <2>1, <2>3, <2>4, <2>6, <2>7, <2>8, <2>9 DEF CallFits
    <2> QED
      BY <1>1, <1>2, <1>5, <1>6, <2>1, <2>2, <2>10 DEF CallOK
  <1>12. \A v \in Writers \ {w} : writer'[v] = writer[v]
    BY <1>1, <1>2 DEF BundleType
  <1>13. \A g \in Files \ tornFile' : Range(rows[g]) \subseteq Range(rows'[g])
    BY <1>6
  <1> QED
    BY <1>1, <1>2, <1>6, <1>7, <1>8, <1>11, <1>12, <1>13, OneWriter

\* A writer that dies in the middle of a row, or just before its end of line
LEMMA DieStep ==
  ASSUME ResultsIInv, NEW w \in Writers, NEW much, WriterDies(w),
         Appends(w), Writes(w, much)
  PROVE  ResultsIInv'
  <1> DEFINE f == writer[w].file
             entry == Head(writer[w].todo)
  <1>1. /\ writer' = [writer EXCEPT ![w] = Idle] /\ holder' = NoWriter
        /\ UNCHANGED <<runState, summary, calls>>
        /\ BundleType /\ holder = w
    BY DEF WriterDies, Becomes, ResultsIInv, CallOK, Appends, Appending
  <1>2. /\ rows' \in [Files -> Seq(RowSet)]
        /\ tornFile' \in SUBSET Files /\ openEnd' \in SUBSET Files
        /\ tornFile \subseteq tornFile'
        /\ \A g \in Files \ {f} : rows'[g] = rows[g]
        /\ f \notin tornFile' => Range(rows'[f]) = Range(rows[f]) \cup {entry}
    <2>1. WritesTo(f, entry)
      BY WriteEffect
    <2> QED
      BY <2>1 DEF WritesTo
  <1> HIDE DEF f, entry
  <1>3. BundleType'
    BY <1>1, <1>2, IdleCall DEF BundleType
  <1>4. RowsAgree'
    BY <1>1, <1>3, WrittenFits
  <1>5. /\ \A v \in Writers \ {w} : writer'[v] = writer[v]
        /\ writer'[w] = Idle /\ holder' # w
    BY <1>1, ResultsAssumption DEF BundleType
  <1>6. CallOK(w)'
    <2>1. \A e : e = Idle => CallFits(e)'
      BY IdleCall DEF CallFits
    <2> QED
      BY <1>5, <2>1, IdleCall DEF CallOK
  <1>7. \A g \in Files \ tornFile' : Range(rows[g]) \subseteq Range(rows'[g])
    BY <1>2
  <1> QED
    BY <1>1, <1>2, <1>3, <1>4, <1>5, <1>6, <1>7, OneWriter

LEMMA ResultsStep ==
  ASSUME ResultsIInv, [ResultsNext]_resultsVars
  PROVE  ResultsIInv'
  <1>1. CASE UNCHANGED resultsVars
    <2>1. UNCHANGED <<rows, tornFile, openEnd, holder, writer, runState,
                      summary, calls>>
      BY <1>1 DEF resultsVars
    <2>2. BundleType'
      BY <2>1 DEF ResultsIInv, BundleType
    <2>3. OneRowEach' /\ RowsFitTogether' /\ SummaryIsTheRow'
      BY <2>1 DEF ResultsIInv, RowsAgree, OneRowEach, RowsFitTogether,
                  SummaryIsTheRow, PagesIn, SaysOf, Intact
    <2>4. \A w \in Writers : CallOK(w)'
      BY <2>1 DEF ResultsIInv, CallOK, CallFits, TodoOK, ScoresStored, PagesIn,
                  SaysOf, Intact
    <2> QED
      BY <2>2, <2>3, <2>4 DEF ResultsIInv, RowsAgree
  <1> QED
    <2>1. ASSUME NEW w \in Writers, WriterDies(w) PROVE ResultsIInv'
      BY <2>1, DieStep, StopsWriting DEF WriterDies
    <2> QED
      BY <1>1, <2>1, AddSteps, FinalizeStep, MarkStep, LockStep, AppendStep,
         PassStep, ReturnStep, SummaryStep, StopsWriting DEF ResultsNext

\* Only an append changes a file, in full or not.
LEMMA FileSteps ==
  ASSUME ResultsIInv, [ResultsNext]_resultsVars
  PROVE  GrowsWhole
  <1>1. ASSUME UNCHANGED <<rows, tornFile, openEnd>> PROVE GrowsWhole
    BY <1>1 DEF GrowsWhole, IsPrefix, ResultsIInv, BundleType
  <1>2. ASSUME NEW w \in Writers, AppendsRow(w) PROVE GrowsWhole
    BY <1>2, WriteEffect DEF AppendsRow
  <1>3. ASSUME NEW w \in Writers, WriterDies(w) PROVE GrowsWhole
    BY <1>1, <1>3, WriteEffect DEF WriterDies
  <1>4. \/ UNCHANGED <<rows, tornFile, openEnd>>
        \/ \E w \in Writers : AppendsRow(w) \/ WriterDies(w)
    BY DEF ResultsNext, resultsVars, bundleVars, AddsPages, AddsPrediction,
           Evaluates, Finalizes, MarksRun, TakesLock, FindsTorn, PassesRow,
           RefusesRow, Returns, SavesSummary, CannotCount, MarksCompleted
  <1> QED
    BY <1>1, <1>2, <1>3, <1>4

\* What a call that returns has stored
LEMMA ReturnedRows ==
  ASSUME ResultsIInv
  PROVE  \A w \in Writers : IsStored(w)
  <1> SUFFICES ASSUME NEW w \in Writers, Returns(w), Intact(writer[w].file)
               PROVE  \A r \in writer[w].all :
                         r.says \in SaysOf(writer[w].file, r.page)
    BY DEF IsStored
  <1>1. /\ writer[w].at = "appending" /\ writer[w].todo = <<>>
        /\ CallFits(writer[w])
    BY DEF Returns, ResultsIInv, CallOK
  <1> QED
    BY <1>1, RangeEmpty DEF CallFits

LEMMA ResultsInvariant == ResultsSpec => []ResultsIInv
  <1>1. ResultsIInv /\ [ResultsNext]_resultsVars => ResultsIInv'
    BY ResultsStep
  <1> QED
    BY <1>1, ResultsInitial, PTL DEF ResultsSpec

\* The bundle and the calls hold what the code can put there, and the writer
\* that appends is the one with the lock (_run_ingest_lock).
THEOREM ResultsTypeCorrect == ResultsSpec => []ResultsTypeOK
  <1>1. ASSUME ResultsIInv PROVE ResultsTypeOK
    <2>1. \A f \in Files : \A i \in DOMAIN rows[f] :
             /\ rows[f][i].page \in PageIds \cup {WholeRun}
             /\ rows[f][i].says \in Said
      <3>1. \A f \in Files : \A i \in DOMAIN rows[f] : rows[f][i] \in RowSet
        BY <1>1 DEF ResultsIInv, BundleType
      <3> QED
        BY <3>1 DEF RowSet
    <2> QED
      BY <1>1, <2>1 DEF ResultsIInv, BundleType, CallOK, ResultsTypeOK
  <1> QED
    BY <1>1, ResultsInvariant, PTL

\* Writers at once, retries and deaths leave one row for each identity and, in
\* what can be read, no row of an unknown page or of a text that is not stored,
\* and a summary that repeats the row of the run (append_pages,
\* add_prediction, finalize_run).
THEOREM BundlesAgree == ResultsSpec => []RowsAgree
  <1>1. ResultsIInv => RowsAgree
    BY DEF ResultsIInv
  <1> QED
    BY <1>1, ResultsInvariant, PTL

\* What an append that returned was given is in the file for as long as it can
\* be read, and files only grow at their end: a row cut just before its end of
\* line is lost to a later one only by making every reader raise
\* (append_jsonl, iter_jsonl, _run_ingest_lock).
THEOREM AppendsAreKept == ResultsSpec => AppendsHold
  <1>1. ResultsIInv /\ [ResultsNext]_resultsVars =>
           /\ [\A w \in Writers : IsStored(w)]_resultsVars
           /\ [GrowsWhole]_resultsVars
    BY ReturnedRows, FileSteps
  <1> QED
    BY <1>1, ResultsInvariant, PTL
    DEF ResultsSpec, AppendsHold, ReturnedIsStored, FilesGrowWhole

-----------------------------------------------------------------------------
(* DatasetWorkspace: tables *)

\* A set of natural numbers that is not empty has a least one.
LEMMA LeastNumber ==
  ASSUME NEW S \in SUBSET Nat, S # {}
  PROVE  \E n \in S : \A k \in S : n <= k
  <1>1. PICK n \in S : \A k \in S : <<k, n>> \notin OpToRel(<, Nat)
    BY NatLessThanWellFounded, WFMin
  <1>2. \A k \in S : ~ (k < n)
    BY <1>1 DEF OpToRel
  <1> QED BY <1>2

\* The canonical row of a family is one of it.
LEMMA CanonicalIsMember ==
  ASSUME NEW t \in Tables, NEW F \in SUBSET SampleIds, F # {}
  PROVE  Canonical(t, F) \in F
  <1> DEFINE A == {s \in F : IsActive(t, s)}
  <1>1. SampleIds \subseteq Nat
    BY DatasetAssumption DEF SampleIds
  <1>2. \E r \in F : \A s \in F : Precedes(t, r, s)
    <2>1. CASE A # {}
      <3>1. PICK n \in A : \A k \in A : n <= k
        BY <1>1, <2>1, LeastNumber
      <3> QED BY <3>1 DEF Precedes
    <2>2. CASE A = {}
      <3>1. PICK n \in F : \A k \in F : n <= k
        BY <1>1, LeastNumber
      <3> QED BY <2>2, <3>1 DEF Precedes, IsActive
    <2> QED BY <2>1, <2>2
  <1> QED BY <1>2 DEF Canonical

\* What is built, validated, normalized or reset is a table.
LEMMA NoTableIsTyped == NoTable \in Tables
  BY DatasetAssumption
  DEF NoTable, Tables, SampleRow, DuplicateStates, SampleIds

LEMMA TablesBuilt ==
  ASSUME corpus \in Corpus, NEW policy \in Policies, NEW t \in Tables
  PROVE  Built(policy) \in Tables /\ Normalized(t, policy) \in Tables
  <1>1. \A s \in SampleIds : corpus.text[policy][s] \in SampleIds
    BY DEF Corpus
  <1>2. Built(policy) \in Tables
    BY <1>1, NoTableIsTyped
    DEF Built, Tables, SampleRow, DuplicateStates, StatusNow
  <1>3. Normalized(t, policy) \in Tables
    BY <1>1 DEF Normalized, Tables, SampleRow
  <1> QED BY <1>2, <1>3

LEMMA TablesReset ==
  ASSUME NEW t \in Tables
  PROVE  Reset(t) \in Tables /\ Unassigned(t) \in Tables
  BY DEF Reset, Unassigned, Tables, SampleRow, DuplicateStates

LEMMA TablesChecked ==
  ASSUME NEW t \in Tables
  PROVE  Validated(t) \in Tables
  BY DEF Validated, Tables, SampleRow, StatusNow

LEMMA TablesClassified ==
  ASSUME NEW t \in Tables
  PROVE  /\ Classified(t) \in Tables
         /\ \A s \in SampleIds : Classified(t)[s].split = t[s].split
  <1>1. ASSUME NEW s \in SampleIds, IsIn(t, s)
        PROVE  Canonical(t, Family(t, s)) \in SampleIds
    <2>1. s \in Family(t, s) /\ Family(t, s) \in SUBSET SampleIds
      BY <1>1 DEF Family
    <2> QED BY <2>1, CanonicalIsMember
  <1>2. ASSUME NEW s \in SampleIds, IsIn(t, s), ~ IsDuplicate(t, s)
        PROVE  Canonical(t, TextFamily(t, s)) \in SampleIds
    <2>1. s \in TextFamily(t, s) /\ TextFamily(t, s) \in SUBSET SampleIds
      BY <1>2 DEF TextFamily
    <2> QED BY <2>1, CanonicalIsMember
  <1>3. ASSUME NEW s \in SampleIds
        PROVE  /\ Classified(t)[s] \in SampleRow
               /\ Classified(t)[s].split = t[s].split
    <2>1. t[s] \in SampleRow
      BY DEF Tables
    <2>2. CASE ~ IsIn(t, s)
      BY <2>1, <2>2 DEF Classified
    <2>3. CASE IsIn(t, s) /\ IsDuplicate(t, s)
      BY <2>1, <2>3, <1>1 DEF Classified, SampleRow, DuplicateStates
    <2>4. CASE IsIn(t, s) /\ ~ IsDuplicate(t, s) /\ Conflicts(t, s)
      BY <2>1, <2>4, <1>2 DEF Classified, SampleRow, DuplicateStates
    <2>5. CASE IsIn(t, s) /\ ~ IsDuplicate(t, s) /\ ~ Conflicts(t, s)
      BY <2>1, <2>5 DEF Classified, SampleRow, DuplicateStates
    <2> QED BY <2>2, <2>3, <2>4, <2>5
  <1> QED BY <1>3 DEF Tables, Classified

-----------------------------------------------------------------------------
(* DatasetWorkspace: merged groups *)

\* After a union the two groups have one root, and groups that had one have.
LEMMA UnionMerges ==
  ASSUME NEW root \in [Groups -> Groups], NEW g \in Groups, NEW h \in Groups
  PROVE  /\ Union(root, g, h) \in [Groups -> Groups]
         /\ Union(root, g, h)[g] = Union(root, g, h)[h]
  <1>1. root[g] \in Nat /\ root[h] \in Nat
    BY DatasetAssumption DEF Groups
  <1> QED BY <1>1 DEF Union

LEMMA UnionKeeps ==
  ASSUME NEW root, NEW g, NEW h, NEW a \in Groups, NEW b \in Groups,
         root[a] = root[b]
  PROVE  Union(root, g, h)[a] = Union(root, g, h)[b]
  BY DEF Union

\* Rows whose active samples have the split of every group merged with theirs
AgreesOn(t, root) ==
    \A r, s \in SampleIds :
        IsActive(t, r) /\ IsActive(t, s) /\ root[GroupOf(r)] = root[GroupOf(s)]
            => t[r].split = t[s].split

\* A union of the groups of two samples of one split keeps that.
LEMMA UnionAgrees ==
  ASSUME NEW root \in [Groups -> Groups], NEW t, corpus \in Corpus,
         NEW r \in SampleIds, NEW s \in SampleIds,
         IsActive(t, r), IsActive(t, s), t[r].split = t[s].split,
         AgreesOn(t, root)
  PROVE  AgreesOn(t, Union(root, GroupOf(r), GroupOf(s)))
  <1>1. \A q \in SampleIds : GroupOf(q) \in Groups
    BY DEF GroupOf, Corpus
  <1>2. \A g \in Groups : root[g] \in Nat
    BY DatasetAssumption DEF Groups
  <1> DEFINE U == Union(root, GroupOf(r), GroupOf(s))
  <1>3. ASSUME NEW p \in SampleIds, NEW q \in SampleIds,
               IsActive(t, p), IsActive(t, q), U[GroupOf(p)] = U[GroupOf(q)]
        PROVE  t[p].split = t[q].split
    <2> DEFINE Old(a, b) == root[GroupOf(a)] = root[GroupOf(b)]
    <2>1. \/ Old(p, q)
          \/ Old(p, r) /\ Old(q, s)
          \/ Old(p, s) /\ Old(q, r)
      BY <1>1, <1>2, <1>3 DEF Union
    <2>2. CASE Old(p, q)
      BY <1>3, <2>2 DEF AgreesOn
    <2>3. CASE Old(p, r) /\ Old(q, s)
      BY <1>3, <2>3 DEF AgreesOn
    <2>4. CASE Old(p, s) /\ Old(q, r)
      BY <1>3, <2>4 DEF AgreesOn
    <2> QED BY <2>1, <2>2, <2>3, <2>4
  <1> QED BY <1>3 DEF AgreesOn

-----------------------------------------------------------------------------
(* DatasetWorkspace: the inductive invariant *)

\* Nothing that is linked is apart, also while it is unassigned.
LeakFree(t) ==
    \A r, s \in SampleIds :
        IsActive(t, r) /\ IsActive(t, s) /\ AreLinked(t, r, s)
            => t[r].split = t[s].split

RestUnassigned(t) ==
    \A s \in SampleIds : ~ IsActive(t, s) => t[s].split = "unassigned"

TableOK(t) == LeakFree(t) /\ RestUnassigned(t)

\* What a sample that was read, or a duplicate that was linked, is merged with
ReadIsMerged ==
    \A k \in {"file", "text"}, s \in SampleIds :
        IsActive(command.rows, s) /\ s \notin command.unread
            => LET o == command.owner[k][HashOf(k, s)]
               IN o \in Groups /\ command.root[o] = command.root[GroupOf(s)]

OwnersAreGroups ==
    \A k \in {"file", "text"}, h \in SampleIds : command.owner[k][h] # 0 =>
        \E q \in SampleIds :
            /\ IsActive(command.rows, q) /\ HashOf(k, q) = h
            /\ GroupOf(q) = command.owner[k][h]

LinkedIsMerged ==
    \A s \in SampleIds :
        LET c == command.rows[s].of
        IN /\ IsActive(command.rows, s) /\ c \in SampleIds
           /\ s \notin command.unlinked /\ IsActive(command.rows, c)
           => command.root[GroupOf(s)] = command.root[GroupOf(c)]

MergingOK ==
    /\ TableOK(command.rows) /\ AgreesOn(command.rows, command.root)
    /\ ReadIsMerged /\ OwnersAreGroups /\ LinkedIsMerged
    /\ \A s \in command.unread : IsActive(command.rows, s)
    /\ \A s \in command.unlinked :
         IsActive(command.rows, s) /\ command.rows[s].of # 0
    /\ command.anew \/ command.rows = table

\* Rows that move nothing of the table
KeepsRows(t) ==
    \A s \in SampleIds : table[s].split \in {"unassigned", t[s].split}

WritingOK ==
    /\ TableOK(command.rows)
    /\ command.anew \/ KeepsRows(command.rows)

CommandOK ==
    /\ command.at = "merging" => MergingOK
    /\ command.at = "writing" => WritingOK

FilesOK ==
    /\ command.at \in {"export", "files", "clear"} => stale
    /\ command.at = "files" => \A p \in Splits :
         /\ p \notin command.todo => exported[p] = command.files[p]
         /\ \A s \in command.files[p] : IsActive(table, s) /\ table[s].split = p
    /\ command.at = "clear" => \A p \in Splits :
         p \notin command.todo => exported[p] = {}

DatasetIInv ==
    DatasetTypeOK /\ TableOK(table) /\ CommandOK /\ FilesOK /\ ExportsFollow

LEMMA UnassignedIsOK ==
  ASSUME NEW t, \A s \in SampleIds : t[s].split = "unassigned"
  PROVE  TableOK(t)
  BY DEF TableOK, LeakFree, RestUnassigned

LEMMA CorpusIsTyped ==
  ASSUME DatasetTypeOK
  PROVE  /\ corpus \in Corpus
         /\ \A s \in SampleIds :
              /\ GroupOf(s) \in Groups /\ corpus.file[s] \in SampleIds
              /\ corpus.record[s] \in SampleIds
  BY DatasetAssumption DEF DatasetTypeOK, Corpus, GroupOf

\* A command as it begins
LEMMA CommandIsTyped ==
  ASSUME NEW t \in Tables, NEW stage \in CommandPlaces,
         NEW then \in {"export", "clear"}, NEW anew \in BOOLEAN,
         NEW seed \in Seeds, NEW noted \in Seeds \cup {NoSeed},
         NEW ratio \in Ratios
  PROVE  CommandAt(stage, then, t, anew, seed, noted, ratio) \in CommandStates
  <1> DEFINE c == CommandAt(stage, then, t, anew, seed, noted, ratio)
  <1>1. c.root \in [Groups -> Groups]
    BY DEF CommandAt
  <1>2. c.owner \in [{"file", "text"} -> [SampleIds -> Groups \cup {0}]]
    BY DEF CommandAt
  <1>3. c.files \in [Splits -> SUBSET SampleIds]
    BY DEF CommandAt, NoFiles
  <1>4. c.unread \in SUBSET SampleIds /\ c.unlinked \in SUBSET SampleIds
    BY DEF CommandAt
  <1> QED BY <1>1, <1>2, <1>3, <1>4 DEF CommandAt, CommandStates

LEMMA NoCommandIsTyped ==
  ASSUME NoTable \in Tables
  PROVE  NoCommand \in CommandStates /\ NoCommand.at = "none"
  <1>1. Rewrites(NoTable, NoSeed) \in CommandStates
    BY CommandIsTyped, DatasetAssumption DEF Rewrites, CommandPlaces
  <1> QED BY <1>1 DEF NoCommand, CommandStates, CommandPlaces

\* A command that begins with rows that leak nothing
LEMMA BeginsWell ==
  ASSUME DatasetIInv, NEW t \in Tables, TableOK(t),
         NEW then \in {"export", "clear"},
         NEW stage \in {"merging", "writing"}, NEW anew \in BOOLEAN,
         anew \/ t = table,
         NEW seed \in Seeds, NEW noted \in Seeds \cup {NoSeed},
         NEW ratio \in Ratios,
         BeginsAs(CommandAt(stage, then, t, anew, seed, noted, ratio))
  PROVE  DatasetIInv'
  <1> DEFINE c == CommandAt(stage, then, t, anew, seed, noted, ratio)
  <1>1. /\ command' = c /\ commands' = commands + 1 /\ commands < MaxCommands
        /\ UNCHANGED <<corpus, present, spoiled, prepared, table, seedOf,
                       exported, stale>>
    BY DEF BeginsAs, CanBegin, diskVars, manifestVars, exportVars
  <1>2. c \in CommandStates
    BY CommandIsTyped DEF CommandPlaces
  <1>3. DatasetTypeOK'
    BY <1>1, <1>2, DatasetAssumption DEF DatasetIInv, DatasetTypeOK
  <1>4. TableOK(table)' /\ ExportsFollow'
    BY <1>1 DEF DatasetIInv, TableOK, LeakFree, RestUnassigned, AreLinked,
                GroupOf, ExportsFollow, IsActive
  <1>5. FilesOK'
    BY <1>1 DEF FilesOK, CommandAt
  <1>6. /\ c.rows = t /\ c.anew = anew /\ c.at = stage
        /\ c.unread = {s \in SampleIds : IsActive(t, s)}
        /\ c.unlinked = {s \in SampleIds : IsActive(t, s) /\ t[s].of # 0}
        /\ \A g \in Groups : c.root[g] = g
        /\ \A k \in {"file", "text"}, h \in SampleIds : c.owner[k][h] = 0
    BY DEF CommandAt
  <1>7. TableOK(c.rows)'
    BY <1>1, <1>6 DEF TableOK, LeakFree, RestUnassigned, AreLinked, GroupOf,
                      IsActive
  <1>8. \A s \in SampleIds : GroupOf(s) \in Groups
    BY CorpusIsTyped DEF DatasetIInv
  <1>9. AgreesOn(c.rows, c.root)'
    BY <1>1, <1>6, <1>7, <1>8
    DEF AgreesOn, TableOK, LeakFree, AreLinked, GroupOf
  <1>10. 0 \notin SampleIds
    BY DEF SampleIds
  <1>11. ReadIsMerged' /\ OwnersAreGroups' /\ LinkedIsMerged'
    BY <1>1, <1>6, <1>10
    DEF ReadIsMerged, OwnersAreGroups, LinkedIsMerged, IsActive
  <1>12. anew \/ KeepsRows(t)'
    BY <1>1 DEF KeepsRows
  <1>13. CommandOK'
    BY <1>1, <1>6, <1>7, <1>9, <1>11, <1>12
    DEF CommandOK, MergingOK, WritingOK, KeepsRows
  <1> QED BY <1>3, <1>4, <1>5, <1>13 DEF DatasetIInv

\* A command that only writes rows without splits
LEMMA RewritesWell ==
  ASSUME DatasetIInv, NEW t \in Tables,
         \A s \in SampleIds : t[s].split = "unassigned",
         NEW noted \in Seeds \cup {NoSeed}, BeginsAs(Rewrites(t, noted))
  PROVE  DatasetIInv'
  BY UnassignedIsOK, BeginsWell, DatasetAssumption, Zenon DEF Rewrites

LEMMA DatasetBegins ==
  ASSUME DatasetIInv,
         \/ \E seed \in Seeds, ratio \in Ratios :
              \/ \E policy \in Policies : PreparesAll(policy, seed, ratio)
              \/ SplitsAnew(seed, ratio)
         \/ \E ratio \in Ratios : SplitsMore(ratio)
         \/ ValidatesAll \/ DedupesAll
         \/ \E policy \in Policies : NormalizesAll(policy)
  PROVE  DatasetIInv'
  <1>1. /\ table \in Tables /\ TableOK(table) /\ corpus \in Corpus
        /\ seedOf \in Seeds \cup {NoSeed}
    BY CorpusIsTyped DEF DatasetIInv, DatasetTypeOK
  <1>2. ASSUME NEW policy \in Policies, NEW seed \in Seeds,
               NEW ratio \in Ratios, PreparesAll(policy, seed, ratio)
        PROVE  DatasetIInv'
    <2> DEFINE t == Classified(Built(policy))
    <2>1. Built(policy) \in Tables
      BY <1>1, TablesBuilt
    <2>2. /\ t \in Tables
          /\ \A s \in SampleIds : t[s].split = Built(policy)[s].split
      BY <2>1, TablesClassified
    <2>3. \A s \in SampleIds : Built(policy)[s].split = "unassigned"
      BY DEF Built, NoTable
    <2>4. TableOK(t)
      BY <2>2, <2>3, UnassignedIsOK
    <2> HIDE DEF t
    <2> QED BY <1>2, <2>2, <2>4, BeginsWell DEF PreparesAll, t
  <1>3. ASSUME NEW seed \in Seeds, NEW ratio \in Ratios,
               SplitsAnew(seed, ratio)
        PROVE  DatasetIInv'
    <2>1. Unassigned(table) \in Tables
      BY <1>1, TablesReset
    <2>2. TableOK(Unassigned(table))
      <3>1. \A s \in SampleIds : Unassigned(table)[s].split = "unassigned"
        BY <1>1 DEF Unassigned, Tables, SampleRow
      <3> QED BY <3>1, UnassignedIsOK
    <2> QED BY <1>3, <2>1, <2>2, BeginsWell DEF SplitsAnew
  <1>4. ASSUME NEW ratio \in Ratios, SplitsMore(ratio)
        PROVE  DatasetIInv'
    <2> DEFINE sd == IF seedOf # NoSeed THEN seedOf ELSE DefaultSeed
    <2>1. sd \in Seeds
      BY <1>1, DatasetAssumption
    <2>2. BeginsAs(CommandAt("merging", "clear", table, FALSE, sd, seedOf,
                             ratio))
      BY <1>4 DEF SplitsMore
    <2> HIDE DEF sd
    <2> QED BY <1>1, <2>1, <2>2, BeginsWell
  <1>5. CASE ValidatesAll
    <2>1. Validated(table) \in Tables
      BY <1>1, TablesChecked
    <2>2. Reset(Validated(table)) \in Tables
      BY <1>1, <2>1, TablesReset
    <2>3. \A s \in SampleIds : Reset(Validated(table))[s].split = "unassigned"
      BY <2>1 DEF Reset, Tables, SampleRow
    <2> QED BY <1>5, <2>2, <2>3, RewritesWell DEF ValidatesAll
  <1>6. CASE DedupesAll
    <2>1. Classified(table) \in Tables
      BY <1>1, TablesClassified
    <2>2. Unassigned(Classified(table)) \in Tables
      BY <1>1, <2>1, TablesReset
    <2>3. \A s \in SampleIds :
            Unassigned(Classified(table))[s].split = "unassigned"
      BY <2>1 DEF Unassigned, Tables, SampleRow
    <2> QED BY <1>1, <1>6, <2>2, <2>3, RewritesWell DEF DedupesAll
  <1>7. ASSUME NEW policy \in Policies, NormalizesAll(policy)
        PROVE  DatasetIInv'
    <2>1. Normalized(table, policy) \in Tables
      BY <1>1, TablesBuilt
    <2>2. Reset(Normalized(table, policy)) \in Tables
      BY <1>1, <2>1, TablesReset
    <2>3. \A s \in SampleIds :
            Reset(Normalized(table, policy))[s].split = "unassigned"
      BY <2>1 DEF Reset, Tables, SampleRow
    <2> QED BY <1>1, <1>7, <2>2, <2>3, RewritesWell DEF NormalizesAll
  <1> QED BY <1>2, <1>3, <1>4, <1>5, <1>6, <1>7

\* A step of the command that leaves the manifest and the files alone, and keeps
\* the command's own facts
LEMMA DatasetOthers ==
  ASSUME DatasetIInv, command' \in CommandStates, CommandOK',
         command'.at \in {"none", "merging", "writing"},
         UNCHANGED <<diskVars, manifestVars, exportVars, commands>>
  PROVE  DatasetIInv'
  <1> USE DEF diskVars, manifestVars, exportVars
  <1>1. DatasetTypeOK'
    BY DEF DatasetIInv, DatasetTypeOK
  <1>2. TableOK(table)' /\ ExportsFollow'
    BY DEF DatasetIInv, TableOK, LeakFree, RestUnassigned, AreLinked,
           GroupOf, ExportsFollow, IsActive
  <1>3. FilesOK'
    BY DEF FilesOK
  <1> QED BY <1>1, <1>2, <1>3 DEF DatasetIInv

\* hash_owner and the union that follows it, for one kind of hash: the owner is
\* a group of a sample with the hash, so of one split with the sample.
LEMMA OwnerFits ==
  ASSUME DatasetIInv, MergingOK, NEW s \in SampleIds, IsActive(command.rows, s),
         NEW k \in {"file", "text"},
         NEW root \in [Groups -> Groups], AgreesOn(command.rows, root)
  PROVE  LET o == OwnerNow(k, HashOf(k, s), GroupOf(s))
         IN /\ o \in Groups
            /\ \E q \in SampleIds :
                 IsActive(command.rows, q) /\ HashOf(k, q) = HashOf(k, s)
                 /\ GroupOf(q) = o
            /\ AgreesOn(command.rows, Union(root, o, GroupOf(s)))
  <1> DEFINE h == HashOf(k, s)
             o == OwnerNow(k, h, GroupOf(s))
  <1>1. command.rows \in Tables /\ corpus \in Corpus
    BY CorpusIsTyped DEF DatasetIInv, DatasetTypeOK, CommandStates
  <1>2. h \in SampleIds
    BY <1>1 DEF HashOf, Corpus, Tables, SampleRow
  <1>3. PICK q \in SampleIds : /\ IsActive(command.rows, q)
                              /\ HashOf(k, q) = h /\ GroupOf(q) = o
    BY <1>2 DEF OwnerNow, MergingOK, OwnersAreGroups
  <1>4. command.rows[q].split = command.rows[s].split
    BY <1>3 DEF MergingOK, TableOK, LeakFree, AreLinked, HashOf
  <1>5. AgreesOn(command.rows, Union(root, GroupOf(q), GroupOf(s)))
    BY <1>1, <1>3, <1>4, UnionAgrees
  <1>6. GroupOf(q) \in Groups
    BY CorpusIsTyped DEF DatasetIInv
  <1> QED BY <1>3, <1>5, <1>6

LEMMA DatasetMerges ==
  ASSUME DatasetIInv, NEW s \in SampleIds, MergesSample(s)
  PROVE  DatasetIInv'
  <1> DEFINE g == GroupOf(s)
             hf == HashOf("file", s)
             ht == HashOf("text", s)
             f == OwnerNow("file", hf, g)
             x == OwnerNow("text", ht, g)
             one == Union(command.root, f, g)
             two == Union(one, x, g)
  <1>1. /\ MergingOK /\ s \in command.unread /\ command.at = "merging"
        /\ MergesHashes(s)
        /\ UNCHANGED <<diskVars, manifestVars, exportVars, commands>>
    BY DEF MergesSample, IsNextOf, DatasetIInv, CommandOK
  <1>2. /\ command \in CommandStates /\ command.rows \in Tables
        /\ corpus \in Corpus /\ command.root \in [Groups -> Groups]
        /\ \A q \in SampleIds : GroupOf(q) \in Groups
    BY CorpusIsTyped DEF DatasetIInv, DatasetTypeOK, CommandStates
  <1>3. command' = [command EXCEPT
          !.unread = @ \ {s}, !.owner["file"][hf] = f,
          !.owner["text"][ht] = x, !.root = two]
    BY <1>1 DEF MergesHashes
  <1>4. hf \in SampleIds /\ ht \in SampleIds
    BY <1>2 DEF HashOf, Corpus, Tables, SampleRow
  <1>5. IsActive(command.rows, s)
    BY <1>1 DEF MergingOK
  <1>6. /\ f \in Groups /\ AgreesOn(command.rows, one)
        /\ \E q \in SampleIds : /\ IsActive(command.rows, q)
                                /\ HashOf("file", q) = hf /\ GroupOf(q) = f
    BY <1>1, <1>2, <1>5, OwnerFits DEF MergingOK
  <1> HIDE DEF f, x, one, two, g, hf, ht
  <1>20. g \in Groups
    BY <1>2 DEF g
  <1>7. /\ one \in [Groups -> Groups] /\ one[f] = one[g]
        /\ \A a, b \in Groups :
             command.root[a] = command.root[b] => one[a] = one[b]
    <2> DEFINE base == command.root
    <2>1. base \in [Groups -> Groups] /\ f \in Groups /\ one = Union(base, f, g)
      BY <1>2, <1>6 DEF one
    <2> HIDE DEF base
    <2>2. one \in [Groups -> Groups] /\ one[f] = one[g]
      BY <2>1, <1>20, UnionMerges
    <2>3. \A a, b \in Groups : base[a] = base[b] => one[a] = one[b]
      BY <2>1, UnionKeeps
    <2> QED BY <2>2, <2>3 DEF base
  <1>8. /\ x \in Groups /\ AgreesOn(command.rows, two)
        /\ \E q \in SampleIds : /\ IsActive(command.rows, q)
                                /\ HashOf("text", q) = ht /\ GroupOf(q) = x
    BY <1>1, <1>5, <1>6, <1>7, OwnerFits DEF two, x, ht, g
  <1>9. /\ two \in [Groups -> Groups] /\ two[x] = two[g]
        /\ \A a, b \in Groups : one[a] = one[b] => two[a] = two[b]
    <2>1. /\ one \in [Groups -> Groups] /\ x \in Groups
          /\ two = Union(one, x, g)
      BY <1>7, <1>8 DEF two
    <2>2. two \in [Groups -> Groups] /\ two[x] = two[g]
      BY <2>1, <1>20, UnionMerges
    <2>3. \A a, b \in Groups : one[a] = one[b] => two[a] = two[b]
      BY <2>1, UnionKeeps
    <2> QED BY <2>2, <2>3
  <1>10. /\ command' \in CommandStates
         /\ command'.rows = command.rows /\ command'.root = two
         /\ command'.unread = command.unread \ {s}
         /\ command'.unlinked = command.unlinked
         /\ command'.anew = command.anew /\ command'.at = "merging"
         /\ \A h \in SampleIds :
              /\ command'.owner["file"][h] =
                   IF h = hf THEN f ELSE command.owner["file"][h]
              /\ command'.owner["text"][h] =
                   IF h = ht THEN x ELSE command.owner["text"][h]
    BY <1>1, <1>2, <1>3, <1>4, <1>6, <1>8, <1>9 DEF CommandStates
  <1>11. /\ \A q \in SampleIds : GroupOf(q)' = GroupOf(q)
         /\ \A q \in SampleIds, k \in {"file", "text"} :
              HashOf(k, q)' = HashOf(k, q)
         /\ UNCHANGED <<corpus, table>>
    BY <1>1, <1>10 DEF GroupOf, HashOf, diskVars, manifestVars
  <1>12. TableOK(command.rows)' /\ AgreesOn(command.rows, command.root)'
    <2>1. TableOK(command.rows)'
      BY <1>1, <1>10, <1>11
      DEF MergingOK, TableOK, LeakFree, RestUnassigned, AreLinked, IsActive,
          GroupOf
    <2>2. AgreesOn(command.rows, command.root)'
      BY <1>8, <1>10, <1>11 DEF AgreesOn, IsActive
    <2> QED BY <2>1, <2>2
  <1>13. \A a, b \in Groups :
           command.root[a] = command.root[b] => two[a] = two[b]
    BY <1>7, <1>9
  <1>14. hf = HashOf("file", s) /\ ht = HashOf("text", s) /\ g = GroupOf(s)
    BY DEF hf, ht, g
  <1>15. f = OwnerNow("file", hf, g) /\ x = OwnerNow("text", ht, g)
    BY DEF f, x
  <1>16. ReadIsMerged'
    <2> SUFFICES ASSUME NEW k \in {"file", "text"}, NEW q \in SampleIds,
                        IsActive(command.rows, q), q \notin command.unread \ {s}
                 PROVE  /\ command'.owner[k][HashOf(k, q)] \in Groups
                        /\ two[command'.owner[k][HashOf(k, q)]]
                             = two[GroupOf(q)]
      BY <1>10, <1>11 DEF ReadIsMerged, IsActive
    <2>1. CASE q = s
      BY <2>1, <1>2, <1>4, <1>6, <1>7, <1>8, <1>9, <1>10, <1>14
    <2>2. CASE q # s
      <3> DEFINE o == command.owner[k][HashOf(k, q)]
      <3>1. o \in Groups /\ command.root[o] = command.root[GroupOf(q)]
        BY <1>1, <2>2 DEF MergingOK, ReadIsMerged
      <3>2. 0 \notin Groups
        BY DEF Groups
      <3>3. HashOf(k, q) \in SampleIds
        BY <1>2 DEF HashOf, Corpus, Tables, SampleRow
      <3>4. command'.owner[k][HashOf(k, q)] = o
        <4>1. CASE k = "file"
          BY <4>1, <1>10, <1>15, <3>1, <3>2, <3>3 DEF OwnerNow
        <4>2. CASE k = "text"
          BY <4>2, <1>10, <1>15, <3>1, <3>2, <3>3 DEF OwnerNow
        <4> QED BY <4>1, <4>2
      <3> QED BY <3>1, <3>4, <1>2, <1>13
    <2> QED BY <2>1, <2>2
  <1>17. OwnersAreGroups'
    <2> SUFFICES ASSUME NEW k \in {"file", "text"}, NEW h \in SampleIds,
                        command'.owner[k][h] # 0
                 PROVE  \E q \in SampleIds :
                          /\ IsActive(command.rows, q) /\ HashOf(k, q) = h
                          /\ GroupOf(q) = command'.owner[k][h]
      BY <1>10, <1>11 DEF OwnersAreGroups, IsActive
    <2>1. CASE k = "file" /\ h = hf
      BY <2>1, <1>6, <1>10
    <2>2. CASE k = "text" /\ h = ht
      BY <2>2, <1>8, <1>10
    <2>3. CASE ~ (k = "file" /\ h = hf) /\ ~ (k = "text" /\ h = ht)
      <3>1. command'.owner[k][h] = command.owner[k][h]
        BY <2>3, <1>10
      <3> QED BY <3>1, <1>1 DEF MergingOK, OwnersAreGroups
    <2> QED BY <2>1, <2>2, <2>3
  <1>18. LinkedIsMerged'
    BY <1>1, <1>2, <1>10, <1>11, <1>13
    DEF LinkedIsMerged, MergingOK, IsActive, Tables, SampleRow
  <1>19. MergingOK'
    BY <1>1, <1>10, <1>11, <1>12, <1>16, <1>17, <1>18 DEF MergingOK, IsActive
  <1> QED BY <1>1, <1>10, <1>19, DatasetOthers DEF CommandOK

LEMMA DatasetLinks ==
  ASSUME DatasetIInv, NEW s \in SampleIds, LinksDuplicate(s)
  PROVE  DatasetIInv'
  <1> DEFINE held == command.rows
             c == held[s].of
             new == IF IsActive(held, c)
                      THEN Union(command.root, GroupOf(s), GroupOf(c))
                      ELSE command.root
  <1>1. /\ MergingOK /\ s \in command.unlinked /\ command.at = "merging"
        /\ command' = [command EXCEPT !.unlinked = @ \ {s}, !.root = new]
        /\ UNCHANGED <<diskVars, manifestVars, exportVars, commands>>
    BY DEF LinksDuplicate, DatasetIInv, CommandOK
  <1>2. /\ command \in CommandStates /\ held \in Tables
        /\ corpus \in Corpus /\ command.root \in [Groups -> Groups]
        /\ \A q \in SampleIds : GroupOf(q) \in Groups
    BY CorpusIsTyped DEF DatasetIInv, DatasetTypeOK, CommandStates
  <1>3. IsActive(held, s)
    BY <1>1 DEF MergingOK
  <1> HIDE DEF held
  <1>4. ASSUME IsActive(held, c), c \in SampleIds
        PROVE  /\ new \in [Groups -> Groups]
               /\ new[GroupOf(s)] = new[GroupOf(c)]
               /\ AgreesOn(held, new)
               /\ \A a, b \in Groups :
                    command.root[a] = command.root[b] => new[a] = new[b]
    <2>1. held[s].split = held[c].split
      BY <1>1, <1>3, <1>4 DEF MergingOK, TableOK, LeakFree, AreLinked, held
    <2>2. AgreesOn(held, command.root)
      BY <1>1 DEF MergingOK, held
    <2>3. AgreesOn(held, Union(command.root, GroupOf(s), GroupOf(c)))
      BY <1>2, <1>3, <1>4, <2>1, <2>2, UnionAgrees
    <2> DEFINE u == Union(command.root, GroupOf(s), GroupOf(c))
    <2>4. /\ u \in [Groups -> Groups] /\ u[GroupOf(s)] = u[GroupOf(c)]
          /\ \A a, b \in Groups :
               command.root[a] = command.root[b] => u[a] = u[b]
      <3> DEFINE base == command.root
                 g == GroupOf(s)
                 h == GroupOf(c)
      <3>1. base \in [Groups -> Groups] /\ g \in Groups /\ h \in Groups
        BY <1>2, <1>4
      <3>2. u = Union(base, g, h)
        OBVIOUS
      <3> HIDE DEF base, g, h, u
      <3>3. u \in [Groups -> Groups] /\ u[g] = u[h]
        BY <3>1, <3>2, UnionMerges
      <3>4. \A a, b \in Groups : base[a] = base[b] => u[a] = u[b]
        BY <3>2, UnionKeeps
      <3> QED BY <3>3, <3>4 DEF base, g, h
    <2>5. new = u
      BY <1>4
    <2> QED BY <2>3, <2>4, <2>5, Zenon
  <1>5. c \in SampleIds
    BY <1>1, <1>2, <1>3 DEF Tables, SampleRow, MergingOK, held
  <1>6. /\ new \in [Groups -> Groups] /\ AgreesOn(held, new)
        /\ \A a, b \in Groups :
             command.root[a] = command.root[b] => new[a] = new[b]
        /\ IsActive(held, c) => new[GroupOf(s)] = new[GroupOf(c)]
    <2>1. CASE IsActive(held, c)
      BY <2>1, <1>4, <1>5
    <2>2. CASE ~ IsActive(held, c)
      BY <2>2, <1>1, <1>2 DEF MergingOK, held
    <2> QED BY <2>1, <2>2
  <1> HIDE DEF new, c
  <1>7. /\ command' \in CommandStates
        /\ command'.rows = held /\ command'.root = new
        /\ command'.unread = command.unread
        /\ command'.unlinked = command.unlinked \ {s}
        /\ command'.owner = command.owner
        /\ command'.anew = command.anew /\ command'.at = "merging"
    BY <1>1, <1>2, <1>6 DEF CommandStates, held
  <1>8. /\ \A q \in SampleIds : GroupOf(q)' = GroupOf(q)
        /\ \A q \in SampleIds, k \in {"file", "text"} :
             HashOf(k, q)' = HashOf(k, q)
        /\ UNCHANGED <<corpus, table>>
    BY <1>1, <1>7 DEF GroupOf, HashOf, diskVars, manifestVars, held
  <1>9. TableOK(command.rows)' /\ AgreesOn(command.rows, command.root)'
    <2>1. TableOK(command.rows)'
      BY <1>1, <1>7, <1>8
      DEF MergingOK, TableOK, LeakFree, RestUnassigned, AreLinked, IsActive,
          GroupOf, held
    <2>2. AgreesOn(command.rows, command.root)'
      BY <1>6, <1>7, <1>8 DEF AgreesOn, IsActive
    <2> QED BY <2>1, <2>2
  <1>10. ReadIsMerged' /\ OwnersAreGroups'
    BY <1>1, <1>2, <1>6, <1>7, <1>8
    DEF ReadIsMerged, OwnersAreGroups, MergingOK, IsActive, held
  <1>11. LinkedIsMerged'
    <2> SUFFICES ASSUME NEW q \in SampleIds, held[q].of \in SampleIds,
                        IsActive(held, q), IsActive(held, held[q].of),
                        q \notin command.unlinked \ {s}
                 PROVE  new[GroupOf(q)] = new[GroupOf(held[q].of)]
      BY <1>7, <1>8 DEF LinkedIsMerged, IsActive
    <2>1. CASE q = s
      BY <2>1, <1>6 DEF c
    <2>2. CASE q # s
      BY <2>2, <1>1, <1>2, <1>6 DEF MergingOK, LinkedIsMerged, held
    <2> QED BY <2>1, <2>2
  <1>12. MergingOK'
    BY <1>1, <1>7, <1>8, <1>9, <1>10, <1>11 DEF MergingOK, IsActive, held
  <1> QED BY <1>1, <1>7, <1>12, DatasetOthers DEF CommandOK

\* The split of a merged group: a split, and the one its samples had.
LEMMA SplitIsTyped ==
  ASSUME DatasetIInv, NEW s \in SampleIds, IsActive(command.rows, s)
  PROVE  SplitFor(command.root[GroupOf(s)]) \in Splits
  <1> DEFINE r == command.root[GroupOf(s)]
             S == {GroupOf(q) : q \in MembersOf(r)}
  <1>1. CASE \E p \in Splits : PriorSplits(r) = {p}
    BY <1>1 DEF SplitFor
  <1>2. CASE ~ \E p \in Splits : PriorSplits(r) = {p}
    <2>1. \A q \in MembersOf(r) : q \in SampleIds
      BY DEF MembersOf
    <2>2. S \in SUBSET Groups
      BY <2>1, CorpusIsTyped DEF DatasetIInv
    <2>3. S \in SUBSET Nat
      BY <2>2, DatasetAssumption DEF Groups
    <2>4. GroupOf(s) \in S
      <3>1. s \in MembersOf(r)
        BY DEF MembersOf
      <3> QED BY <3>1
    <2>5. PICK n \in S : \A k \in S : n <= k
      BY <2>3, <2>4, LeastNumber
    <2>6. \A q \in MembersOf(r) : n <= GroupOf(q)
      BY <2>5
    <2>7. Anchor(r) \in S
      BY <2>6 DEF Anchor
    <2>8. <<command.seed, command.ratio, Anchor(r)>>
            \in Seeds \X Ratios \X Groups
      BY <2>2, <2>7 DEF DatasetIInv, DatasetTypeOK, CommandStates
    <2> QED BY <1>2, <2>8, DatasetAssumption DEF SplitFor
  <1> QED BY <1>1, <1>2

LEMMA SplitIsKept ==
  ASSUME DatasetIInv, MergingOK, NEW s \in SampleIds,
         IsActive(command.rows, s), command.rows[s].split # "unassigned"
  PROVE  SplitFor(command.root[GroupOf(s)]) = command.rows[s].split
  <1> DEFINE r == command.root[GroupOf(s)]
             p == command.rows[s].split
  <1>1. p \in Splits
    <2>1. command.rows \in Tables
      BY DEF DatasetIInv, DatasetTypeOK, CommandStates
    <2> QED BY <2>1 DEF Tables, SampleRow
  <1>2. s \in MembersOf(r)
    BY DEF MembersOf
  <1>3. \A q \in MembersOf(r) : command.rows[q].split = p
    BY DEF MembersOf, MergingOK, AgreesOn
  <1>4. PriorSplits(r) = {p}
    BY <1>2, <1>3 DEF PriorSplits
  <1> HIDE DEF p, r
  <1>5. \A q \in Splits : PriorSplits(r) = {q} => q = p
    BY <1>4
  <1>6. SplitFor(r) = p
    BY <1>1, <1>4, <1>5 DEF SplitFor
  <1> QED BY <1>6 DEF p, r

LEMMA DatasetAssigns ==
  ASSUME DatasetIInv, AssignsSplits
  PROVE  DatasetIInv'
  <1> DEFINE held == command.rows
             new == Assigned
  <1>1. /\ MergingOK /\ command.at = "merging"
        /\ command.unread = {} /\ command.unlinked = {}
        /\ command' = [command EXCEPT !.rows = new, !.at = "writing"]
        /\ UNCHANGED <<diskVars, manifestVars, exportVars, commands>>
    BY DEF AssignsSplits, DatasetIInv, CommandOK
  <1>2. /\ command \in CommandStates /\ held \in Tables /\ corpus \in Corpus
        /\ \A q \in SampleIds : GroupOf(q) \in Groups
    BY CorpusIsTyped DEF DatasetIInv, DatasetTypeOK, CommandStates
  <1>3. \A q \in SampleIds :
          IsActive(held, q) => SplitFor(command.root[GroupOf(q)]) \in Splits
    BY SplitIsTyped
  <1>4. \A q \in SampleIds :
          /\ new[q] \in SampleRow /\ new[q].status = held[q].status
          /\ new[q].text = held[q].text /\ new[q].of = held[q].of
          /\ new[q].split = IF IsActive(held, q)
                              THEN SplitFor(command.root[GroupOf(q)])
                              ELSE "unassigned"
    <2> SUFFICES ASSUME NEW q \in SampleIds
                 PROVE  /\ new[q] \in SampleRow
                        /\ new[q].status = held[q].status
                        /\ new[q].text = held[q].text /\ new[q].of = held[q].of
                        /\ new[q].split = IF IsActive(held, q)
                              THEN SplitFor(command.root[GroupOf(q)])
                              ELSE "unassigned"
      OBVIOUS
    <2> DEFINE p == IF IsActive(held, q)
                      THEN SplitFor(command.root[GroupOf(q)])
                      ELSE "unassigned"
    <2>1. new[q] = [held[q] EXCEPT !.split = p]
      BY DEF Assigned
    <2>2. held[q] \in SampleRow
      BY <1>2 DEF Tables
    <2>3. p \in Splits \cup {"unassigned"}
      BY <1>3
    <2> HIDE DEF p, held, new
    <2>4. /\ new[q] \in SampleRow
          /\ new[q].status = held[q].status
          /\ new[q].text = held[q].text /\ new[q].of = held[q].of
          /\ new[q].split = p
      BY <2>1, <2>2, <2>3 DEF SampleRow
    <2> QED BY <2>4 DEF p
  <1>5. new \in Tables
    <2>1. new = [q \in SampleIds |-> new[q]]
      BY DEF Assigned
    <2> QED BY <1>4, <2>1 DEF Tables
  <1> HIDE DEF new, held
  <1>6. \A q \in SampleIds : IsActive(new, q) <=> IsActive(held, q)
    BY <1>4 DEF IsActive
  <1>7. ASSUME NEW q \in SampleIds, NEW s \in SampleIds, IsActive(held, q),
               IsActive(held, s), AreLinked(held, q, s)
        PROVE  command.root[GroupOf(q)] = command.root[GroupOf(s)]
    <2>1. CASE GroupOf(q) = GroupOf(s)
      BY <2>1
    <2>2. CASE corpus.file[q] = corpus.file[s]
      <3>1. HashOf("file", q) = HashOf("file", s)
        BY <2>2 DEF HashOf
      <3> QED BY <1>1, <1>7, <3>1 DEF MergingOK, ReadIsMerged, held
    <2>3. CASE held[q].text = held[s].text
      <3>1. HashOf("text", q) = HashOf("text", s)
        BY <2>3 DEF HashOf, held
      <3> QED BY <1>1, <1>7, <3>1 DEF MergingOK, ReadIsMerged, held
    <2>4. CASE held[q].of = s
      BY <1>1, <1>7, <2>4 DEF MergingOK, LinkedIsMerged, held
    <2> QED BY <1>7, <2>1, <2>2, <2>3, <2>4 DEF AreLinked
  <1>8. LeakFree(new)
    <2> SUFFICES ASSUME NEW q \in SampleIds, NEW s \in SampleIds,
                        IsActive(new, q), IsActive(new, s),
                        AreLinked(new, q, s)
                 PROVE  new[q].split = new[s].split
      BY DEF LeakFree
    <2>1. AreLinked(held, q, s)
      BY <1>4 DEF AreLinked
    <2>2. command.root[GroupOf(q)] = command.root[GroupOf(s)]
      BY <1>6, <1>7, <2>1
    <2> QED BY <1>4, <1>6, <2>2
  <1>9. TableOK(new)
    BY <1>4, <1>6, <1>8 DEF TableOK, RestUnassigned
  <1>10. command.anew \/ KeepsRows(new)
    <2> SUFFICES ASSUME ~ command.anew, NEW s \in SampleIds,
                        table[s].split # "unassigned"
                 PROVE  table[s].split = new[s].split
      BY DEF KeepsRows
    <2>1. held = table
      BY <1>1 DEF MergingOK, held
    <2>2. IsActive(held, s)
      BY <1>1, <2>1 DEF MergingOK, TableOK, RestUnassigned, held
    <2>3. SplitFor(command.root[GroupOf(s)]) = held[s].split
      BY <1>1, <2>1, <2>2, SplitIsKept DEF held
    <2> QED BY <1>4, <2>1, <2>2, <2>3
  <1>11. /\ command' \in CommandStates /\ command'.rows = new
         /\ command'.anew = command.anew /\ command'.at = "writing"
    BY <1>1, <1>2, <1>5 DEF CommandStates, CommandPlaces
  <1>12. UNCHANGED <<corpus, table>>
    BY <1>1 DEF diskVars, manifestVars
  <1>13. WritingOK'
    BY <1>9, <1>10, <1>11, <1>12
    DEF WritingOK, TableOK, LeakFree, RestUnassigned, AreLinked, IsActive,
        GroupOf, KeepsRows
  <1> QED BY <1>1, <1>11, <1>13, DatasetOthers DEF CommandOK

LEMMA DatasetWrites ==
  ASSUME DatasetIInv,
         \/ WritesTable
         \/ \E holdout, duplicates \in BOOLEAN :
              SelectsPrepared(holdout, duplicates)
              \/ ExportsAll(holdout, duplicates)
  PROVE  DatasetIInv'
  <1> USE DEF diskVars, manifestVars, exportVars
  <1>1. DatasetTypeOK /\ command \in CommandStates /\ table \in Tables
    BY DEF DatasetIInv, DatasetTypeOK
  <1>2. CASE WritesTable
    <2>1. /\ WritingOK /\ table' = command.rows /\ prepared' = TRUE
          /\ seedOf' = command.noted /\ stale' = TRUE
          /\ command' = [command EXCEPT !.at = command.then, !.todo = Splits]
          /\ UNCHANGED <<corpus, present, spoiled, exported, commands>>
      BY <1>2 DEF WritesTable, DatasetIInv, CommandOK
    <2>2. /\ command' \in CommandStates /\ command'.at \in {"export", "clear"}
          /\ command'.todo = Splits
      BY <1>1, <2>1 DEF CommandStates, CommandPlaces
    <2>3. DatasetTypeOK'
      BY <1>1, <2>1, <2>2 DEF DatasetTypeOK, CommandStates
    <2>4. TableOK(table)'
      BY <2>1 DEF WritingOK, TableOK, LeakFree, RestUnassigned, AreLinked,
                  IsActive, GroupOf
    <2>5. CommandOK' /\ FilesOK' /\ ExportsFollow'
      BY <2>1, <2>2 DEF CommandOK, FilesOK, ExportsFollow
    <2> QED BY <2>3, <2>4, <2>5 DEF DatasetIInv
  <1>3. ASSUME NEW holdout \in BOOLEAN, NEW duplicates \in BOOLEAN,
               \/ SelectsPrepared(holdout, duplicates)
               \/ ExportsAll(holdout, duplicates)
        PROVE  DatasetIInv'
    <2> DEFINE fs == [p \in Splits |-> Exportable(holdout, duplicates, p)]
    <2>1. /\ command' = [command EXCEPT !.at = "files", !.todo = Splits,
                           !.files = fs]
          /\ commands' \in 0..MaxCommands /\ stale' = TRUE
          /\ UNCHANGED <<corpus, present, spoiled, prepared, table, seedOf,
                         exported>>
      <3>1. CASE SelectsPrepared(holdout, duplicates)
        <4>1. stale = TRUE /\ commands \in 0..MaxCommands
          BY <3>1 DEF SelectsPrepared, DatasetIInv, FilesOK, DatasetTypeOK
        <4>2. command' = [command EXCEPT !.at = "files", !.todo = Splits,
                            !.files = fs]
          BY <3>1 DEF SelectsPrepared, SelectsRows
        <4> HIDE DEF fs
        <4> QED BY <3>1, <4>1, <4>2 DEF SelectsPrepared
      <3>2. CASE ExportsAll(holdout, duplicates)
        <4>1. commands' \in 0..MaxCommands
          BY <1>1, <3>2, DatasetAssumption
          DEF ExportsAll, CanBegin, DatasetTypeOK
        <4>2. command' = [command EXCEPT !.at = "files", !.todo = Splits,
                            !.files = fs]
          BY <3>2 DEF ExportsAll, SelectsRows
        <4> HIDE DEF fs
        <4> QED BY <3>2, <4>1, <4>2 DEF ExportsAll
      <3> QED BY <1>3, <3>1, <3>2
    <2>2. fs \in [Splits -> SUBSET SampleIds]
      BY DEF Exportable
    <2>3. \A p \in Splits : \A s \in fs[p] :
            s \in SampleIds /\ IsActive(table, s) /\ table[s].split = p
      BY DEF Exportable
    <2> HIDE DEF fs
    <2>4. /\ command' \in CommandStates /\ command'.at = "files"
          /\ command'.todo = Splits /\ command'.files = fs
      BY <1>1, <2>1, <2>2 DEF CommandStates, CommandPlaces
    <2>5. DatasetTypeOK'
      BY <1>1, <2>1, <2>4 DEF DatasetTypeOK
    <2>6. TableOK(table)'
      BY <2>1 DEF DatasetIInv, TableOK, LeakFree, RestUnassigned, AreLinked,
                  IsActive, GroupOf
    <2>7. CommandOK' /\ FilesOK' /\ ExportsFollow'
      BY <2>1, <2>3, <2>4 DEF CommandOK, FilesOK, ExportsFollow, IsActive
    <2> QED BY <2>5, <2>6, <2>7 DEF DatasetIInv
  <1> QED BY <1>2, <1>3

LEMMA DatasetFiles ==
  ASSUME DatasetIInv,
         \/ \E p \in Splits : WritesFile(p) \/ ClearsFile(p)
         \/ CommandEnds
  PROVE  DatasetIInv'
  <1> USE DEF diskVars, manifestVars, exportVars
  <1>1. DatasetTypeOK /\ command \in CommandStates
    BY DEF DatasetIInv, DatasetTypeOK
  <1>2. ASSUME UNCHANGED <<corpus, table>>
        PROVE  TableOK(table)'
    BY <1>2 DEF DatasetIInv, TableOK, LeakFree, RestUnassigned, AreLinked,
                IsActive, GroupOf
  <1>3. ASSUME NEW p \in Splits, WritesFile(p) \/ ClearsFile(p)
        PROVE  DatasetIInv'
    <2>1. /\ command' = [command EXCEPT !.todo = @ \ {p}]
          /\ UNCHANGED <<corpus, present, spoiled, prepared, table, seedOf,
                         stale, commands>>
          /\ exported' \in [Splits -> SUBSET SampleIds]
          /\ \A q \in Splits \ {p} : exported'[q] = exported[q]
          /\ \/ command.at = "files" /\ exported'[p] = command.files[p]
             \/ command.at = "clear" /\ exported'[p] = {}
      BY <1>1, <1>3 DEF WritesFile, ClearsFile, Cleared, DatasetTypeOK,
                        CommandStates
    <2>2. /\ command' \in CommandStates /\ command'.at = command.at
          /\ command'.todo = command.todo \ {p}
          /\ command'.files = command.files
      BY <1>1, <2>1 DEF CommandStates
    <2>3. DatasetTypeOK'
      BY <1>1, <2>1, <2>2 DEF DatasetTypeOK
    <2>4. stale = TRUE
      BY <2>1 DEF DatasetIInv, FilesOK, DatasetTypeOK
    <2>5. FilesOK'
      BY <2>1, <2>2 DEF DatasetIInv, FilesOK, IsActive
    <2>6. CommandOK' /\ ExportsFollow'
      BY <2>1, <2>2, <2>4 DEF CommandOK, ExportsFollow
    <2> QED BY <1>2, <2>1, <2>3, <2>5, <2>6 DEF DatasetIInv
  <1>4. CASE CommandEnds
    <2>1. /\ command.at \in {"files", "clear"} /\ command.todo = {}
          /\ command' = NoCommand /\ stale' = FALSE
          /\ UNCHANGED <<corpus, present, spoiled, prepared, table, seedOf,
                         exported, commands>>
      BY <1>4 DEF CommandEnds
    <2>2. command' \in CommandStates /\ command'.at = "none"
      BY <2>1, NoTableIsTyped, NoCommandIsTyped
    <2>3. DatasetTypeOK'
      BY <1>1, <2>1, <2>2 DEF DatasetTypeOK
    <2>4. ExportsFollow'
      BY <2>1 DEF DatasetIInv, FilesOK, ExportsFollow, IsActive
    <2>5. CommandOK' /\ FilesOK'
      BY <2>2 DEF CommandOK, FilesOK
    <2> QED BY <1>2, <2>1, <2>3, <2>4, <2>5 DEF DatasetIInv
  <1> QED BY <1>3, <1>4

LEMMA DatasetInvariant == DatasetSpec => []DatasetIInv
  <1>1. DatasetInit => DatasetIInv
    <2> SUFFICES ASSUME DatasetInit PROVE DatasetIInv
      OBVIOUS
    <2>1. /\ command \in CommandStates /\ command.at = "none"
          /\ table \in Tables
          /\ \A s \in SampleIds : table[s].split = "unassigned"
      BY NoTableIsTyped, NoCommandIsTyped DEF DatasetInit, NoTable
    <2>2. DatasetTypeOK
      <3>1. commands \in 0..MaxCommands /\ seedOf \in Seeds \cup {NoSeed}
        BY DatasetAssumption DEF DatasetInit
      <3>2. exported \in [Splits -> SUBSET SampleIds] /\ stale \in BOOLEAN
        BY DEF DatasetInit, NoFiles
      <3>3. /\ corpus \in Corpora /\ prepared \in BOOLEAN
            /\ present \subseteq SampleIds /\ spoiled \subseteq SampleIds
        BY DEF DatasetInit
      <3> QED BY <2>1, <3>1, <3>2, <3>3 DEF DatasetTypeOK
    <2>3. TableOK(table)
      BY <2>1, UnassignedIsOK
    <2>4. CommandOK /\ FilesOK /\ ExportsFollow
      BY <2>1 DEF CommandOK, FilesOK, ExportsFollow, DatasetInit, NoFiles
    <2> QED BY <2>2, <2>3, <2>4 DEF DatasetIInv
  <1>2. DatasetIInv /\ [DatasetNext]_datasetVars => DatasetIInv'
    <2> SUFFICES ASSUME DatasetIInv, [DatasetNext]_datasetVars
                 PROVE  DatasetIInv'
      OBVIOUS
    <2>1. CASE UNCHANGED datasetVars
      <3>1. DatasetTypeOK'
        BY <2>1 DEF datasetVars, diskVars, manifestVars, exportVars,
                    DatasetIInv, DatasetTypeOK
      <3>2. TableOK(table)' /\ ExportsFollow'
        BY <2>1 DEF datasetVars, diskVars, manifestVars, exportVars,
                    DatasetIInv, TableOK, LeakFree, RestUnassigned, AreLinked,
                    GroupOf, ExportsFollow, IsActive
      <3>3. FilesOK'
        BY <2>1 DEF datasetVars, diskVars, manifestVars, exportVars,
                    DatasetIInv, FilesOK, IsActive
      <3>4. CommandOK'
        BY <2>1 DEF datasetVars, diskVars, manifestVars, exportVars,
                    DatasetIInv, CommandOK, MergingOK, WritingOK, TableOK,
                    LeakFree, RestUnassigned, AreLinked, GroupOf, IsActive,
                    AgreesOn, ReadIsMerged, OwnersAreGroups, LinkedIsMerged,
                    KeepsRows, HashOf
      <3> QED BY <3>1, <3>2, <3>3, <3>4 DEF DatasetIInv
    <2>2. CASE \E seed \in Seeds, ratio \in Ratios :
                 \/ \E policy \in Policies : PreparesAll(policy, seed, ratio)
                 \/ SplitsAnew(seed, ratio)
      BY <2>2, DatasetBegins
    <2>3. CASE \/ \E ratio \in Ratios : SplitsMore(ratio)
               \/ ValidatesAll \/ DedupesAll
               \/ \E policy \in Policies : NormalizesAll(policy)
      BY <2>3, DatasetBegins
    <2>4. CASE AssignsSplits
      BY <2>4, DatasetAssigns
    <2>5. CASE \/ WritesTable
               \/ \E holdout, duplicates \in BOOLEAN :
                    SelectsPrepared(holdout, duplicates)
                    \/ ExportsAll(holdout, duplicates)
      BY <2>5, DatasetWrites
    <2>6. CASE \/ \E p \in Splits : WritesFile(p) \/ ClearsFile(p)
               \/ CommandEnds
      BY <2>6, DatasetFiles
    <2>7. CASE CommandDies
      <3>1. command' \in CommandStates /\ command'.at = "none"
        BY <2>7, NoTableIsTyped, NoCommandIsTyped DEF CommandDies
      <3>2. CommandOK'
        BY <3>1 DEF CommandOK
      <3> QED BY <2>7, <3>1, <3>2, DatasetOthers DEF CommandDies
    <2>8. ASSUME NEW s \in SampleIds, MergesSample(s) \/ LinksDuplicate(s)
          PROVE  DatasetIInv'
      BY <2>8, DatasetMerges, DatasetLinks
    <2>9. ASSUME NEW s \in SampleIds, SampleArrives(s) \/ SampleSpoils(s)
          PROVE  DatasetIInv'
      <3> USE DEF manifestVars, exportVars
      <3>1. /\ command.at = "none"
            /\ present' \in SUBSET SampleIds /\ spoiled' \in SUBSET SampleIds
            /\ UNCHANGED <<corpus, prepared, table, seedOf, exported, stale,
                           command, commands>>
        BY <2>9 DEF SampleArrives, SampleSpoils, DatasetIInv, DatasetTypeOK
      <3>2. DatasetTypeOK'
        BY <3>1 DEF DatasetIInv, DatasetTypeOK
      <3>3. TableOK(table)' /\ ExportsFollow'
        BY <3>1 DEF DatasetIInv, TableOK, LeakFree, RestUnassigned, AreLinked,
                    GroupOf, ExportsFollow, IsActive
      <3>4. CommandOK' /\ FilesOK'
        BY <3>1 DEF CommandOK, FilesOK
      <3> QED BY <3>2, <3>3, <3>4 DEF DatasetIInv
    <2> QED BY <2>1, <2>2, <2>3, <2>4, <2>5, <2>6, <2>7, <2>8, <2>9
            DEF DatasetNext
  <1> QED BY <1>1, <1>2, PTL DEF DatasetSpec

\* The state of a workspace has its type.
THEOREM DatasetTyped == DatasetSpec => []DatasetTypeOK
  <1>1. DatasetIInv => DatasetTypeOK
    BY DEF DatasetIInv
  <1> QED BY <1>1, DatasetInvariant, PTL

\* No document, text or duplicate is in two splits, the files follow the
\* manifest, and splitting again moves nothing (assign_splits,
\* _invalidate_exports).
THEOREM SplitsOfDataset == DatasetSpec => SplitsHold
  <1>1. DatasetIInv => NothingLeaks /\ ExportsFollow
    BY DEF DatasetIInv, TableOK, LeakFree, NothingLeaks
  <1>2. DatasetIInv /\ [DatasetNext]_datasetVars
          => [SplitsAreSticky]_datasetVars
    <2> SUFFICES ASSUME DatasetIInv, DatasetNext, table' # table,
                        ~ command.anew, NEW s \in SampleIds
                 PROVE  table[s].split \in {"unassigned", table'[s].split}
      BY DEF SplitsAreSticky
    <2>1. WritesTable
      BY DEF DatasetNext, diskVars, manifestVars, exportVars, BeginsAs,
             PreparesAll, SplitsAnew, SplitsMore, ValidatesAll, DedupesAll,
             NormalizesAll, AssignsSplits, SelectsPrepared, ExportsAll,
             SelectsRows, WritesFile, ClearsFile, CommandEnds, CommandDies,
             MergesSample, LinksDuplicate, SampleArrives, SampleSpoils
    <2> QED BY <2>1 DEF WritesTable, DatasetIInv, CommandOK, WritingOK, KeepsRows
  <1> QED BY <1>1, <1>2, DatasetInvariant, PTL DEF DatasetSpec, SplitsHold

-----------------------------------------------------------------------------
(* FactoryRun: the inductive invariant *)

\* Rows that say an item was made name a file that was
RowsMade(list) ==
    \A r \in list :
        r.ok => r.item \in Items /\ output[<<r.doc, r.item>>] # "absent"

ListsOK == RowsMade(listing.rows) /\ RowsMade(listingCsv.rows)

\* Before the folder of the run there is nothing and nobody.
FolderOK ==
    runDir = "none" =>
        listing = NoRows /\ \A m \in Makers : maker[m].at = "off"

MakerOK(m) ==
    /\ RowsMade(maker[m].read.rows) /\ RowsMade(maker[m].made)
    /\ \A s \in Sources :
         maker[m].left[s] # {} => maker[m].doc[s] # NoDocument

HasMade(m, d, i) ==
    \E q \in maker[m].made : q.ok /\ q.doc = d /\ q.item = i

\* A process that is alone has read what the manifest says.  What it has still
\* to do, or has failed at, is not delivered unless it has made it itself.
MakerAlone(m) ==
    maker[m].alone /\ maker[m].at # "off" =>
        /\ \A n \in Makers \ {m} : maker[n].at = "off"
        /\ maker[m].at # "closing" => maker[m].read = listing
        /\ maker[m].at = "making" =>
             /\ ~ maker[m].resume => listing.rows = {}
             /\ \A r \in maker[m].made :
                  r.item \in Items /\ ~ r.ok /\ IsValid(r.doc, r.item)
                    => HasMade(m, r.doc, r.item)
             /\ \A s \in Sources : \A i \in maker[m].left[s] :
                  IsValid(maker[m].doc[s], i)
                    => HasMade(m, maker[m].doc[s], i)

\* What it has not left to do is there, and listed or made by it.
SourceOK(m, s) ==
    LET d == maker[m].doc[s]
    IN d # NoDocument =>
         /\ d = contentOf[s]
         /\ \A i \in Items \ maker[m].left[s] :
              /\ output[<<d, i>>] = "whole"
              /\ IsListed(d, i) \/ HasMade(m, d, i)

\* A process that is alone and meets no failure
MakerFresh(m) ==
    maker[m].alone /\ ~ maker[m].disturbed /\ maker[m].at # "off" =>
        /\ \A r \in listing.rows : r.doc = contentOf[r.source]
        /\ maker[m].at = "making" =>
             /\ \A r \in maker[m].made : r.ok /\ r.doc = contentOf[r.source]
             /\ \A s \in Sources : SourceOK(m, s)
        /\ maker[m].at # "making" =>
             \A s \in Sources, i \in Items : <<contentOf[s], i>> \in Delivered
        /\ maker[m].at = "closing" => listingCsv = listing

FactoryIInv ==
    /\ FactoryTypeOK /\ ListsOK /\ FolderOK
    /\ \A m \in Makers : MakerOK(m) /\ MakerAlone(m) /\ MakerFresh(m)

LEMMA MakerIsTyped ==
  ASSUME NEW stage \in MakerPlaces, NEW resume \in BOOLEAN,
         NEW read \in Listings, NEW single \in BOOLEAN
  PROVE  MakerAt(stage, resume, read, single) \in MakerStates
  BY DEF MakerAt, MakerStates

LEMMA NotAtWorkIsTyped ==
  /\ NotAtWork \in MakerStates /\ NotAtWork.at = "off"
  /\ NotAtWork.read = NoRows /\ NotAtWork.made = {}
  /\ NotAtWork.left = [s \in Sources |-> {}]
  <1>1. NoRows \in Listings
    BY DEF NoRows, Listings
  <1>2. NotAtWork \in MakerStates
    BY <1>1, MakerIsTyped DEF NotAtWork, MakerPlaces
  <1> QED BY <1>2 DEF NotAtWork, MakerAt

\* A process that does not work has nothing to keep.
LEMMA IdleIsFine ==
  ASSUME NEW m \in Makers, maker[m] = NotAtWork
  PROVE  MakerOK(m) /\ MakerAlone(m) /\ MakerFresh(m)
  BY NotAtWorkIsTyped DEF MakerOK, MakerAlone, MakerFresh, RowsMade, NoRows

\* The other processes when one that works takes a step.
LEMMA OthersFine ==
  ASSUME FactoryIInv, NEW m \in Makers, maker[m].at # "off",
         NEW k \in Makers \ {m}, maker'[k] = maker[k],
         \A d \in Documents, i \in Items : output[<<d, i>>] # "absent"
            => output'[<<d, i>>] # "absent"
  PROVE  MakerOK(k)' /\ MakerAlone(k)' /\ MakerFresh(k)'
  <1>1. maker[k] \in MakerStates
    BY DEF FactoryIInv, FactoryTypeOK
  <1>2. ~ (maker[k].alone /\ maker[k].at # "off")
    BY DEF FactoryIInv, MakerAlone
  <1>3. RowsMade(maker[k].read.rows)' /\ RowsMade(maker[k].made)'
    <2>1. /\ \A r \in maker[k].read.rows : r.doc \in Documents
          /\ \A r \in maker[k].made : r.doc \in Documents
      BY <1>1 DEF MakerStates, Listings, ItemRows
    <2>2. RowsMade(maker[k].read.rows) /\ RowsMade(maker[k].made)
      BY DEF FactoryIInv, MakerOK
    <2> QED BY <2>1, <2>2 DEF RowsMade
  <1> QED BY <1>2, <1>3 DEF FactoryIInv, MakerOK, MakerAlone, MakerFresh

-----------------------------------------------------------------------------
(* FactoryRun: a process begins *)

LEMMA FactoryBegins ==
  ASSUME FactoryIInv, NEW m \in Makers, Launches(m) \/ Resumes(m)
  PROVE  FactoryIInv'
  <1> DEFINE new == MakerAt("making", runDir # "none",
                            IF runDir = "none" THEN NoRows ELSE listing,
                            AtWork = {})
  <1> USE DEF filesVars, listsVars
  <1>1. /\ maker' = Joins(m, new) /\ runDir' # "none"
        /\ runDir' \in {"none", "bare", "listed"}
        /\ launched' = launched + 1 /\ launched < MaxLaunches
        /\ UNCHANGED <<contentOf, output, listing, listingCsv, mishaps>>
        /\ runDir # "none" => SourcesAreThose
    BY DEF Launches, Resumes
  <1>2. FactoryTypeOK /\ listing \in Listings /\ NoRows \in Listings
    BY DEF FactoryIInv, FactoryTypeOK, NoRows, Listings
  <1>3. new.read = listing
    BY DEF FactoryIInv, FolderOK, MakerAt
  <1>4. /\ new \in MakerStates /\ new.at = "making" /\ new.made = {}
        /\ (new.resume <=> runDir # "none") /\ (new.alone <=> AtWork = {})
        /\ new.left = [s \in Sources |-> {}]
        /\ new.doc = [s \in Sources |-> NoDocument]
    BY <1>2, MakerIsTyped DEF MakerAt, MakerPlaces
  <1> HIDE DEF new
  <1>5. /\ maker'[m] = new
        /\ \A k \in Makers \ {m} :
             maker'[k] = [maker[k] EXCEPT !.alone = FALSE]
    BY <1>1 DEF Joins
  <1>6. maker' \in [Makers -> MakerStates]
    <2>1. \A k \in Makers : [maker[k] EXCEPT !.alone = FALSE] \in MakerStates
      BY <1>2 DEF FactoryTypeOK, MakerStates
    <2> QED BY <1>1, <1>4, <2>1 DEF Joins
  <1>7. FactoryTypeOK'
    BY <1>1, <1>2, <1>6, FactoryAssumption DEF FactoryTypeOK
  <1>8. ListsOK' /\ FolderOK'
    BY <1>1 DEF FactoryIInv, ListsOK, RowsMade, FolderOK
  <1>9. MakerOK(m)'
    BY <1>1, <1>3, <1>4, <1>5 DEF FactoryIInv, ListsOK, MakerOK, RowsMade
  <1>10. MakerAlone(m)'
    <2> SUFFICES ASSUME AtWork = {} PROVE MakerAlone(m)'
      BY <1>4, <1>5 DEF MakerAlone
    <2>1. \A k \in Makers \ {m} : maker'[k].at = "off"
      <3>1. \A k \in Makers : maker[k].at = "off"
        BY DEF AtWork
      <3>2. \A k \in Makers : maker[k] \in MakerStates
        BY <1>2 DEF FactoryTypeOK
      <3> QED BY <1>5, <3>1, <3>2 DEF MakerStates
    <2>2. ~ new.resume => listing.rows = {}
      BY <1>4 DEF FactoryIInv, FolderOK, NoRows
    <2> QED BY <1>1, <1>3, <1>4, <1>5, <2>1, <2>2 DEF MakerAlone
  <1>11. MakerFresh(m)'
    <2>1. \A r \in listing.rows : r.doc = contentOf[r.source]
      <3>1. CASE runDir = "none"
        BY <3>1 DEF FactoryIInv, FolderOK, NoRows
      <3>2. CASE runDir # "none"
        <4>1. \A r \in listing.rows : r.source \in Sources
          BY <1>2 DEF Listings, ItemRows
        <4> QED BY <3>2, <4>1, <1>1 DEF SourcesAreThose, PriorDocuments
      <3> QED BY <3>1, <3>2
    <2> QED BY <1>1, <1>4, <1>5, <2>1 DEF MakerFresh, SourceOK
  <1>12. ASSUME NEW k \in Makers \ {m}
         PROVE  MakerOK(k)' /\ MakerAlone(k)' /\ MakerFresh(k)'
    <2>1. maker[k] \in MakerStates
      BY <1>2 DEF FactoryTypeOK
    <2>2. maker'[k] = [maker[k] EXCEPT !.alone = FALSE]
      BY <1>5
    <2>3. /\ maker'[k].read = maker[k].read
          /\ maker'[k].made = maker[k].made /\ maker'[k].left = maker[k].left
          /\ maker'[k].doc = maker[k].doc
      BY <2>1, <2>2 DEF MakerStates
    <2>4. ~ maker'[k].alone
      BY <2>1, <2>2 DEF MakerStates
    <2> QED BY <1>1, <2>3, <2>4
            DEF FactoryIInv, MakerOK, MakerAlone, MakerFresh, RowsMade
  <1> QED BY <1>7, <1>8, <1>9, <1>10, <1>11, <1>12 DEF FactoryIInv

-----------------------------------------------------------------------------
(* FactoryRun: a process works *)

\* What is left to show of a step of one process
LEMMA FactoryStep ==
  ASSUME FactoryIInv, NEW m \in Makers, maker[m].at # "off",
         NEW new \in MakerStates, maker' = [maker EXCEPT ![m] = new],
         runDir' \in {runDir, "listed"},
         listing' \in Listings, listingCsv' \in Listings,
         output' \in [Documents \X Items -> {"absent", "whole", "lost"}],
         \A d \in Documents, i \in Items : output[<<d, i>>] # "absent"
            => output'[<<d, i>>] # "absent",
         mishaps' \in 0..MaxMishaps, UNCHANGED <<contentOf, launched>>,
         ListsOK', MakerOK(m)', MakerAlone(m)', MakerFresh(m)'
  PROVE  FactoryIInv'
  <1>1. FactoryTypeOK'
    BY DEF FactoryIInv, FactoryTypeOK
  <1>2. runDir # "none"
    BY DEF FactoryIInv, FolderOK
  <1>3. FolderOK'
    BY <1>2 DEF FolderOK
  <1>4. ASSUME NEW k \in Makers \ {m}
        PROVE  MakerOK(k)' /\ MakerAlone(k)' /\ MakerFresh(k)'
    <2>1. maker'[k] = maker[k]
      BY DEF FactoryIInv, FactoryTypeOK
    <2> QED BY <2>1, OthersFine
  <1> QED BY <1>1, <1>3, <1>4 DEF FactoryIInv

LEMMA FactoryOpens ==
  ASSUME FactoryIInv, NEW m \in Makers, NEW s \in Sources, OpensSource(m, s)
  PROVE  FactoryIInv'
  <1> DEFINE w == maker[m]
             d == contentOf[s]
             rest == Items \ CompleteItems(m, d)
             new == [w EXCEPT !.doc[s] = d, !.left[s] = rest]
  <1> USE DEF filesVars, listsVars, countVars
  <1>1. /\ w.at = "making" /\ maker' = [maker EXCEPT ![m] = new]
        /\ UNCHANGED <<contentOf, output, runDir, listing, listingCsv,
                       launched, mishaps>>
    BY DEF OpensSource, IsWaiting
  <1>2. FactoryTypeOK /\ w \in MakerStates /\ d \in Documents
    BY DEF FactoryIInv, FactoryTypeOK
  <1>3. d # NoDocument
    BY <1>2, FactoryAssumption
  <1> HIDE DEF w, d, rest
  <1>4. /\ new \in MakerStates /\ new.at = w.at /\ new.alone = w.alone
        /\ new.read = w.read /\ new.made = w.made /\ new.resume = w.resume
        /\ new.disturbed = w.disturbed
        /\ new.doc = [w.doc EXCEPT ![s] = d]
        /\ new.left = [w.left EXCEPT ![s] = rest]
    BY <1>2 DEF MakerStates, rest
  <1>5. /\ w.doc \in [Sources -> Documents \cup {NoDocument}]
        /\ w.left \in [Sources -> SUBSET Items]
    BY <1>2 DEF MakerStates
  <1> HIDE DEF new
  <1>6. maker'[m] = new
    BY <1>1, <1>2 DEF FactoryTypeOK
  <1>7. ListsOK'
    BY <1>1 DEF FactoryIInv, ListsOK, RowsMade
  <1>8. MakerOK(m)'
    BY <1>1, <1>3, <1>4, <1>5, <1>6
    DEF FactoryIInv, MakerOK, RowsMade, w
  <1>9. \A e \in Documents \cup {NoDocument}, i \in Items :
          /\ HasMade(m, e, i)' <=> HasMade(m, e, i)
          /\ IsValid(e, i)' <=> IsValid(e, i)
          /\ IsListed(e, i)' <=> IsListed(e, i)
    BY <1>1, <1>4, <1>6 DEF HasMade, IsValid, IsListed, w
  <1>10. MakerAlone(m)'
    <2> SUFFICES ASSUME w.alone PROVE MakerAlone(m)'
      BY <1>4, <1>6 DEF MakerAlone
    <2>1. /\ MakerAlone(m)
          /\ \A n \in Makers \ {m} : maker[n].at = "off"
          /\ w.read = listing
          /\ ~ w.resume => listing.rows = {}
          /\ \A r \in w.made : r.item \in Items /\ ~ r.ok
               /\ IsValid(r.doc, r.item) => HasMade(m, r.doc, r.item)
          /\ \A q \in Sources : \A i \in w.left[q] :
               IsValid(w.doc[q], i) => HasMade(m, w.doc[q], i)
      BY <1>1 DEF FactoryIInv, MakerAlone, w
    <2>2. \A i \in rest : ~ IsValid(d, i)
      BY <2>1 DEF rest, CompleteItems, IsValid, IsListed, w
    <2>3. \A n \in Makers \ {m} : maker'[n].at = "off"
      BY <1>1, <1>2, <2>1 DEF FactoryTypeOK
    <2>4. \A q \in Sources : \A i \in new.left[q] :
            IsValid(new.doc[q], i) => HasMade(m, new.doc[q], i)
      <3> SUFFICES ASSUME NEW q \in Sources, NEW i \in new.left[q],
                          IsValid(new.doc[q], i)
                   PROVE  HasMade(m, new.doc[q], i)
        OBVIOUS
      <3>1. CASE q = s
        BY <3>1, <1>4, <1>5, <2>2
      <3>2. CASE q # s
        BY <3>2, <1>4, <1>5, <2>1
      <3> QED BY <3>1, <3>2
    <2>5. \A q \in Sources : \A i \in new.left[q] :
            i \in Items /\ new.doc[q] \in Documents \cup {NoDocument}
      BY <1>4 DEF MakerStates
    <2>6. \A r \in w.made : r.doc \in Documents
      BY <1>2 DEF MakerStates, ItemRows
    <2>7. /\ maker'[m].read = listing'
          /\ ~ maker'[m].resume => listing'.rows = {}
      BY <1>1, <1>4, <1>6, <2>1
    <2>8. (\A r \in maker[m].made : r.item \in Items /\ ~ r.ok
             /\ IsValid(r.doc, r.item) => HasMade(m, r.doc, r.item))'
      BY <1>4, <1>6, <1>9, <2>1, <2>6
    <2>9. (\A q \in Sources : \A i \in maker[m].left[q] :
             IsValid(maker[m].doc[q], i) => HasMade(m, maker[m].doc[q], i))'
      BY <1>6, <1>9, <2>4, <2>5
    <2> QED BY <2>3, <2>7, <2>8, <2>9 DEF MakerAlone
  <1>11. MakerFresh(m)'
    <2> SUFFICES ASSUME w.alone, ~ w.disturbed PROVE MakerFresh(m)'
      BY <1>4, <1>6 DEF MakerFresh
    <2>1. /\ \A r \in listing.rows : r.doc = contentOf[r.source]
          /\ \A r \in w.made : r.ok /\ r.doc = contentOf[r.source]
          /\ \A q \in Sources : SourceOK(m, q)
      BY <1>1 DEF FactoryIInv, MakerFresh, w
    <2>3. \A q \in Sources : new.doc[q] \in Documents \cup {NoDocument}
      BY <1>4 DEF MakerStates
    <2>2. \A q \in Sources : SourceOK(m, q)'
      <3> SUFFICES ASSUME NEW q \in Sources, new.doc[q] # NoDocument
                   PROVE  /\ new.doc[q] = contentOf[q]
                          /\ \A i \in Items \ new.left[q] :
                               /\ output[<<new.doc[q], i>>] = "whole"
                               /\ \/ IsListed(new.doc[q], i)
                                  \/ HasMade(m, new.doc[q], i)
        BY <1>1, <1>6, <1>9, <2>3 DEF SourceOK
      <3>1. CASE q = s
        <4>1. \A i \in Items \ rest : IsValid(d, i)
          BY DEF rest, CompleteItems
        <4>2. new.doc[q] = d /\ new.left[q] = rest
          BY <3>1, <1>4, <1>5
        <4> QED BY <3>1, <4>1, <4>2 DEF IsValid, d
      <3>2. CASE q # s
        <4>1. new.doc[q] = w.doc[q] /\ new.left[q] = w.left[q]
          BY <3>2, <1>4, <1>5
        <4> QED BY <4>1, <2>1 DEF SourceOK, w
      <3> QED BY <3>1, <3>2
    <2> QED BY <1>1, <1>4, <1>6, <2>1, <2>2 DEF MakerFresh
  <1>12. FactoryTypeOK'
    BY <1>1, <1>2, <1>4 DEF FactoryTypeOK
  <1> QED BY <1>1, <1>4, <1>7, <1>8, <1>10, <1>11, <1>12, FactoryStep
          DEF FactoryTypeOK, w

\* A source or an item fails: a row more that is not ok.
LEMMA FactoryFails ==
  ASSUME FactoryIInv, NEW m \in Makers, NEW s \in Sources,
         CannotRender(m, s) \/ ItemFails(m, s)
  PROVE  FactoryIInv'
  <1> DEFINE w == maker[m]
             d == IF w.doc[s] = NoDocument THEN contentOf[s] ELSE w.doc[s]
  <1> USE DEF filesVars, listsVars, countVars
  <1>1. FactoryTypeOK /\ w \in MakerStates /\ contentOf[s] \in Documents
    BY DEF FactoryIInv, FactoryTypeOK
  <1>2. /\ w.doc \in [Sources -> Documents \cup {NoDocument}]
        /\ w.left \in [Sources -> SUBSET Items] /\ w.made \subseteq ItemRows
        /\ d \in Documents /\ d # NoDocument
    BY <1>1, FactoryAssumption DEF MakerStates
  <1>3. \A q \in Sources : w.left[q] # {} => w.doc[q] # NoDocument
    BY DEF FactoryIInv, MakerOK
  <1>4. PICK entry \in ItemRows, left \in [Sources -> SUBSET Items] :
          /\ ~ entry.ok /\ entry.doc = d
          /\ \A q \in Sources : left[q] \subseteq w.left[q]
          /\ entry.item \in Items => w.doc[s] = d /\ entry.item \in w.left[s]
          /\ maker' = [maker EXCEPT ![m] =
               [w EXCEPT !.doc[s] = d, !.left = left, !.disturbed = TRUE,
                         !.made = @ \cup {entry}]]
    <2>1. CASE CannotRender(m, s)
      <3>1. w.doc[s] = NoDocument
        BY <2>1 DEF CannotRender, IsWaiting
      <3> DEFINE entry == RowOf(d, s, WholeDocument, FALSE)
      <3>2. entry \in ItemRows /\ ~ entry.ok /\ entry.doc = d /\ entry.item \notin Items
        BY <1>2 DEF RowOf, ItemRows, WholeDocument, Items
      <3>3. maker' = [maker EXCEPT ![m] =
               [w EXCEPT !.doc[s] = d, !.left = w.left, !.disturbed = TRUE,
                         !.made = @ \cup {entry}]]
        <4>1. maker' = [maker EXCEPT ![m] =
                 [w EXCEPT !.doc[s] = d, !.disturbed = TRUE,
                           !.made = @ \cup {entry}]]
          BY <2>1, <3>1 DEF CannotRender
        <4> HIDE DEF d, entry, w
        <4>2. [w EXCEPT !.doc[s] = d, !.disturbed = TRUE,
                        !.made = @ \cup {entry}]
               = [w EXCEPT !.doc[s] = d, !.left = w.left, !.disturbed = TRUE,
                           !.made = @ \cup {entry}]
          BY <1>1 DEF MakerStates
        <4> QED BY <4>1, <4>2
      <3> HIDE DEF entry, d, w
      <3> QED BY <1>2, <3>2, <3>3
    <2>2. CASE ItemFails(m, s)
      <3>1. PICK i \in Items :
              /\ i \in w.left[s]
              /\ maker' = [maker EXCEPT
                   ![m].left[s] = @ \ {i}, ![m].disturbed = TRUE,
                   ![m].made = @ \cup {RowOf(w.doc[s], s, i, FALSE)}]
        BY <2>2 DEF ItemFails, NextItem
      <3>2. w.doc[s] = d
        BY <1>3, <3>1
      <3> DEFINE entry == RowOf(d, s, i, FALSE)
                 left == [w.left EXCEPT ![s] = @ \ {i}]
      <3>3. entry \in ItemRows /\ ~ entry.ok /\ entry.doc = d /\ entry.item = i
        BY <1>2 DEF RowOf, ItemRows
      <3>4. /\ left \in [Sources -> SUBSET Items]
            /\ \A q \in Sources : left[q] \subseteq w.left[q]
        BY <1>2
      <3>5. maker' = [maker EXCEPT ![m] =
               [w EXCEPT !.doc[s] = d, !.left = left, !.disturbed = TRUE,
                         !.made = @ \cup {entry}]]
        <4>1. maker' = [maker EXCEPT ![m].left = left, ![m].disturbed = TRUE,
                                     ![m].made = @ \cup {entry}]
          BY <3>1, <3>2
        <4> HIDE DEF entry, left
        <4>2. [w.doc EXCEPT ![s] = d] = w.doc
          BY <1>2, <3>2
        <4>3. [w EXCEPT !.doc[s] = d] = w
          BY <1>1, <4>2 DEF MakerStates
        <4> QED BY <1>1, <4>1, <4>3 DEF FactoryTypeOK, MakerStates
      <3> HIDE DEF entry, left, d, w
      <3> QED BY <3>1, <3>2, <3>3, <3>4, <3>5
    <2> QED BY <2>1, <2>2
  <1> DEFINE new == [w EXCEPT !.doc[s] = d, !.left = left, !.disturbed = TRUE,
                              !.made = @ \cup {entry}]
  <1> HIDE DEF w, d
  <1>5. /\ new \in MakerStates /\ new.at = w.at /\ (new.alone <=> w.alone)
        /\ new.read = w.read /\ new.made = w.made \cup {entry}
        /\ (new.resume <=> w.resume) /\ new.disturbed
        /\ new.doc = [w.doc EXCEPT ![s] = d] /\ new.left = left
    BY <1>1, <1>2, <1>4 DEF MakerStates
  <1>6. maker' = [maker EXCEPT ![m] = new] /\ w.at = "making"
    BY <1>4 DEF CannotRender, ItemFails, IsWaiting, NextItem, w
  <1> HIDE DEF new
  <1>7. /\ maker'[m] = new
        /\ mishaps' \in 0..MaxMishaps
        /\ UNCHANGED <<contentOf, output, runDir, listing, listingCsv,
                       launched>>
    <2>1. /\ mishaps < MaxMishaps /\ mishaps' = mishaps + 1
          /\ UNCHANGED <<contentOf, output, runDir, listing, listingCsv,
                         launched>>
      BY DEF CannotRender, ItemFails
    <2>2. mishaps' \in 0..MaxMishaps
      BY <1>1, <2>1, FactoryAssumption DEF FactoryTypeOK
    <2>3. maker'[m] = new
      BY <1>1, <1>6 DEF FactoryTypeOK
    <2> QED BY <2>1, <2>2, <2>3
  <1>8. ListsOK' /\ FactoryTypeOK'
    BY <1>1, <1>5, <1>6, <1>7
    DEF FactoryIInv, FactoryTypeOK, ListsOK, RowsMade
  <1>9. MakerOK(m)'
    <2>1. RowsMade(maker[m].read.rows)' /\ RowsMade(maker[m].made)'
      BY <1>4, <1>5, <1>7 DEF FactoryIInv, MakerOK, RowsMade, w
    <2>2. \A q \in Sources : new.left[q] # {} => new.doc[q] # NoDocument
      BY <1>2, <1>3, <1>4, <1>5
    <2> QED BY <1>7, <2>1, <2>2 DEF MakerOK
  <1>10. MakerAlone(m)'
    <2> SUFFICES ASSUME w.alone PROVE MakerAlone(m)'
      BY <1>5, <1>7 DEF MakerAlone
    <2>1. /\ \A n \in Makers \ {m} : maker[n].at = "off"
          /\ w.read = listing
          /\ ~ w.resume => listing.rows = {}
          /\ \A r \in w.made : r.item \in Items /\ ~ r.ok
               /\ IsValid(r.doc, r.item) => HasMade(m, r.doc, r.item)
          /\ \A q \in Sources : \A i \in w.left[q] :
               IsValid(w.doc[q], i) => HasMade(m, w.doc[q], i)
      BY <1>6 DEF FactoryIInv, MakerAlone, w
    <2>2. \A n \in Makers \ {m} : maker'[n].at = "off"
      BY <1>1, <1>6, <2>1 DEF FactoryTypeOK
    <2>3. \A e \in Documents \cup {NoDocument}, i \in Items :
            /\ HasMade(m, e, i) => HasMade(m, e, i)'
            /\ IsValid(e, i)' <=> IsValid(e, i)
      BY <1>5, <1>7 DEF HasMade, IsValid, IsListed, w
    <2>4. \A r \in new.made : r.item \in Items /\ ~ r.ok
             /\ IsValid(r.doc, r.item) => HasMade(m, r.doc, r.item)
      BY <1>4, <1>5, <2>1
    <2>5. \A r \in new.made : r.doc \in Documents
      BY <1>2, <1>4, <1>5 DEF ItemRows
    <2>6. \A q \in Sources : \A i \in new.left[q] :
             /\ i \in Items /\ new.doc[q] \in Documents \cup {NoDocument}
             /\ IsValid(new.doc[q], i) => HasMade(m, new.doc[q], i)
      <3> SUFFICES ASSUME NEW q \in Sources, NEW i \in new.left[q]
                   PROVE  /\ i \in Items
                          /\ new.doc[q] \in Documents \cup {NoDocument}
                          /\ IsValid(new.doc[q], i) => HasMade(m, new.doc[q], i)
        OBVIOUS
      <3>1. i \in w.left[q] /\ i \in Items
        BY <1>2, <1>4, <1>5
      <3>2. new.doc[q] = w.doc[q]
        BY <1>2, <1>3, <1>5, <3>1 DEF d
      <3> QED BY <1>2, <2>1, <3>1, <3>2
    <2>7. (\A r \in maker[m].made : r.item \in Items /\ ~ r.ok
             /\ IsValid(r.doc, r.item) => HasMade(m, r.doc, r.item))'
      BY <1>7, <2>3, <2>4, <2>5
    <2>8. (\A q \in Sources : \A i \in maker[m].left[q] :
             IsValid(maker[m].doc[q], i) => HasMade(m, maker[m].doc[q], i))'
      BY <1>7, <2>3, <2>6
    <2>9. /\ maker'[m].read = listing'
          /\ ~ maker'[m].resume => listing'.rows = {}
      BY <1>5, <1>7, <2>1
    <2> QED BY <2>2, <2>7, <2>8, <2>9 DEF MakerAlone
  <1>11. MakerFresh(m)'
    BY <1>5, <1>7 DEF MakerFresh
  <1> QED BY <1>1, <1>5, <1>6, <1>7, <1>8, <1>9, <1>10, <1>11, FactoryStep
          DEF FactoryTypeOK, w

LEMMA FactoryMakes ==
  ASSUME FactoryIInv, NEW m \in Makers, NEW s \in Sources, MakesItem(m, s)
  PROVE  FactoryIInv'
  <1> DEFINE w == maker[m]
  <1> USE DEF filesVars, listsVars, countVars
  <1>1. FactoryTypeOK /\ w \in MakerStates
    BY DEF FactoryIInv, FactoryTypeOK
  <1>2. PICK i \in Items :
          /\ w.at = "making" /\ i \in w.left[s]
          /\ output' = [output EXCEPT ![<<w.doc[s], i>>] = "whole"]
          /\ maker' = [maker EXCEPT ![m].left[s] = @ \ {i},
                         ![m].made = @ \cup {RowOf(w.doc[s], s, i, TRUE)}]
          /\ UNCHANGED <<contentOf, runDir, listing, listingCsv, launched,
                         mishaps>>
    BY DEF MakesItem, NextItem
  <1>3. /\ w.doc \in [Sources -> Documents \cup {NoDocument}]
        /\ w.left \in [Sources -> SUBSET Items] /\ w.made \subseteq ItemRows
        /\ w.doc[s] \in Documents
    BY <1>1, <1>2 DEF MakerStates, FactoryIInv, MakerOK
  <1>15. PICK d \in Documents : d = w.doc[s]
    BY <1>3
  <1> DEFINE entry == RowOf(d, s, i, TRUE)
             new == [w EXCEPT !.left[s] = @ \ {i}, !.made = @ \cup {entry}]
  <1>4. /\ entry \in ItemRows /\ entry.ok /\ entry.doc = d /\ entry.item = i
        /\ entry.source = s
    BY <1>3 DEF RowOf, ItemRows
  <1>5. maker' = [maker EXCEPT ![m] = new]
    BY <1>2, <1>15
  <1> HIDE DEF w, entry
  <1>6. /\ new \in MakerStates /\ new.at = w.at /\ (new.alone <=> w.alone)
        /\ new.read = w.read /\ new.made = w.made \cup {entry}
        /\ (new.resume <=> w.resume) /\ (new.disturbed <=> w.disturbed)
        /\ new.doc = w.doc /\ new.left = [w.left EXCEPT ![s] = @ \ {i}]
    BY <1>1, <1>3, <1>4 DEF MakerStates
  <1> HIDE DEF new
  <1>7. maker'[m] = new
    BY <1>1, <1>5 DEF FactoryTypeOK
  <1>8. /\ output' \in [Documents \X Items -> {"absent", "whole", "lost"}]
        /\ output'[<<d, i>>] = "whole"
        /\ \A e \in Documents, j \in Items :
             /\ output[<<e, j>>] # "absent" => output'[<<e, j>>] # "absent"
             /\ output[<<e, j>>] = "whole" => output'[<<e, j>>] = "whole"
             /\ ~ (e = d /\ j = i) => output'[<<e, j>>] = output[<<e, j>>]
    BY <1>1, <1>2, <1>15 DEF FactoryTypeOK
  <1>9. ListsOK'
    <2>1. /\ \A r \in listing.rows : r.doc \in Documents
          /\ \A r \in listingCsv.rows : r.doc \in Documents
      BY <1>1 DEF FactoryTypeOK, Listings, ItemRows
    <2> QED BY <1>2, <1>8, <2>1 DEF FactoryIInv, ListsOK, RowsMade
  <1>10. MakerOK(m)'
    <2>1. \A r \in w.read.rows : r.doc \in Documents
      BY <1>1 DEF MakerStates, Listings, ItemRows
    <2>2. RowsMade(w.read.rows) /\ RowsMade(w.made)
      BY DEF FactoryIInv, MakerOK, w
    <2>3. RowsMade(maker[m].read.rows)'
      BY <1>6, <1>7, <1>8, <2>1, <2>2 DEF RowsMade
    <2>4. RowsMade(maker[m].made)'
      <3>1. \A r \in w.made : r.doc \in Documents
        BY <1>3 DEF ItemRows
      <3> QED BY <1>4, <1>6, <1>7, <1>8, <2>2, <3>1 DEF RowsMade
    <2>5. \A q \in Sources : new.left[q] # {} => new.doc[q] # NoDocument
      BY <1>3, <1>6 DEF FactoryIInv, MakerOK, w
    <2> QED BY <1>7, <2>3, <2>4, <2>5 DEF MakerOK
  <1>11. /\ \A e \in Documents \cup {NoDocument}, j \in Items :
              HasMade(m, e, j)' <=> HasMade(m, e, j) \/ (e = d /\ j = i)
         /\ HasMade(m, d, i)'
    BY <1>4, <1>6, <1>7 DEF HasMade, w
  <1>12. \A e \in Documents, j \in Items :
           /\ IsListed(e, j)' <=> IsListed(e, j)
           /\ ~ (e = d /\ j = i) => (IsValid(e, j)' <=> IsValid(e, j))
    BY <1>2, <1>8 DEF IsListed, IsValid
  <1>13. MakerAlone(m)'
    <2> SUFFICES ASSUME w.alone PROVE MakerAlone(m)'
      BY <1>6, <1>7 DEF MakerAlone
    <2>1. /\ \A n \in Makers \ {m} : maker[n].at = "off"
          /\ w.read = listing
          /\ ~ w.resume => listing.rows = {}
          /\ \A r \in w.made : r.item \in Items /\ ~ r.ok
               /\ IsValid(r.doc, r.item) => HasMade(m, r.doc, r.item)
          /\ \A q \in Sources : \A j \in w.left[q] :
               IsValid(w.doc[q], j) => HasMade(m, w.doc[q], j)
      BY <1>2 DEF FactoryIInv, MakerAlone, w
    <2>2. \A n \in Makers \ {m} : maker'[n].at = "off"
      BY <1>1, <1>5, <2>1 DEF FactoryTypeOK
    <2>3. (\A r \in maker[m].made : r.item \in Items /\ ~ r.ok
             /\ IsValid(r.doc, r.item) => HasMade(m, r.doc, r.item))'
      <3> SUFFICES ASSUME NEW r \in new.made, r.item \in Items, ~ r.ok,
                          IsValid(r.doc, r.item)'
                   PROVE  HasMade(m, r.doc, r.item)'
        BY <1>7
      <3>1. r \in w.made /\ r.doc \in Documents
        BY <1>3, <1>4, <1>6 DEF ItemRows
      <3> QED BY <1>11, <1>12, <2>1, <3>1
    <2>4. (\A q \in Sources : \A j \in maker[m].left[q] :
             IsValid(maker[m].doc[q], j) => HasMade(m, maker[m].doc[q], j))'
      <3> SUFFICES ASSUME NEW q \in Sources, NEW j \in new.left[q],
                          NEW e, e = w.doc[q], IsValid(e, j)'
                   PROVE  HasMade(m, e, j)'
        BY <1>6, <1>7
      <3>1. j \in w.left[q] /\ j \in Items
        BY <1>3, <1>6
      <3>2. e \in Documents
        BY <1>3, <3>1 DEF FactoryIInv, MakerOK, w
      <3> QED BY <1>11, <1>12, <2>1, <3>1, <3>2
    <2>5. /\ maker'[m].read = listing'
          /\ ~ maker'[m].resume => listing'.rows = {}
      BY <1>2, <1>6, <1>7, <2>1
    <2> QED BY <2>2, <2>3, <2>4, <2>5 DEF MakerAlone
  <1>14. MakerFresh(m)'
    <2> SUFFICES ASSUME w.alone, ~ w.disturbed PROVE MakerFresh(m)'
      BY <1>6, <1>7 DEF MakerFresh
    <2>1. /\ \A r \in listing.rows : r.doc = contentOf[r.source]
          /\ \A r \in w.made : r.ok /\ r.doc = contentOf[r.source]
          /\ \A q \in Sources : SourceOK(m, q)
      BY <1>2 DEF FactoryIInv, MakerFresh, w
    <2>2. d = contentOf[s] /\ d # NoDocument
      BY <2>1, <1>15, FactoryAssumption DEF SourceOK, w
    <2>3. \A q \in Sources : SourceOK(m, q)'
      <3> TAKE q \in Sources
      <3>1. CASE w.doc[q] = NoDocument
        BY <3>1, <1>6, <1>7 DEF SourceOK
      <3> SUFFICES ASSUME NEW e \in Documents, e = w.doc[q]
                   PROVE  SourceOK(m, q)'
        BY <1>3, <3>1
      <3>2. /\ e = contentOf[q]
            /\ \A j \in Items \ w.left[q] :
                 /\ output[<<e, j>>] = "whole"
                 /\ IsListed(e, j) \/ HasMade(m, e, j)
        BY <2>1, FactoryAssumption DEF SourceOK, w
      <3>3. \A j \in Items \ new.left[q] :
              j \in Items \ w.left[q] \/ (q = s /\ j = i)
        BY <1>3, <1>6
      <3>4. \A j \in Items \ new.left[q] :
              /\ output'[<<e, j>>] = "whole"
              /\ IsListed(e, j)' \/ HasMade(m, e, j)'
        BY <1>8, <1>11, <1>12, <1>15, <3>2, <3>3
      <3>5. maker'[m].doc[q] = e /\ maker'[m].left[q] = new.left[q]
        BY <1>6, <1>7
      <3> QED BY <1>2, <3>2, <3>4, <3>5 DEF SourceOK
    <2>4. \A r \in new.made : r.ok /\ r.doc = contentOf[r.source]
      BY <1>4, <1>6, <2>1, <2>2
    <2> QED BY <1>2, <1>6, <1>7, <2>1, <2>3, <2>4 DEF MakerFresh
  <1>16. /\ runDir' \in {runDir, "listed"} /\ mishaps' \in 0..MaxMishaps
         /\ listing' \in Listings /\ listingCsv' \in Listings
         /\ UNCHANGED <<contentOf, launched>> /\ maker[m].at # "off"
    BY <1>1, <1>2 DEF FactoryTypeOK, w
  <1> QED BY <1>5, <1>6, <1>8, <1>9, <1>10, <1>13, <1>14, <1>16, FactoryStep

-----------------------------------------------------------------------------
(* FactoryRun: a process ends *)

\* What is delivered stays so when a process that is alone writes its manifest.
LEMMA MergeDelivers ==
  ASSUME FactoryIInv, NEW m \in Makers, WritesListing(m), maker[m].alone,
         NEW p \in Delivered
  PROVE  p \in Delivered'
  <1> DEFINE made == maker[m].made
  <1>1. /\ maker[m].at = "making" /\ UNCHANGED output
        /\ listing'.rows = Merged(maker[m].read.rows, made)
    BY DEF WritesListing, IsDone, filesVars
  <1>2. /\ maker[m].read = listing
        /\ \A r \in made : r.item \in Items /\ ~ r.ok
             /\ IsValid(r.doc, r.item) => HasMade(m, r.doc, r.item)
    BY <1>1 DEF FactoryIInv, MakerAlone
  <1>3. PICK r \in listing.rows : r.doc = p[1] /\ r.item = p[2] /\ r.ok
    BY DEF Delivered
  <1>4. /\ p \in Documents \X Items /\ p = <<r.doc, r.item>>
        /\ output[p] = "whole"
    BY <1>3 DEF Delivered
  <1>5. IsValid(r.doc, r.item) /\ r.item \in Items
    BY <1>3, <1>4 DEF IsValid, IsListed
  <1>6. \E q \in listing'.rows : q.doc = r.doc /\ q.item = r.item /\ q.ok
    <2>1. CASE ~ IsReplaced(r, made)
      <3>1. r.item # WholeDocument
        BY <1>5 DEF Items, WholeDocument
      <3>2. r \in listing'.rows
        BY <1>1, <1>2, <2>1, <3>1 DEF Merged, IsRecovered
      <3> QED BY <1>3, <3>2
    <2>2. CASE IsReplaced(r, made)
      <3>1. PICK q \in made : q.doc = r.doc /\ q.item = r.item
        BY <2>2 DEF IsReplaced, SameIdentity
      <3>2. HasMade(m, r.doc, r.item)
        BY <1>2, <1>5, <3>1 DEF HasMade
      <3> QED BY <1>1, <3>2 DEF HasMade, Merged
    <2> QED BY <2>1, <2>2
  <1> QED BY <1>1, <1>3, <1>4, <1>6 DEF Delivered

LEMMA FactoryWrites ==
  ASSUME FactoryIInv, NEW m \in Makers, WritesListing(m)
  PROVE  FactoryIInv'
  <1> DEFINE w == maker[m]
             all == [rows |-> Merged(w.read.rows, w.made), pdfs |-> w.read.pdfs]
             new == [w EXCEPT !.read = all, !.at = "exporting"]
  <1> USE DEF filesVars, listsVars, countVars
  <1>1. /\ IsDone(m) /\ listing' = all /\ runDir' = "listed"
        /\ maker' = [maker EXCEPT ![m] = new]
        /\ UNCHANGED <<contentOf, output, listingCsv, launched, mishaps>>
    BY DEF WritesListing
  <1>2. FactoryTypeOK /\ w \in MakerStates /\ w.at = "making"
    BY <1>1 DEF FactoryIInv, FactoryTypeOK, IsDone
  <1>3. all.rows \subseteq w.read.rows \cup w.made
    BY DEF Merged
  <1>4. all \in Listings
    BY <1>2, <1>3 DEF MakerStates, Listings
  <1> HIDE DEF w, all
  <1>5. /\ new \in MakerStates /\ new.at = "exporting" /\ new.read = all
        /\ (new.alone <=> w.alone) /\ (new.disturbed <=> w.disturbed)
        /\ new.made = w.made /\ new.left = w.left /\ new.doc = w.doc
    BY <1>2, <1>4 DEF MakerStates, MakerPlaces
  <1> HIDE DEF new
  <1>6. maker'[m] = new
    BY <1>1, <1>2 DEF FactoryTypeOK
  <1>7. \A r \in all.rows :
          r.ok => r.item \in Items /\ output[<<r.doc, r.item>>] # "absent"
    BY <1>3 DEF FactoryIInv, MakerOK, RowsMade, w
  <1>8. ListsOK'
    BY <1>1, <1>7 DEF FactoryIInv, ListsOK, RowsMade
  <1>9. MakerOK(m)'
    BY <1>1, <1>5, <1>6, <1>7 DEF FactoryIInv, MakerOK, RowsMade, w
  <1>10. MakerAlone(m)'
    <2> SUFFICES ASSUME w.alone PROVE MakerAlone(m)'
      BY <1>5, <1>6 DEF MakerAlone
    <2>1. \A n \in Makers \ {m} : maker[n].at = "off"
      BY <1>2 DEF FactoryIInv, MakerAlone, w
    <2>2. \A n \in Makers \ {m} : maker'[n].at = "off"
      BY <1>1, <1>2, <2>1 DEF FactoryTypeOK
    <2> QED BY <1>1, <1>5, <1>6, <2>2 DEF MakerAlone
  <1>11. MakerFresh(m)'
    <2> SUFFICES ASSUME w.alone, ~ w.disturbed PROVE MakerFresh(m)'
      BY <1>5, <1>6 DEF MakerFresh
    <2>1. /\ \A r \in listing.rows : r.doc = contentOf[r.source]
          /\ \A r \in w.made : r.ok /\ r.doc = contentOf[r.source]
          /\ \A q \in Sources : SourceOK(m, q)
          /\ w.read = listing
      BY <1>2 DEF FactoryIInv, MakerFresh, MakerAlone, w
    <2>2. \A r \in all.rows : r.doc = contentOf[r.source]
      BY <1>3, <2>1
    <2>3. ASSUME NEW s \in Sources, NEW i \in Items
          PROVE  <<contentOf[s], i>> \in Delivered'
      <3> DEFINE p == <<contentOf[s], i>>
      <3>1. p \in Documents \X Items
        BY <1>2 DEF FactoryTypeOK
      <3>2. /\ output[p] = "whole"
            /\ IsListed(contentOf[s], i) \/ HasMade(m, contentOf[s], i)
        BY <1>1, <2>1 DEF SourceOK, IsDone, w
      <3>3. CASE IsListed(contentOf[s], i)
        <4>1. p \in Delivered
          BY <3>1, <3>2, <3>3 DEF Delivered, IsListed
        <4> QED BY <4>1, MergeDelivers DEF w
      <3>4. CASE HasMade(m, contentOf[s], i)
        <4>1. PICK q \in w.made : q.ok /\ q.doc = contentOf[s] /\ q.item = i
          BY <3>4 DEF HasMade, w
        <4>2. q \in listing'.rows
          BY <1>1 DEF Merged, all
        <4> QED BY <1>1, <3>1, <3>2, <4>1, <4>2 DEF Delivered
      <3> QED BY <3>2, <3>3, <3>4
    <2> QED BY <1>1, <1>5, <1>6, <2>2, <2>3 DEF MakerFresh
  <1>12. /\ runDir' \in {runDir, "listed"} /\ mishaps' \in 0..MaxMishaps
         /\ listing' \in Listings /\ listingCsv' \in Listings
         /\ UNCHANGED <<contentOf, launched, output>> /\ maker[m].at # "off"
         /\ output' \in [Documents \X Items -> {"absent", "whole", "lost"}]
    BY <1>1, <1>2, <1>4 DEF FactoryTypeOK, w
  <1> QED BY <1>1, <1>5, <1>8, <1>9, <1>10, <1>11, <1>12, FactoryStep

\* A process leaves, whatever it knows.
LEMMA FactoryLeaves ==
  ASSUME FactoryIInv, NEW m \in Makers, maker[m].at # "off",
         maker' = [maker EXCEPT ![m] = NotAtWork],
         listingCsv' \in Listings, RowsMade(listingCsv.rows)',
         mishaps' \in 0..MaxMishaps,
         UNCHANGED <<contentOf, output, runDir, listing, launched>>
  PROVE  FactoryIInv'
  <1>1. FactoryTypeOK /\ maker'[m] = NotAtWork
    BY DEF FactoryIInv, FactoryTypeOK
  <1>2. MakerOK(m)' /\ MakerAlone(m)' /\ MakerFresh(m)'
    BY <1>1, NotAtWorkIsTyped
    DEF MakerOK, MakerAlone, MakerFresh, RowsMade, NoRows
  <1>3. ListsOK'
    BY DEF FactoryIInv, ListsOK, RowsMade
  <1>4. listing' \in Listings
        /\ output' \in [Documents \X Items -> {"absent", "whole", "lost"}]
    BY <1>1 DEF FactoryTypeOK
  <1> QED BY <1>2, <1>3, <1>4, NotAtWorkIsTyped, FactoryStep

LEMMA FactoryEnds ==
  ASSUME FactoryIInv, NEW m \in Makers,
         \/ Exports(m) /\ maker[m].at = "ending"
         \/ EndsWell(m) \/ Collapses(m)
  PROVE  FactoryIInv'
  <1> USE DEF filesVars, listsVars, countVars
  <1>1. FactoryTypeOK /\ maker[m] \in MakerStates
    BY DEF FactoryIInv, FactoryTypeOK
  <1>2. RowsMade(maker[m].read.rows) /\ ListsOK
    BY DEF FactoryIInv, MakerOK
  <1>3. /\ maker[m].at # "off" /\ maker' = [maker EXCEPT ![m] = NotAtWork]
        /\ listingCsv' \in {listingCsv, maker[m].read}
        /\ \/ mishaps' = mishaps
           \/ mishaps < MaxMishaps /\ mishaps' = mishaps + 1
        /\ UNCHANGED <<contentOf, output, runDir, listing, launched>>
    BY DEF Exports, EndsWell, Collapses
  <1>4. listingCsv' \in Listings /\ RowsMade(listingCsv.rows)'
    BY <1>1, <1>2, <1>3 DEF FactoryTypeOK, MakerStates, ListsOK, RowsMade
  <1>5. mishaps' \in 0..MaxMishaps
    BY <1>1, <1>3, FactoryAssumption DEF FactoryTypeOK
  <1> QED BY <1>3, <1>4, <1>5, FactoryLeaves

LEMMA FactoryCloses ==
  ASSUME FactoryIInv, NEW m \in Makers,
         \/ Exports(m) /\ maker[m].at = "exporting"
         \/ ReadsListing(m) \/ FoldsPdf(m)
  PROVE  FactoryIInv'
  <1> USE DEF filesVars, listsVars, countVars
  <1> DEFINE w == maker[m]
             folded == [w.read EXCEPT !.pdfs = @ + 1]
  <1>1. FactoryTypeOK /\ w \in MakerStates
    BY DEF FactoryIInv, FactoryTypeOK
  <1>2. /\ w.read \in Listings /\ listing \in Listings
        /\ listingCsv \in Listings
    BY <1>1 DEF FactoryTypeOK, MakerStates
  <1>3. folded \in Listings /\ folded.rows = w.read.rows
    BY <1>2 DEF Listings
  <1> HIDE DEF folded
  <1>4. PICK read \in {w.read, listing, folded},
             stage \in {"closing", "folding", "ending"} :
          /\ maker' = [maker EXCEPT ![m] =
               [w EXCEPT !.read = read, !.at = stage]]
          /\ w.at \notin {"off", "making"}
          /\ listing' = IF stage = "ending" THEN folded ELSE listing
          /\ listingCsv' = IF stage = "closing" THEN w.read ELSE listingCsv
          /\ stage = "closing" => w.at = "exporting" /\ read = w.read
          /\ stage = "folding" => read = listing
          /\ stage = "ending" => w.at = "folding" /\ read = folded
          /\ UNCHANGED <<contentOf, output, runDir, launched, mishaps>>
    <2>1. CASE Exports(m) /\ w.at = "exporting"
      <3>1. /\ maker' = [maker EXCEPT ![m] = [w EXCEPT !.at = "closing"]]
            /\ listingCsv' = w.read
            /\ UNCHANGED <<contentOf, output, runDir, listing, launched,
                           mishaps>>
        BY <2>1 DEF Exports
      <3>2. [w EXCEPT !.at = "closing"]
              = [w EXCEPT !.read = w.read, !.at = "closing"]
        BY <1>1 DEF MakerStates
      <3> HIDE DEF w
      <3> QED BY <2>1, <3>1, <3>2
    <2>2. CASE ReadsListing(m)
      BY <2>2 DEF ReadsListing
    <2>3. CASE FoldsPdf(m)
      BY <2>3 DEF FoldsPdf, folded
    <2> QED BY <2>1, <2>2, <2>3
  <1> DEFINE new == [w EXCEPT !.read = read, !.at = stage]
  <1> HIDE DEF w
  <1>5. /\ new \in MakerStates /\ new.at = stage /\ new.read = read
        /\ (new.alone <=> w.alone) /\ (new.disturbed <=> w.disturbed)
        /\ new.made = w.made /\ new.left = w.left /\ new.doc = w.doc
    BY <1>1, <1>2, <1>3, <1>4 DEF MakerStates, MakerPlaces
  <1> HIDE DEF new
  <1>6. maker' = [maker EXCEPT ![m] = new] /\ maker'[m] = new
    BY <1>1, <1>4 DEF FactoryTypeOK, new
  <1>7. RowsMade(w.read.rows) /\ RowsMade(w.made) /\ ListsOK
    BY DEF FactoryIInv, MakerOK, w
  <1>8. ListsOK'
    BY <1>3, <1>4, <1>7 DEF ListsOK, RowsMade
  <1>9. MakerOK(m)'
    BY <1>3, <1>4, <1>5, <1>6, <1>7
    DEF FactoryIInv, MakerOK, ListsOK, RowsMade, w
  <1>10. MakerAlone(m)'
    <2> SUFFICES ASSUME w.alone PROVE MakerAlone(m)'
      BY <1>5, <1>6 DEF MakerAlone
    <2>1. \A n \in Makers \ {m} : maker[n].at = "off"
      BY <1>4 DEF FactoryIInv, MakerAlone, w
    <2>2. \A n \in Makers \ {m} : maker'[n].at = "off"
      BY <1>1, <1>6, <2>1 DEF FactoryTypeOK
    <2> QED BY <1>4, <1>5, <1>6, <2>2 DEF MakerAlone
  <1>11. MakerFresh(m)'
    <2> SUFFICES ASSUME w.alone, ~ w.disturbed PROVE MakerFresh(m)'
      BY <1>5, <1>6 DEF MakerFresh
    <2>1. /\ \A r \in listing.rows : r.doc = contentOf[r.source]
          /\ \A s \in Sources, i \in Items : <<contentOf[s], i>> \in Delivered
          /\ w.at # "closing" => w.read = listing
      BY <1>4 DEF FactoryIInv, MakerFresh, MakerAlone, w
    <2>2. listing'.rows = listing.rows
      BY <1>3, <1>4, <2>1
    <2>3. Delivered' = Delivered
      BY <1>4, <2>2 DEF Delivered
    <2>4. stage = "closing" => listingCsv' = listing'
      BY <1>4, <2>1
    <2> QED BY <1>4, <1>5, <1>6, <2>1, <2>2, <2>3, <2>4 DEF MakerFresh
  <1>12. /\ runDir' \in {runDir, "listed"} /\ mishaps' \in 0..MaxMishaps
         /\ listing' \in Listings /\ listingCsv' \in Listings
         /\ UNCHANGED <<contentOf, launched, output>> /\ maker[m].at # "off"
         /\ output' \in [Documents \X Items -> {"absent", "whole", "lost"}]
    BY <1>1, <1>2, <1>3, <1>4 DEF FactoryTypeOK, w
  <1> QED BY <1>5, <1>6, <1>8, <1>9, <1>10, <1>11, <1>12, FactoryStep

\* A file is lost or a source edited: every process is disturbed.
LEMMA FactoryDisturbed ==
  ASSUME FactoryIInv, LosesOutput \/ EditsSource
  PROVE  FactoryIInv'
  <1> USE DEF filesVars, listsVars, countVars
  <1>1. FactoryTypeOK
    BY DEF FactoryIInv
  <1>2. /\ maker' = [m \in Makers |-> [maker[m] EXCEPT !.disturbed = TRUE]]
        /\ mishaps < MaxMishaps /\ mishaps' = mishaps + 1
        /\ UNCHANGED <<runDir, listing, listingCsv, launched>>
    BY DEF LosesOutput, EditsSource, Disturbs
  <1>3. /\ contentOf' \in [Sources -> Documents]
        /\ output' \in [Documents \X Items -> {"absent", "whole", "lost"}]
        /\ \A d \in Documents, i \in Items :
             /\ output[<<d, i>>] # "absent" => output'[<<d, i>>] # "absent"
             /\ output'[<<d, i>>] = "whole" => output[<<d, i>>] = "whole"
    <2>1. CASE LosesOutput
      BY <1>1, <2>1 DEF LosesOutput, FactoryTypeOK
    <2>2. CASE EditsSource
      BY <1>1, <2>2 DEF EditsSource, FactoryTypeOK
    <2> QED BY <2>1, <2>2
  <1>4. \A m \in Makers : maker[m] \in MakerStates
    BY <1>1 DEF FactoryTypeOK
  <1>5. ASSUME NEW m \in Makers
        PROVE  /\ maker'[m] \in MakerStates /\ maker'[m].disturbed
               /\ maker'[m].at = maker[m].at /\ maker'[m].read = maker[m].read
               /\ (maker'[m].alone <=> maker[m].alone)
               /\ (maker'[m].resume <=> maker[m].resume)
               /\ maker'[m].made = maker[m].made
               /\ maker'[m].doc = maker[m].doc
               /\ maker'[m].left = maker[m].left
    <2>1. maker[m] \in MakerStates
      BY <1>4
    <2>2. maker'[m] = [maker[m] EXCEPT !.disturbed = TRUE]
      BY <1>2
    <2> QED BY <2>1, <2>2 DEF MakerStates
  <1>6. FactoryTypeOK'
    BY <1>1, <1>2, <1>3, <1>5, FactoryAssumption DEF FactoryTypeOK
  <1>7. ListsOK'
    <2>1. /\ \A r \in listing.rows : r.doc \in Documents
          /\ \A r \in listingCsv.rows : r.doc \in Documents
      BY <1>1 DEF FactoryTypeOK, Listings, ItemRows
    <2> QED BY <1>2, <1>3, <2>1 DEF FactoryIInv, ListsOK, RowsMade
  <1>8. FolderOK'
    BY <1>2, <1>5 DEF FactoryIInv, FolderOK
  <1>9. ASSUME NEW m \in Makers
        PROVE  MakerOK(m)' /\ MakerAlone(m)' /\ MakerFresh(m)'
    <2>1. /\ \A r \in maker[m].read.rows : r.doc \in Documents
          /\ maker[m].made \subseteq ItemRows
          /\ \A q \in Sources : maker[m].left[q] \subseteq Items
          /\ \A q \in Sources : maker[m].doc[q] \in Documents \cup {NoDocument}
      BY <1>4 DEF MakerStates, Listings, ItemRows
    <2>2. MakerOK(m)'
      <3>1. RowsMade(maker[m].read.rows)'
        BY <1>3, <1>5, <2>1 DEF FactoryIInv, MakerOK, RowsMade
      <3>2. RowsMade(maker[m].made)'
        BY <1>3, <1>5, <2>1 DEF FactoryIInv, MakerOK, RowsMade, ItemRows
      <3> QED BY <1>5, <3>1, <3>2 DEF FactoryIInv, MakerOK
    <2>3. MakerAlone(m)'
      <3> SUFFICES ASSUME maker[m].alone, maker[m].at # "off"
                   PROVE  MakerAlone(m)'
        BY <1>5 DEF MakerAlone
      <3>1. MakerAlone(m)
        BY DEF FactoryIInv
      <3>2. /\ \A d \in Documents, i \in Items : IsValid(d, i)' => IsValid(d, i)
            /\ \A d \in Documents, i \in Items :
                 HasMade(m, d, i)' <=> HasMade(m, d, i)
        BY <1>2, <1>3, <1>5 DEF IsValid, IsListed, HasMade
      <3>3. /\ \A n \in Makers \ {m} : maker'[n].at = "off"
            /\ maker'[m].at # "closing" => maker'[m].read = listing'
            /\ maker'[m].at = "making" /\ ~ maker'[m].resume
                 => listing'.rows = {}
        BY <1>2, <1>5, <3>1 DEF MakerAlone
      <3>4. CASE maker[m].at # "making"
        BY <1>5, <3>3, <3>4 DEF MakerAlone
      <3>5. CASE maker[m].at = "making"
        <4>1. (\A r \in maker[m].made : r.item \in Items /\ ~ r.ok
                 /\ IsValid(r.doc, r.item) => HasMade(m, r.doc, r.item))'
          BY <1>5, <2>1, <3>1, <3>2, <3>5 DEF MakerAlone, ItemRows
        <4>2. (\A s \in Sources : \A i \in maker[m].left[s] :
                 IsValid(maker[m].doc[s], i)
                   => HasMade(m, maker[m].doc[s], i))'
          <5> SUFFICES ASSUME NEW s \in Sources, NEW i \in maker[m].left[s],
                              NEW d, d = maker[m].doc[s], IsValid(d, i)'
                       PROVE  HasMade(m, d, i)'
            BY <1>5
          <5>1. i \in Items /\ d \in Documents
            BY <2>1 DEF FactoryIInv, MakerOK
          <5> QED BY <3>1, <3>2, <3>5, <5>1 DEF MakerAlone
        <4> QED BY <3>3, <4>1, <4>2 DEF MakerAlone
      <3> QED BY <3>4, <3>5
    <2>4. MakerFresh(m)'
      BY <1>5 DEF MakerFresh
    <2> QED BY <2>2, <2>3, <2>4
  <1> QED BY <1>6, <1>7, <1>8, <1>9 DEF FactoryIInv

-----------------------------------------------------------------------------
(* FactoryRun: theorems *)

LEMMA FactoryInvariant == FactorySpec => []FactoryIInv
  <1>1. FactoryInit => FactoryIInv
    <2> SUFFICES ASSUME FactoryInit PROVE FactoryIInv
      OBVIOUS
    <2>1. \A m \in Makers : maker[m] = NotAtWork
      BY DEF FactoryInit
    <2>2. \A m \in Makers : MakerOK(m) /\ MakerAlone(m) /\ MakerFresh(m)
      BY <2>1, IdleIsFine
    <2>3. NoRows \in Listings /\ NoRows.rows = {}
      BY DEF NoRows, Listings
    <2>4. FactoryTypeOK
      BY <2>3, NotAtWorkIsTyped, FactoryAssumption
      DEF FactoryInit, FactoryTypeOK
    <2>5. ListsOK /\ FolderOK
      BY <2>1, <2>3, NotAtWorkIsTyped
      DEF FactoryInit, ListsOK, FolderOK, RowsMade
    <2> QED BY <2>2, <2>4, <2>5 DEF FactoryIInv
  <1>2. FactoryIInv /\ [FactoryNext]_factoryVars => FactoryIInv'
    <2> SUFFICES ASSUME FactoryIInv, [FactoryNext]_factoryVars
                 PROVE  FactoryIInv'
      OBVIOUS
    <2>1. CASE UNCHANGED factoryVars
      BY <2>1
      DEF factoryVars, filesVars, listsVars, countVars, FactoryIInv,
          FactoryTypeOK, ListsOK, FolderOK, MakerOK, MakerAlone, MakerFresh,
          RowsMade, SourceOK, HasMade, IsValid, IsListed, Delivered
    <2>2. ASSUME NEW m \in Makers, Launches(m) \/ Resumes(m)
          PROVE  FactoryIInv'
      BY <2>2, FactoryBegins
    <2>3. ASSUME NEW m \in Makers, Exports(m)
          PROVE  FactoryIInv'
      <3>1. maker[m].at \in {"exporting", "ending"}
        BY <2>3 DEF Exports
      <3> QED BY <2>3, <3>1, FactoryEnds, FactoryCloses
    <2>4. ASSUME NEW m \in Makers,
                 \/ WritesListing(m) \/ EndsWell(m) \/ Collapses(m)
                 \/ ReadsListing(m) \/ FoldsPdf(m)
          PROVE  FactoryIInv'
      BY <2>4, FactoryWrites, FactoryEnds, FactoryCloses
    <2>5. ASSUME NEW m \in Makers, NEW s \in Sources,
                 \/ OpensSource(m, s) \/ CannotRender(m, s)
                 \/ MakesItem(m, s) \/ ItemFails(m, s)
          PROVE  FactoryIInv'
      BY <2>5, FactoryOpens, FactoryFails, FactoryMakes
    <2>6. CASE LosesOutput \/ EditsSource
      BY <2>6, FactoryDisturbed
    <2> QED BY <2>1, <2>2, <2>3, <2>4, <2>5, <2>6 DEF FactoryNext
  <1> QED BY <1>1, <1>2, PTL DEF FactorySpec

\* The state of a run of the factory has its type.
THEOREM FactoryTyped == FactorySpec => []FactoryTypeOK
  <1>1. FactoryIInv => FactoryTypeOK
    BY DEF FactoryIInv
  <1> QED BY <1>1, FactoryInvariant, PTL

\* What is delivered stays, unless it is lost or two processes work at once.
LEMMA DeliveredStays ==
  ASSUME FactoryIInv, FactoryNext
  PROVE  KeepsDelivered
  <1> SUFFICES ASSUME NEW p \in Delivered, output'[p] # "lost",
                      \A m \in AtWork : maker[m].alone
               PROVE  p \in Delivered'
    BY DEF KeepsDelivered
  <1> USE DEF filesVars, listsVars, countVars
  <1>1. CASE \E m \in Makers : WritesListing(m)
    <2>1. PICK m \in Makers : WritesListing(m)
      BY <1>1
    <2>2. m \in AtWork
      BY <2>1 DEF WritesListing, IsDone, AtWork
    <2> QED BY <2>1, <2>2, MergeDelivers
  <1>2. CASE \A m \in Makers : ~ WritesListing(m)
    <2>1. listing'.rows = listing.rows
      <3>1. ASSUME NEW m \in Makers, FoldsPdf(m)
            PROVE  listing'.rows = listing.rows
        <4>1. m \in AtWork /\ maker[m].at = "folding"
          BY <3>1 DEF FoldsPdf, AtWork
        <4>2. maker[m].read = listing
          BY <4>1 DEF FactoryIInv, MakerAlone
        <4>3. listing \in Listings
          BY DEF FactoryIInv, FactoryTypeOK
        <4> QED BY <3>1, <4>2, <4>3 DEF FoldsPdf, Listings
      <3>2. CASE \A m \in Makers : ~ FoldsPdf(m)
        <4>1. ASSUME NEW m \in Makers,
                     \/ Launches(m) \/ Resumes(m) \/ Exports(m)
                     \/ EndsWell(m) \/ ReadsListing(m) \/ Collapses(m)
              PROVE  listing' = listing
          BY <4>1 DEF Launches, Resumes, Exports, EndsWell, ReadsListing,
                      Collapses
        <4>2. ASSUME NEW m \in Makers, NEW s \in Sources,
                     \/ OpensSource(m, s) \/ CannotRender(m, s)
                     \/ MakesItem(m, s) \/ ItemFails(m, s)
              PROVE  listing' = listing
          BY <4>2 DEF OpensSource, CannotRender, MakesItem, ItemFails
        <4>3. CASE LosesOutput \/ EditsSource
          BY <4>3 DEF LosesOutput, EditsSource
        <4> QED BY <1>2, <3>2, <4>1, <4>2, <4>3 DEF FactoryNext
      <3> QED BY <3>1, <3>2
    <2>2. /\ p \in Documents \X Items /\ output[p] = "whole"
          /\ output \in [Documents \X Items -> {"absent", "whole", "lost"}]
      BY DEF Delivered, FactoryIInv, FactoryTypeOK
    <2>3. output'[p] = "whole"
      <3>1. ASSUME NEW m \in Makers, NEW s \in Sources, MakesItem(m, s)
            PROVE  output'[p] = "whole"
        BY <2>2, <3>1 DEF MakesItem
      <3>2. CASE LosesOutput
        BY <2>2, <3>2 DEF LosesOutput
      <3>3. ASSUME NEW m \in Makers,
                   \/ Launches(m) \/ Resumes(m) \/ Exports(m)
                   \/ EndsWell(m) \/ ReadsListing(m) \/ Collapses(m)
                   \/ WritesListing(m) \/ FoldsPdf(m)
            PROVE  output'[p] = "whole"
        <4>1. output' = output
          BY <3>3 DEF Launches, Resumes, Exports, EndsWell, ReadsListing,
                      Collapses, WritesListing, FoldsPdf
        <4> QED BY <2>2, <4>1
      <3>4. ASSUME NEW m \in Makers, NEW s \in Sources,
                   \/ OpensSource(m, s) \/ CannotRender(m, s)
                   \/ ItemFails(m, s)
            PROVE  output'[p] = "whole"
        <4>1. output' = output
          BY <3>4 DEF OpensSource, CannotRender, ItemFails
        <4> QED BY <2>2, <4>1
      <3>5. CASE EditsSource
        BY <2>2, <3>5 DEF EditsSource
      <3> QED BY <3>1, <3>2, <3>3, <3>4, <3>5 DEF FactoryNext
    <2> QED BY <2>1, <2>2, <2>3 DEF Delivered
  <1> QED BY <1>1, <1>2

\* Which steps are the end of a process that does not collapse
LEMMA HowItEnds ==
  ASSUME FactoryIInv, FactoryNext, NEW m \in Makers, EndsNow(m)
  PROVE  EndsWell(m) \/ (Exports(m) /\ maker[m].at = "ending")
  <1> USE DEF filesVars, listsVars, countVars
  <1>1. /\ maker \in [Makers -> MakerStates] /\ mishaps \in Nat
        /\ maker[m].at \in {"closing", "ending"} /\ maker'[m].at = "off"
        /\ mishaps' = mishaps
    BY FactoryAssumption DEF FactoryIInv, FactoryTypeOK, EndsNow
  <1>2. ASSUME NEW k \in Makers, Launches(k) \/ Resumes(k)
        PROVE  FALSE
    <2>1. k # m
      BY <1>1, <1>2 DEF Launches, Resumes
    <2>2. maker'[m] = [maker[m] EXCEPT !.alone = FALSE]
      BY <1>2, <2>1 DEF Launches, Resumes, Joins
    <2>3. maker[m] \in MakerStates
      BY <1>1
    <2> QED BY <1>1, <2>2, <2>3 DEF MakerStates
  <1>3. ASSUME NEW k \in Makers, k # m,
               \/ WritesListing(k) \/ Exports(k) \/ EndsWell(k)
               \/ ReadsListing(k) \/ FoldsPdf(k) \/ Collapses(k)
               \/ \E s \in Sources : \/ OpensSource(k, s) \/ CannotRender(k, s)
                                     \/ MakesItem(k, s) \/ ItemFails(k, s)
        PROVE  FALSE
    <2>1. maker'[m] = maker[m]
      BY <1>1, <1>3
      DEF WritesListing, Exports, EndsWell, ReadsListing, FoldsPdf, Collapses,
          OpensSource, CannotRender, MakesItem, ItemFails
    <2> QED BY <1>1, <2>1
  <1>4. ASSUME \/ WritesListing(m) \/ ReadsListing(m) \/ FoldsPdf(m)
               \/ Collapses(m)
               \/ Exports(m) /\ maker[m].at = "exporting"
               \/ \E s \in Sources : \/ OpensSource(m, s) \/ CannotRender(m, s)
                                     \/ MakesItem(m, s) \/ ItemFails(m, s)
        PROVE  FALSE
    <2>1. CASE ReadsListing(m)
      <3>1. maker'[m] = [maker[m] EXCEPT !.read = listing, !.at = "folding"]
        BY <1>1, <2>1 DEF ReadsListing
      <3> QED BY <1>1, <3>1 DEF MakerStates
    <2>2. CASE FoldsPdf(m)
      <3>1. maker'[m].at = "ending"
        <4>1. maker'[m] = [maker[m] EXCEPT
                !.read = [maker[m].read EXCEPT !.pdfs = @ + 1], !.at = "ending"]
          BY <1>1, <2>2 DEF FoldsPdf
        <4> QED BY <1>1, <4>1 DEF MakerStates
      <3> QED BY <1>1, <3>1
    <2>3. CASE \/ WritesListing(m) \/ Collapses(m)
               \/ Exports(m) /\ maker[m].at = "exporting"
      BY <1>1, <2>3 DEF WritesListing, IsDone, Collapses
    <2>4. ASSUME NEW s \in Sources, \/ OpensSource(m, s) \/ CannotRender(m, s)
                                    \/ MakesItem(m, s) \/ ItemFails(m, s)
          PROVE  FALSE
      BY <1>1, <2>4
      DEF OpensSource, IsWaiting, CannotRender, MakesItem, ItemFails, NextItem
    <2> QED BY <1>4, <2>1, <2>2, <2>3, <2>4
  <1>5. ~ LosesOutput /\ ~ EditsSource
    BY <1>1 DEF LosesOutput, EditsSource
  <1>6. Exports(m) => maker[m].at \in {"exporting", "ending"}
    BY DEF Exports
  <1> QED BY <1>2, <1>3, <1>4, <1>5, <1>6 DEF FactoryNext

LEMMA EndIsComplete ==
  ASSUME FactoryIInv, FactoryNext
  PROVE  EndsComplete
  <1> SUFFICES ASSUME NEW m \in Makers, EndsNow(m), maker[m].alone,
                      ~ maker[m].disturbed
               PROVE  IsComplete'
    BY DEF EndsComplete
  <1> USE DEF filesVars, listsVars, countVars
  <1>1. EndsWell(m) \/ (Exports(m) /\ maker[m].at = "ending")
    BY HowItEnds
  <1>2. maker[m].at \in {"closing", "ending"}
    BY DEF EndsNow
  <1>3. /\ \A r \in listing.rows : r.doc = contentOf[r.source]
        /\ \A s \in Sources, i \in Items : <<contentOf[s], i>> \in Delivered
        /\ maker[m].at = "closing" => listingCsv = listing
        /\ maker[m].at = "ending" => maker[m].read = listing
    BY <1>2 DEF FactoryIInv, MakerFresh, MakerAlone
  <1>4. UNCHANGED <<contentOf, output, listing>> /\ listingCsv' = listing
    BY <1>1, <1>3 DEF EndsWell, Exports
  <1>5. Delivered' = Delivered
    BY <1>4 DEF Delivered
  <1> QED BY <1>3, <1>4, <1>5 DEF IsComplete

\* A run can be broken off and resumed: what is listed was made, what was made
\* and listed stays, and a resumed run completes (plan_run, _process_document,
\* generate_run).
THEOREM Resumption == FactorySpec => ResumesHold
  <1>1. FactoryIInv => ListedWasMade
    BY DEF FactoryIInv, ListsOK, RowsMade, ListedWasMade
  <1>2. FactoryIInv /\ [FactoryNext]_factoryVars
          => [KeepsDelivered /\ EndsComplete]_factoryVars
    BY DeliveredStays, EndIsComplete
  <1> QED BY <1>1, <1>2, FactoryInvariant, PTL DEF FactorySpec, ResumesHold

-----------------------------------------------------------------------------
(* FactoryRun: a process comes to its end *)

MakerPlaceRank(m) ==
    IF maker[m].at = "making" THEN 5
    ELSE IF maker[m].at = "exporting" THEN 4
    ELSE IF maker[m].at = "closing" THEN 3
    ELSE IF maker[m].at = "folding" THEN 2
    ELSE IF maker[m].at = "ending" THEN 1
    ELSE 0

Unopened(m) == {s \in Sources : maker[m].doc[s] = NoDocument}

LeftToMake(m) == {x \in Sources \X Items : x[2] \in maker[m].left[x[1]]}

\* What a process has before it: places, sources and items
MakerRank(m) ==
    <<MakerPlaceRank(m), Cardinality(Unopened(m)), Cardinality(LeftToMake(m))>>

MakerFallsAt(m, i) ==
    /\ MakerRank(m)'[i] < MakerRank(m)[i]
    /\ \A j \in 1..(i - 1) : MakerRank(m)'[j] <= MakerRank(m)[j]

WorkOf(m) ==
    \/ WritesListing(m) \/ Exports(m) \/ EndsWell(m)
    \/ ReadsListing(m) \/ FoldsPdf(m) \/ Collapses(m)
    \/ \E s \in Sources :
        \/ OpensSource(m, s) \/ CannotRender(m, s)
        \/ MakesItem(m, s) \/ ItemFails(m, s)

\* Every step of a process brings it nearer to its end, and nothing but the
\* beginning of another one in its place takes it farther away.
MakersNearEnd ==
    \A m \in Makers :
        /\ \A i \in 1..3 : MakerRank(m)[i] \in Nat
        /\ WorkOf(m) => \E i \in 1..3 : MakerFallsAt(m, i)
        /\ Launches(m) \/ Resumes(m) \/ WorkOf(m)
             \/ MakerRank(m)' = MakerRank(m)

\* A process at work has a step to take, whatever the others do: a source to
\* open, an item to make or the list to write, or one of the places after it.
MakersGoOn ==
    \A m \in AtWork :
        \/ \E s \in Sources : IsWaiting(m, s) \/ \E i \in Items : NextItem(m, s, i)
        \/ IsDone(m)
        \/ maker[m].at \in {"exporting", "closing", "folding", "ending"}

LEMMA FactoryGoesOn ==
  ASSUME FactoryTypeOK
  PROVE  MakersGoOn
  <1> SUFFICES ASSUME NEW m \in AtWork, maker[m].at = "making", ~ IsDone(m)
               PROVE  \E s \in Sources :
                        IsWaiting(m, s) \/ \E i \in Items : NextItem(m, s, i)
    BY DEF MakersGoOn, AtWork, FactoryTypeOK, MakerStates, MakerPlaces
  <1>1. PICK s \in Sources : maker[m].doc[s] = NoDocument \/ maker[m].left[s] # {}
    BY DEF IsDone
  <1>2. CASE maker[m].doc[s] = NoDocument
    BY <1>1, <1>2 DEF IsWaiting
  <1>3. CASE maker[m].left[s] # {}
    <2>1. maker[m].left[s] \in SUBSET Items
      BY DEF AtWork, FactoryTypeOK, MakerStates
    <2>2. maker[m].left[s] \in SUBSET Nat
      BY <2>1 DEF Items
    <2>3. PICK i \in maker[m].left[s] : \A j \in maker[m].left[s] : i <= j
      BY <1>3, <2>2, LeastNumber
    <2>4. NextItem(m, s, i)
      BY <2>3 DEF NextItem
    <2> QED BY <2>1, <2>4
  <1> QED BY <1>1, <1>2, <1>3

LEMMA MakerSetsAreFinite ==
  ASSUME NEW m
  PROVE  /\ IsFiniteSet(Unopened(m)) /\ Cardinality(Unopened(m)) \in Nat
         /\ IsFiniteSet(LeftToMake(m)) /\ Cardinality(LeftToMake(m)) \in Nat
  <1>1. IsFiniteSet(Sources) /\ IsFiniteSet(Items)
    BY FactoryAssumption, FS_Interval DEF Items
  <1>2. IsFiniteSet(Sources \X Items)
    BY <1>1, FS_Product
  <1>3. Unopened(m) \in SUBSET Sources /\ LeftToMake(m) \in SUBSET (Sources \X Items)
    BY DEF Unopened, LeftToMake
  <1>4. IsFiniteSet(Unopened(m)) /\ IsFiniteSet(LeftToMake(m))
    BY <1>1, <1>2, <1>3, FS_Subset
  <1> QED BY <1>4, FS_CardinalityType

LEMMA MakerRankIsNat ==
  ASSUME NEW m
  PROVE  \A i \in 1..3 : MakerRank(m)[i] \in Nat
  <1>1. MakerPlaceRank(m) \in Nat
    BY DEF MakerPlaceRank
  <1>2. /\ MakerRank(m)[1] \in Nat /\ MakerRank(m)[2] \in Nat
        /\ MakerRank(m)[3] \in Nat
    BY <1>1, MakerSetsAreFinite DEF MakerRank
  <1>3. \A i \in 1..3 : i = 1 \/ i = 2 \/ i = 3
    OBVIOUS
  <1> HIDE DEF MakerRank
  <1> QED BY <1>2, <1>3

\* A process that leaves a place does not come back to it.
LEMMA MakerLeavesPlace ==
  ASSUME FactoryTypeOK, NEW m \in Makers,
         \/ WritesListing(m) \/ Exports(m) \/ EndsWell(m)
         \/ ReadsListing(m) \/ FoldsPdf(m) \/ Collapses(m)
  PROVE  MakerFallsAt(m, 1)
  <1>1. maker \in [Makers -> MakerStates] /\ maker[m] \in MakerStates
    BY DEF FactoryTypeOK
  <1>2. MakerPlaceRank(m)' < MakerPlaceRank(m)
    <2>1. CASE WritesListing(m)
      BY <1>1, <2>1 DEF WritesListing, IsDone, MakerPlaceRank, MakerStates
    <2>2. CASE Exports(m)
      BY <1>1, <2>2, NotAtWorkIsTyped DEF Exports, MakerPlaceRank, MakerStates
    <2>3. CASE EndsWell(m)
      BY <1>1, <2>3, NotAtWorkIsTyped DEF EndsWell, MakerPlaceRank
    <2>4. CASE ReadsListing(m)
      BY <1>1, <2>4 DEF ReadsListing, MakerPlaceRank, MakerStates
    <2>5. CASE FoldsPdf(m)
      BY <1>1, <2>5 DEF FoldsPdf, MakerPlaceRank, MakerStates
    <2>6. CASE Collapses(m)
      BY <1>1, <2>6, NotAtWorkIsTyped
      DEF Collapses, MakerPlaceRank, MakerStates, MakerPlaces
    <2> QED BY <2>1, <2>2, <2>3, <2>4, <2>5, <2>6
  <1>3. \A j \in 1..(1 - 1) : FALSE
    OBVIOUS
  <1>4. MakerRank(m)[1] = MakerPlaceRank(m) /\ MakerRank(m)'[1] = MakerPlaceRank(m)'
    BY DEF MakerRank
  <1> HIDE DEF MakerRank
  <1> QED BY <1>2, <1>3, <1>4 DEF MakerFallsAt

\* A source that is opened is not opened again.
LEMMA MakerOpens ==
  ASSUME FactoryTypeOK, NEW m \in Makers, NEW s \in Sources,
         OpensSource(m, s) \/ CannotRender(m, s)
  PROVE  MakerFallsAt(m, 2)
  <1>1. /\ maker[m] \in MakerStates /\ contentOf[s] \in Documents
        /\ maker \in [Makers -> MakerStates]
    BY DEF FactoryTypeOK
  <1>2. contentOf[s] # NoDocument
    BY <1>1, FactoryAssumption
  <1>3. /\ maker[m].doc[s] = NoDocument /\ maker'[m].at = maker[m].at
        /\ maker'[m].doc = [maker[m].doc EXCEPT ![s] = contentOf[s]]
    <2> DEFINE w == maker[m]
               d == contentOf[s]
               rest == Items \ CompleteItems(m, d)
               entry == RowOf(d, s, WholeDocument, FALSE)
               opened == [w EXCEPT !.doc[s] = d, !.left[s] = rest]
               unread == [w EXCEPT !.doc[s] = d, !.disturbed = TRUE,
                                   !.made = @ \cup {entry}]
    <2>1. w.doc[s] = NoDocument
      BY DEF OpensSource, CannotRender, IsWaiting
    <2>2. CASE OpensSource(m, s)
      <3>1. maker' = [maker EXCEPT ![m] = opened]
        BY <2>2 DEF OpensSource
      <3> HIDE DEF w, d, rest
      <3>2. opened.at = w.at /\ opened.doc = [w.doc EXCEPT ![s] = d]
        BY <1>1 DEF MakerStates, w
      <3> HIDE DEF opened
      <3>3. maker'[m] = opened
        BY <1>1, <3>1
      <3> QED BY <2>1, <3>2, <3>3 DEF w, d
    <2>3. CASE CannotRender(m, s)
      <3>1. maker' = [maker EXCEPT ![m] = unread]
        BY <2>3 DEF CannotRender
      <3> HIDE DEF w, d, entry
      <3>2. unread.at = w.at /\ unread.doc = [w.doc EXCEPT ![s] = d]
        BY <1>1 DEF MakerStates, w
      <3> HIDE DEF unread
      <3>3. maker'[m] = unread
        BY <1>1, <3>1
      <3> QED BY <2>1, <3>2, <3>3 DEF w, d
    <2> QED BY <2>2, <2>3
  <1>4. Unopened(m)' = Unopened(m) \ {s} /\ s \in Unopened(m)
    BY <1>1, <1>2, <1>3 DEF Unopened, MakerStates
  <1>5. Cardinality(Unopened(m)') = Cardinality(Unopened(m)) - 1
    BY <1>4, MakerSetsAreFinite, FS_RemoveElement
  <1>6. MakerPlaceRank(m)' = MakerPlaceRank(m) /\ MakerPlaceRank(m) \in Nat
    BY <1>3 DEF MakerPlaceRank
  <1>7. /\ MakerRank(m)[1] = MakerPlaceRank(m)
        /\ MakerRank(m)'[1] = MakerPlaceRank(m)'
        /\ MakerRank(m)[2] = Cardinality(Unopened(m))
        /\ MakerRank(m)'[2] = Cardinality(Unopened(m)')
    BY DEF MakerRank
  <1>8. \A j \in 1..(2 - 1) : j = 1
    OBVIOUS
  <1>9. Cardinality(Unopened(m)) \in Nat
    BY MakerSetsAreFinite
  <1> HIDE DEF MakerRank, MakerPlaceRank, Unopened
  <1> QED BY <1>5, <1>6, <1>7, <1>8, <1>9 DEF MakerFallsAt

\* An item that is made or has failed is not left to make.
LEMMA MakerMakes ==
  ASSUME FactoryTypeOK, NEW m \in Makers, NEW s \in Sources,
         MakesItem(m, s) \/ ItemFails(m, s)
  PROVE  MakerFallsAt(m, 3)
  <1>1. maker[m] \in MakerStates /\ maker \in [Makers -> MakerStates]
    BY DEF FactoryTypeOK
  <1>2. PICK i \in Items :
          /\ i \in maker[m].left[s] /\ maker'[m].at = maker[m].at
          /\ maker'[m].doc = maker[m].doc
          /\ maker'[m].left = [maker[m].left EXCEPT ![s] = @ \ {i}]
    <2> DEFINE w == maker[m]
               makes(i) == [w EXCEPT !.left[s] = @ \ {i},
                              !.made = @ \cup {RowOf(w.doc[s], s, i, TRUE)}]
               fails(i) == [w EXCEPT !.left[s] = @ \ {i}, !.disturbed = TRUE,
                              !.made = @ \cup {RowOf(w.doc[s], s, i, FALSE)}]
    <2>1. PICK i \in Items :
            /\ i \in w.left[s]
            /\ \/ maker' = [maker EXCEPT ![m] = makes(i)]
               \/ maker' = [maker EXCEPT ![m] = fails(i)]
      <3>1. CASE MakesItem(m, s)
        BY <3>1 DEF MakesItem, NextItem
      <3>2. CASE ItemFails(m, s)
        BY <3>2 DEF ItemFails, NextItem
      <3> QED BY <3>1, <3>2
    <2> HIDE DEF w
    <2>2. /\ makes(i).at = w.at /\ makes(i).doc = w.doc
          /\ makes(i).left = [w.left EXCEPT ![s] = @ \ {i}]
          /\ fails(i).at = w.at /\ fails(i).doc = w.doc
          /\ fails(i).left = [w.left EXCEPT ![s] = @ \ {i}]
      BY <1>1 DEF MakerStates, w
    <2> HIDE DEF makes, fails
    <2>3. maker'[m] = makes(i) \/ maker'[m] = fails(i)
      BY <1>1, <2>1
    <2> QED BY <2>1, <2>2, <2>3 DEF w
  <1>3. LeftToMake(m)' = LeftToMake(m) \ {<<s, i>>} /\ <<s, i>> \in LeftToMake(m)
    <2>1. <<s, i>> \in LeftToMake(m)
      BY <1>2 DEF LeftToMake
    <2>2. \A r \in Sources : maker'[m].left[r]
            = IF r = s THEN maker[m].left[s] \ {i} ELSE maker[m].left[r]
      BY <1>1, <1>2 DEF MakerStates
    <2>3. \A x \in Sources \X Items :
            x \in LeftToMake(m)' <=> x \in LeftToMake(m) /\ x # <<s, i>>
      BY <2>2 DEF LeftToMake
    <2>4. /\ LeftToMake(m)' \subseteq Sources \X Items
          /\ LeftToMake(m) \subseteq Sources \X Items
      BY DEF LeftToMake
    <2> HIDE DEF LeftToMake
    <2> QED BY <2>1, <2>3, <2>4
  <1>4. Cardinality(LeftToMake(m)') = Cardinality(LeftToMake(m)) - 1
    BY <1>3, MakerSetsAreFinite, FS_RemoveElement
  <1>5. Unopened(m)' = Unopened(m)
    BY <1>2 DEF Unopened
  <1>6. MakerPlaceRank(m)' = MakerPlaceRank(m) /\ MakerPlaceRank(m) \in Nat
    BY <1>2 DEF MakerPlaceRank
  <1>7. /\ MakerRank(m)[1] = MakerPlaceRank(m)
        /\ MakerRank(m)'[1] = MakerPlaceRank(m)'
        /\ MakerRank(m)[2] = Cardinality(Unopened(m))
        /\ MakerRank(m)'[2] = Cardinality(Unopened(m)')
        /\ MakerRank(m)[3] = Cardinality(LeftToMake(m))
        /\ MakerRank(m)'[3] = Cardinality(LeftToMake(m)')
    BY DEF MakerRank
  <1>8. \A j \in 1..(3 - 1) : j = 1 \/ j = 2
    OBVIOUS
  <1>9. Cardinality(Unopened(m)) \in Nat /\ Cardinality(LeftToMake(m)) \in Nat
    BY MakerSetsAreFinite
  <1> HIDE DEF MakerRank, MakerPlaceRank, Unopened, LeftToMake
  <1> QED BY <1>4, <1>5, <1>6, <1>7, <1>8, <1>9 DEF MakerFallsAt

\* The rank of a process is of its place, its sources and its items alone.
LEMMA MakerRankKept ==
  ASSUME NEW m, maker'[m].at = maker[m].at, maker'[m].doc = maker[m].doc,
         maker'[m].left = maker[m].left
  PROVE  MakerRank(m)' = MakerRank(m)
  <1>1. MakerPlaceRank(m)' = MakerPlaceRank(m)
    BY DEF MakerPlaceRank
  <1>2. Unopened(m)' = Unopened(m) /\ LeftToMake(m)' = LeftToMake(m)
    BY DEF Unopened, LeftToMake
  <1> HIDE DEF Unopened, LeftToMake
  <1> QED BY <1>1, <1>2 DEF MakerRank

LEMMA MakersApart ==
  ASSUME FactoryTypeOK, [FactoryNext]_factoryVars, NEW m \in Makers,
         ~ Launches(m), ~ Resumes(m), ~ WorkOf(m)
  PROVE  MakerRank(m)' = MakerRank(m)
  <1>1. maker[m] \in MakerStates /\ maker \in [Makers -> MakerStates]
    BY DEF FactoryTypeOK
  <1>2. CASE UNCHANGED factoryVars
    BY <1>2, MakerRankKept DEF factoryVars
  <1>3. CASE LosesOutput \/ EditsSource
    <2>1. maker'[m] = [maker[m] EXCEPT !.disturbed = TRUE]
      BY <1>3 DEF LosesOutput, EditsSource, Disturbs
    <2> QED BY <1>1, <2>1, MakerRankKept DEF MakerStates
  <1>4. ASSUME NEW n \in Makers, Launches(n) \/ Resumes(n)
        PROVE  MakerRank(m)' = MakerRank(m)
    <2>1. m # n
      BY <1>4
    <2>2. maker'[m] = [maker[m] EXCEPT !.alone = FALSE]
      BY <1>4, <2>1 DEF Launches, Resumes, Joins
    <2> QED BY <1>1, <2>2, MakerRankKept DEF MakerStates
  <1>5. ASSUME NEW n \in Makers, WorkOf(n)
        PROVE  MakerRank(m)' = MakerRank(m)
    <2>1. m # n
      BY <1>5
    <2>2. maker'[m] = maker[m]
      BY <1>1, <1>5, <2>1
      DEF WorkOf, WritesListing, Exports, EndsWell, ReadsListing, FoldsPdf,
          Collapses, OpensSource, CannotRender, MakesItem, ItemFails
    <2> QED BY <2>2, MakerRankKept
  <1> QED BY <1>2, <1>3, <1>4, <1>5 DEF FactoryNext, WorkOf

\* A process that generates or resumes a run comes to its end, with or without
\* failures: while it works it has a step to take, whatever the others do,
\* and each of its steps, failures and crashes included, lowers a
\* rank of places, sources and items, which no step of another process, no loss
\* of an output and no edit of a source raises (generate_run,
\* _process_document).
THEOREM FactoryRunsEnd ==
  FactorySpec => []MakersGoOn /\ [][MakersNearEnd]_factoryVars
  <1>1. FactoryIInv => MakersGoOn
    BY FactoryGoesOn DEF FactoryIInv
  <1>2. FactoryIInv /\ [FactoryNext]_factoryVars
          => [MakersNearEnd]_factoryVars
    <2> SUFFICES ASSUME FactoryIInv, [FactoryNext]_factoryVars
                 PROVE  MakersNearEnd
      OBVIOUS
    <2>1. FactoryTypeOK
      BY DEF FactoryIInv
    <2>2. ASSUME NEW m \in Makers, WorkOf(m)
          PROVE  \E i \in 1..3 : MakerFallsAt(m, i)
      <3>1. MakerFallsAt(m, 1) \/ MakerFallsAt(m, 2) \/ MakerFallsAt(m, 3)
        BY <2>1, <2>2, MakerLeavesPlace, MakerOpens, MakerMakes DEF WorkOf
      <3> QED BY <3>1
    <2> QED BY <2>1, <2>2, MakerRankIsNat, MakersApart DEF MakersNearEnd
  <1> QED BY <1>1, <1>2, FactoryInvariant, PTL DEF FactorySpec

-----------------------------------------------------------------------------
(* The parts together *)

\* A behaviour of the parts is one of each of them, but for what they assume
\* to be fair: what is safe in each part by itself is safe in the six together.
THEOREM PartsAreSix ==
  Spec => /\ PagesSpec /\ ResultsSpec /\ FactorySpec /\ DatasetSpec
          /\ TasksInit /\ [][TasksNext]_tasksVars
          /\ TrainingInit /\ [][TrainingNext]_trainingVars
  <1>1. Init => /\ PagesInit /\ ResultsInit /\ FactoryInit /\ DatasetInit
                /\ TasksInit /\ TrainingInit
    BY DEF Init
  <1>2. [Next]_vars
          => /\ [PagesNext]_pagesVars /\ [ResultsNext]_resultsVars
             /\ [FactoryNext]_factoryVars /\ [DatasetNext]_datasetVars
             /\ [TasksNext]_tasksVars /\ [TrainingNext]_trainingVars
    <2> SUFFICES ASSUME [Next]_vars
                 PROVE  /\ [PagesNext]_pagesVars /\ [ResultsNext]_resultsVars
                        /\ [FactoryNext]_factoryVars
                        /\ [DatasetNext]_datasetVars
                        /\ [TasksNext]_tasksVars /\ [TrainingNext]_trainingVars
      OBVIOUS
    <2>1. CASE UNCHANGED vars
      BY <2>1 DEF vars
    <2>2. CASE Of("pages", PagesNext)
      BY <2>2 DEF Of, Others
    <2>3. CASE Of("tasks", TasksNext)
      BY <2>3 DEF Of, Others
    <2>4. CASE Of("training", TrainingNext)
      BY <2>4 DEF Of, Others
    <2>5. CASE Of("results", ResultsNext)
      BY <2>5 DEF Of, Others
    <2>6. CASE Of("factory", FactoryNext)
      BY <2>6 DEF Of, Others
    <2>7. CASE Of("dataset", DatasetNext)
      BY <2>7 DEF Of, Others
    <2> QED
      BY <2>1, <2>2, <2>3, <2>4, <2>5, <2>6, <2>7 DEF Next
  <1> QED
    BY <1>1, <1>2, PTL DEF Spec, PagesSpec, ResultsSpec, FactorySpec,
                           DatasetSpec

\* The pages, records, checkpoints, bundles, manifests and tables of the parts
\* always hold one of their values (PartsTypeOK).
THEOREM PartsTyped == Spec => []PartsTypeOK
  <1>1. TasksIInv /\ [TasksNext]_tasksVars => TasksIInv'
    BY TasksStep
  <1>2. TrainingIInv /\ [TrainingNext]_trainingVars => TrainingIInv'
    BY TrainingStep
  <1>3. TasksIInv /\ TrainingIInv => TasksTypeOK /\ TrainingTypeOK
    BY DEF TasksIInv, TrainingIInv
  <1>4. PagesTypeOK /\ TasksTypeOK /\ TrainingTypeOK /\ ResultsTypeOK
          /\ FactoryTypeOK /\ DatasetTypeOK => PartsTypeOK
    BY DEF PartsTypeOK
  <1> QED
    BY <1>1, <1>2, <1>3, <1>4, PartsAreSix, PagesTypeCorrect, TasksInitial,
       TrainingInitial, ResultsTypeCorrect, FactoryTyped, DatasetTyped, PTL
=============================================================================
