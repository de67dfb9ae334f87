-------------------------- MODULE DatasetWorkspace --------------------------
(***************************************************************************)
(* The workspace a training dataset is prepared in: the manifest of its    *)
(* samples, the export files of the splits, and the commands that read the *)
(* manifest, compute new rows and write both (prepare, validate,           *)
(* normalize, dedupe, split, export).  A command may end at any step.      *)
(*                                                                         *)
(* What is known of a sample is its group, its source record, the hash of  *)
(* its file and, under a normalization policy, of its text; a hash is      *)
(* named by a sample that has it.  Samples and groups are numbered in the  *)
(* order of their keys.  A warning is an "ok", and sample ids are unique.  *)
(* The split of a group on its own is the hash of the seed and the group   *)
(* cut at the ratios, here an arbitrary function Place.                    *)
(***************************************************************************)
EXTENDS Integers, FiniteSets

CONSTANTS
    SampleCount,
    GroupCount,
    Policies,      \* normalization policies
    Corpora,       \* what may be known of the samples
    Seeds,
    Ratios,
    Place,         \* _split_for_key
    DefaultSeed,   \* of PreparationConfig
    NoSeed,
    MaxCommands,   \* bound on the commands
    MaxSpoiled     \* bound on the samples that spoil

SampleIds == 1..SampleCount
Groups == 1..GroupCount
Splits == {"train", "test", "holdout"}     \* validation is one as test is

Corpus == [group : [SampleIds -> Groups], record : [SampleIds -> SampleIds],
           file : [SampleIds -> SampleIds],
           text : [Policies -> [SampleIds -> SampleIds]]]

ASSUME DatasetAssumption ==
    /\ SampleCount \in Nat \ {0} /\ GroupCount \in Nat /\ MaxCommands \in Nat
    /\ MaxSpoiled \in Nat
    /\ Corpora \subseteq Corpus
    /\ Place \in [Seeds \X Ratios \X Groups -> Splits]
    /\ DefaultSeed \in Seeds /\ NoSeed \notin Seeds /\ Ratios # {}

VARIABLES
    corpus,     \* what is known of the samples
    present,    \* the samples found in the registered sources
    spoiled,    \* those that do not pass the validation any more
    prepared,   \* the manifest exists
    table,      \* its rows
    seedOf,     \* split_seed in its header
    exported,   \* of each split, the samples in its export file
    stale,      \* the files were not made or removed since the manifest's last
                \* write, or only in part (history)
    command,    \* what the command under way has read and computed
    commands

diskVars == <<corpus, present, spoiled>>
manifestVars == <<prepared, table, seedOf>>
exportVars == <<exported, stale>>
datasetVars == <<diskVars, manifestVars, exportVars, command, commands>>

DuplicateStates == {"unique", "canonical", "duplicate", "conflicting"}
SampleRow == [status : {"none", "ok", "error"}, text : SampleIds,
              dup : DuplicateStates, of : SampleIds \cup {0},
              split : Splits \cup {"unassigned"}]
Tables == [SampleIds -> SampleRow]

NoTable == [s \in SampleIds |-> [status |-> "none", text |-> 1,
              dup |-> "unique", of |-> 0, split |-> "unassigned"]]
NoFiles == [p \in Splits |-> {}]

IsIn(t, s) == t[s].status # "none"
IsActive(t, s) == t[s].status = "ok"

\* A command that holds the rows t.  It has merged nothing yet; noted is the
\* seed it writes to the header, anew says that it looks at no split of before.
CommandAt(place, then, t, anew, seed, noted, ratio) ==
    [at |-> place, then |-> then, rows |-> t, anew |-> anew,
     seed |-> seed, noted |-> noted, ratio |-> ratio,
     unread |-> {s \in SampleIds : IsActive(t, s)},
     unlinked |-> {s \in SampleIds : IsActive(t, s) /\ t[s].of # 0},
     owner |-> [k \in {"file", "text"} |-> [h \in SampleIds |-> 0]],
     root |-> [g \in Groups |-> g],
     files |-> NoFiles, todo |-> {}]

\* A command that only writes rows without splits
Rewrites(t, noted) ==
    CommandAt("writing", "clear", t, TRUE, DefaultSeed, noted,
              CHOOSE r \in Ratios : TRUE)

NoCommand == [Rewrites(NoTable, NoSeed) EXCEPT !.at = "none"]

-----------------------------------------------------------------------------
(* Rows: validation, normalization and classify_duplicates *)

\* apply_validation
StatusNow(s) == IF s \in spoiled THEN "error" ELSE "ok"

\* Rows whose duplicates and splits are forgotten
Reset(t) == [s \in SampleIds |->
    [t[s] EXCEPT !.dup = "unique", !.of = 0, !.split = "unassigned"]]

Unassigned(t) == [s \in SampleIds |-> [t[s] EXCEPT !.split = "unassigned"]]

\* _build_samples, of every registered source
Built(policy) == [s \in SampleIds |->
    IF s \in present
      THEN [status |-> StatusNow(s), text |-> corpus.text[policy][s],
            dup |-> "unique", of |-> 0, split |-> "unassigned"]
      ELSE NoTable[s]]

Validated(t) == [s \in SampleIds |->
    IF IsIn(t, s) THEN [t[s] EXCEPT !.status = StatusNow(s)] ELSE t[s]]

Normalized(t, policy) == [s \in SampleIds |->
    IF IsIn(t, s) THEN [t[s] EXCEPT !.text = corpus.text[policy][s]] ELSE t[s]]

\* signals: the record and the file
SameSignal(r, s) ==
    corpus.record[r] = corpus.record[s] \/ corpus.file[r] = corpus.file[s]

\* A connected component of the rows under SameSignal
Family(t, s) ==
    LET In == {r \in SampleIds : IsIn(t, r)}
        IsClosed(F) == \A r \in F, q \in In : SameSignal(r, q) => q \in F
    IN {q \in In : \A F \in SUBSET In : s \in F /\ IsClosed(F) => q \in F}

\* canonical_key: rows in error come last
Precedes(t, r, s) ==
    IF IsActive(t, r) = IsActive(t, s) THEN r <= s ELSE IsActive(t, r)

Canonical(t, F) == CHOOSE r \in F : \A s \in F : Precedes(t, r, s)

IsDuplicate(t, s) == Canonical(t, Family(t, s)) # s

\* by_text_hash
TextFamily(t, s) ==
    {r \in SampleIds :
        IsIn(t, r) /\ ~ IsDuplicate(t, r) /\ t[r].text = t[s].text}

Conflicts(t, s) ==
    /\ \E r, q \in TextFamily(t, s) : corpus.file[r] # corpus.file[q]
    /\ Canonical(t, TextFamily(t, s)) # s

Classified(t) == [s \in SampleIds |->
    IF ~ IsIn(t, s) THEN t[s]
    ELSE IF IsDuplicate(t, s)
      THEN [t[s] EXCEPT !.dup = "duplicate", !.of = Canonical(t, Family(t, s))]
    ELSE IF Conflicts(t, s)
      THEN [t[s] EXCEPT !.dup = "conflicting",
                        !.of = Canonical(t, TextFamily(t, s))]
    ELSE [t[s] EXCEPT !.dup = IF Family(t, s) = {s} THEN "unique"
                              ELSE "canonical",
                      !.of = 0]]

-----------------------------------------------------------------------------
(* The commands *)

CanBegin == command.at = "none" /\ commands < MaxCommands

BeginsAs(new) ==
    /\ CanBegin
    /\ command' = new
    /\ commands' = commands + 1
    /\ UNCHANGED <<diskVars, manifestVars, exportVars>>

\* prepare_dataset builds every row anew: what the manifest said of a sample's
\* split is not read.
PreparesAll(policy, seed, ratio) ==
    BeginsAs(CommandAt("merging", "export", Classified(Built(policy)), TRUE,
                       seed, seed, ratio))

\* validate_workspace writes no metadata: the seed is forgotten.
ValidatesAll == prepared /\ BeginsAs(Rewrites(Reset(Validated(table)), NoSeed))

NormalizesAll(policy) ==
    prepared /\ BeginsAs(Rewrites(Reset(Normalized(table, policy)), seedOf))

DedupesAll ==
    prepared /\ BeginsAs(Rewrites(Unassigned(Classified(table)), seedOf))

\* split_workspace: with an explicit seed every group is placed anew...
SplitsAnew(seed, ratio) ==
    /\ prepared
    /\ BeginsAs(CommandAt("merging", "clear", Unassigned(table), TRUE,
                          seed, seed, ratio))

\* ... and without one splits are kept, and the recorded seed or the default is
\* used, but not noted.
SplitsMore(ratio) ==
    /\ prepared
    /\ BeginsAs(CommandAt("merging", "clear", table, FALSE,
                        IF seedOf # NoSeed THEN seedOf ELSE DefaultSeed,
                        seedOf, ratio))

-----------------------------------------------------------------------------
(* assign_splits *)

GroupOf(s) == corpus.group[s]

\* _UnionFind.union: the larger root goes under the smaller one.
Union(root, g, h) ==
    LET small == IF root[g] <= root[h] THEN root[g] ELSE root[h]
        large == IF root[g] <= root[h] THEN root[h] ELSE root[g]
    IN [k \in Groups |-> IF root[k] = large THEN small ELSE root[k]]

\* hash_owner.setdefault
OwnerNow(kind, h, g) ==
    IF command.owner[kind][h] = 0 THEN g ELSE command.owner[kind][h]

HashOf(kind, s) ==
    IF kind = "file" THEN corpus.file[s] ELSE command.rows[s].text

IsNextOf(set, s) ==
    /\ s \in set
    /\ \A r \in set \ {s} :
        \/ GroupOf(s) < GroupOf(r)
        \/ GroupOf(s) = GroupOf(r) /\ s <= r

\* Mutant: only the hash of the file merges groups.
MergesFile(s) ==
    LET g == GroupOf(s)
        f == OwnerNow("file", HashOf("file", s), g)
    IN command' = [command EXCEPT
         !.unread = @ \ {s},
         !.owner["file"][HashOf("file", s)] = f,
         !.root = Union(@, f, g)]

MergesHashes(s) ==
    LET g == GroupOf(s)
        f == OwnerNow("file", HashOf("file", s), g)
        x == OwnerNow("text", HashOf("text", s), g)
    IN command' = [command EXCEPT
         !.unread = @ \ {s},
         !.owner["file"][HashOf("file", s)] = f,
         !.owner["text"][HashOf("text", s)] = x,
         !.root = Union(Union(@, f, g), x, g)]

MergesSample(s) ==
    /\ command.at = "merging" /\ IsNextOf(command.unread, s)
    /\ MergesHashes(s)
    /\ UNCHANGED <<diskVars, manifestVars, exportVars, commands>>

\* duplicate_of; a canonical sample that is not active has no group here.
LinksDuplicate(s) ==
    /\ command.at = "merging" /\ command.unread = {}
    /\ s \in command.unlinked /\ \A r \in command.unlinked : s <= r
    /\ LET c == command.rows[s].of IN
       command' = [command EXCEPT
         !.unlinked = @ \ {s},
         !.root = IF IsActive(command.rows, c)
                    THEN Union(@, GroupOf(s), GroupOf(c)) ELSE @]
    /\ UNCHANGED <<diskVars, manifestVars, exportVars, commands>>

\* The samples of a merged group
MembersOf(r) ==
    {s \in SampleIds :
        IsActive(command.rows, s) /\ command.root[GroupOf(s)] = r}

PriorSplits(r) ==
    {command.rows[s].split : s \in MembersOf(r)} \ {"unassigned"}

Anchor(r) ==
    CHOOSE g \in {GroupOf(s) : s \in MembersOf(r)} :
        \A s \in MembersOf(r) : g <= GroupOf(s)

\* Mutant: what was assigned before is placed anew.
PlacesAll(r) == Place[<<command.seed, command.ratio, Anchor(r)>>]

SplitFor(r) ==
    IF \E p \in Splits : PriorSplits(r) = {p}
      THEN CHOOSE p \in Splits : PriorSplits(r) = {p}
      ELSE Place[<<command.seed, command.ratio, Anchor(r)>>]

Assigned == [s \in SampleIds |->
    [command.rows[s] EXCEPT !.split =
        IF IsActive(command.rows, s) THEN SplitFor(command.root[GroupOf(s)])
        ELSE "unassigned"]]

AssignsSplits ==
    /\ command.at = "merging"
    /\ command.unread = {} /\ command.unlinked = {}
    /\ command' = [command EXCEPT !.rows = Assigned, !.at = "writing"]
    /\ UNCHANGED <<diskVars, manifestVars, exportVars, commands>>

-----------------------------------------------------------------------------
(* Files *)

\* write_manifest
WritesTable ==
    /\ command.at = "writing"
    /\ prepared' = TRUE /\ table' = command.rows /\ seedOf' = command.noted
    /\ stale' = TRUE
    /\ command' = [command EXCEPT !.at = command.then, !.todo = Splits]
    /\ UNCHANGED <<diskVars, exported, commands>>

\* select_exportable
Exportable(holdout, duplicates, p) ==
    {s \in SampleIds :
        /\ IsActive(table, s) /\ table[s].split = p
        /\ p = "holdout" => holdout
        /\ table[s].dup = "duplicate" => duplicates}

SelectsRows(holdout, duplicates) ==
    command' = [command EXCEPT !.at = "files", !.todo = Splits,
        !.files = [p \in Splits |-> Exportable(holdout, duplicates, p)]]

\* export_workspace, at the end of a prepare or as a command
SelectsPrepared(holdout, duplicates) ==
    /\ command.at = "export"
    /\ SelectsRows(holdout, duplicates)
    /\ UNCHANGED <<diskVars, manifestVars, exportVars, commands>>

ExportsAll(holdout, duplicates) ==
    /\ CanBegin /\ prepared
    /\ SelectsRows(holdout, duplicates)
    /\ commands' = commands + 1
    /\ stale' = TRUE
    /\ UNCHANGED <<diskVars, manifestVars, exported>>

\* Files without a sample are removed first, train before holdout; then the
\* others are written by name.
Rank == [holdout |-> 1, test |-> 2, train |-> 3]

IsNextFile(p) ==
    /\ p \in command.todo
    /\ \A q \in command.todo \ {p} :
        IF command.files[q] = {}
          THEN command.files[p] = {} /\ Rank[p] > Rank[q]
          ELSE command.files[p] = {} \/ Rank[p] < Rank[q]

WritesFile(p) ==
    /\ command.at = "files" /\ IsNextFile(p)
    /\ exported' = [exported EXCEPT ![p] = command.files[p]]
    /\ command' = [command EXCEPT !.todo = @ \ {p}]
    /\ UNCHANGED <<diskVars, manifestVars, stale, commands>>

\* Mutant: the holdout file is not among those that are removed.
ClearedOpen == Splits \ {"holdout"}

Cleared == Splits

\* _invalidate_exports
ClearsFile(p) ==
    /\ command.at = "clear" /\ IsNextFile(p)
    /\ exported' = IF p \in Cleared THEN [exported EXCEPT ![p] = {}]
                   ELSE exported
    /\ command' = [command EXCEPT !.todo = @ \ {p}]
    /\ UNCHANGED <<diskVars, manifestVars, stale, commands>>

CommandEnds ==
    /\ command.at \in {"files", "clear"} /\ command.todo = {}
    /\ command' = NoCommand
    /\ stale' = FALSE
    /\ UNCHANGED <<diskVars, manifestVars, exported, commands>>

CommandDies ==
    /\ command.at # "none"
    /\ command' = NoCommand
    /\ UNCHANGED <<diskVars, manifestVars, exportVars, commands>>

-----------------------------------------------------------------------------
(* The sources *)

SampleArrives(s) ==
    /\ command.at = "none" /\ s \notin present
    /\ present' = present \cup {s}
    /\ UNCHANGED <<corpus, spoiled, manifestVars, exportVars, command,
                   commands>>

SampleSpoils(s) ==
    /\ command.at = "none" /\ s \in present \ spoiled
    /\ Cardinality(spoiled) < MaxSpoiled
    /\ spoiled' = spoiled \cup {s}
    /\ UNCHANGED <<corpus, present, manifestVars, exportVars, command,
                   commands>>

-----------------------------------------------------------------------------
DatasetInit ==
    /\ corpus \in Corpora
    /\ present \in SUBSET SampleIds /\ spoiled \in SUBSET present
    /\ prepared = FALSE /\ table = NoTable /\ seedOf = NoSeed
    /\ exported = NoFiles /\ stale = FALSE
    /\ command = NoCommand /\ commands = 0

DatasetNext ==
    \/ \E seed \in Seeds, ratio \in Ratios :
        \/ \E policy \in Policies : PreparesAll(policy, seed, ratio)
        \/ SplitsAnew(seed, ratio)
    \/ \E ratio \in Ratios : SplitsMore(ratio)
    \/ ValidatesAll \/ DedupesAll
    \/ \E policy \in Policies : NormalizesAll(policy)
    \/ AssignsSplits \/ WritesTable
    \/ \E holdout, duplicates \in BOOLEAN :
        \/ SelectsPrepared(holdout, duplicates)
        \/ ExportsAll(holdout, duplicates)
    \/ \E p \in Splits : WritesFile(p) \/ ClearsFile(p)
    \/ CommandEnds \/ CommandDies
    \/ \E s \in SampleIds :
        \/ MergesSample(s) \/ LinksDuplicate(s)
        \/ SampleArrives(s) \/ SampleSpoils(s)

DatasetSpec == DatasetInit /\ [][DatasetNext]_datasetVars

-----------------------------------------------------------------------------
(* Properties *)

CommandPlaces == {"none", "merging", "writing", "export", "clear", "files"}
CommandStates ==
    [at : CommandPlaces, then : {"export", "clear"}, rows : Tables,
     anew : BOOLEAN, seed : Seeds, noted : Seeds \cup {NoSeed}, ratio : Ratios,
     unread : SUBSET SampleIds, unlinked : SUBSET SampleIds,
     owner : [{"file", "text"} -> [SampleIds -> Groups \cup {0}]],
     root : [Groups -> Groups],
     files : [Splits -> SUBSET SampleIds], todo : SUBSET Splits]

\* Type invariant of a dataset workspace.
DatasetTypeOK ==
    /\ corpus \in Corpora
    /\ present \subseteq SampleIds /\ spoiled \subseteq SampleIds
    /\ prepared \in BOOLEAN /\ table \in Tables
    /\ seedOf \in Seeds \cup {NoSeed}
    /\ exported \in [Splits -> SUBSET SampleIds] /\ stale \in BOOLEAN
    /\ command \in CommandStates
    /\ commands \in 0..MaxCommands

\* What must not be in two splits at once
AreLinked(t, r, s) ==
    \/ GroupOf(r) = GroupOf(s)
    \/ corpus.file[r] = corpus.file[s]
    \/ t[r].text = t[s].text
    \/ t[r].of = s

\* No document, file, text or duplicate is in two splits of the manifest,
\* whatever commands wrote it and in what order (assign_splits).
NothingLeaks ==
    \A r, s \in SampleIds :
        /\ IsActive(table, r) /\ IsActive(table, s) /\ AreLinked(table, r, s)
        /\ table[r].split # "unassigned" /\ table[s].split # "unassigned"
        => table[r].split = table[s].split

\* The export files show what the manifest says, unless a command was broken
\* off after it wrote the manifest (export_workspace, _invalidate_exports).
ExportsFollow ==
    ~ stale => \A p \in Splits : \A s \in exported[p] :
        IsActive(table, s) /\ table[s].split = p

\* A split without an explicit seed moves nothing that has a split, not even
\* with other ratios (assign_splits, split_workspace).
SplitsAreSticky ==
    table' # table /\ ~ command.anew
        => \A s \in SampleIds :
             table[s].split \in {"unassigned", table'[s].split}

\* The splits of a workspace leak nothing, their files follow the manifest, and
\* splitting again moves nothing.
SplitsHold ==
    [](NothingLeaks /\ ExportsFollow) /\ [][SplitsAreSticky]_datasetVars
=============================================================================
