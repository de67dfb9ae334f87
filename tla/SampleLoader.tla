---------------------------- MODULE SampleLoader ----------------------------
(***************************************************************************)
(* The streaming loader of training data as a trainer uses it: the         *)
(* generator of samples with its cursor, the batches, an optional prefetch *)
(* thread, and a trainer that saves the cursor with its checkpoints and    *)
(* goes back to the last of them after a crash.                            *)
(*                                                                         *)
(* The shuffle is any order of the shards and of the lines in each, one    *)
(* for each epoch; a restart finds the same orders, as they are derived    *)
(* from seed, epoch and topology.  Samples are named by their place in the *)
(* first epoch.  Rejected samples are left out.                            *)
(***************************************************************************)
EXTENDS Integers, Sequences, FiniteSets, Functions

CONSTANTS
    ShardCount,
    PerShard,     \* samples of a shard
    BatchSize,
    Depths,       \* prefetch depths, 0 for none
    LastEpoch     \* bound on the epochs

ASSUME LoaderAssumption ==
    /\ ShardCount \in Nat \ {0} /\ PerShard \in Nat \ {0}
    /\ BatchSize \in Nat \ {0} /\ Depths \subseteq Nat /\ LastEpoch \in Nat

Epochs == 0..LastEpoch
Samples == (1..ShardCount) \X (1..PerShard)
Orders(n) == {p \in [1..n -> 1..n] : \A i, j \in 1..n : i # j => p[i] # p[j]}

VARIABLES
    visit,     \* the order of the shards in each epoch
    lines,     \* the order of the lines of each shard in each epoch
    owned,     \* the samples of this rank and worker
    dropLast,  \* BatchConfig.drop_last
    depth,     \* PrefetchConfig.depth, 0 without prefetch
    cursor,    \* _epoch, _shard_position, _sample_position
    gen,       \* the running generator: shard index, seen_in_shard, skipping
    buffer,    \* the batch it is filling
    queue,     \* batches between it and the trainer
    asking,    \* the trainer waits for a batch
    trained,   \* what the model was trained on, by epoch
    saved,     \* the last checkpoint: cursor and model
    crashed    \* the trainer was restarted (history)

configVars == <<visit, lines, owned, dropLast, depth>>
loaderVars == <<configVars, cursor, gen, buffer, queue, asking, trained,
                saved, crashed>>

NoGen == [at |-> "off", epoch |-> 0, shard |-> 0, seen |-> 0, skips |-> FALSE]

Sample(e, i, k) ==
    <<visit[e][i], lines[e][visit[e][i]][k]>>

-----------------------------------------------------------------------------
(* iter_samples and iter_batches *)

\* The generator runs while its batch is not full; without prefetch only as
\* long as the trainer waits.
GenRuns ==
    /\ gen.at = "reading" /\ Len(buffer) < BatchSize
    /\ depth = 0 => asking /\ queue = <<>>

Opens ==
    /\ gen.at = "off" /\ queue = <<>> /\ cursor.epoch <= LastEpoch
    /\ asking
    /\ gen' = [at |-> "reading", epoch |-> cursor.epoch, shard |-> 0,
               seen |-> 0, skips |-> cursor.shard = 0 /\ cursor.sample > 0]
    /\ UNCHANGED <<configVars, cursor, buffer, queue, asking, trained, saved,
                   crashed>>

\* The next shard of the order, the cursor's only from where it stopped
MovesOn(shard, position) ==
    gen' = [gen EXCEPT !.shard = shard, !.seen = 0,
                       !.skips = position.shard = shard /\ position.sample > 0]

SkipsShard ==
    /\ GenRuns /\ gen.shard < cursor.shard
    /\ MovesOn(gen.shard + 1, cursor)
    /\ UNCHANGED <<configVars, cursor, buffer, queue, asking, trained, saved,
                   crashed>>

\* Mutant: the sample at the cursor is read again.
SkipsBefore(k) == gen.skips /\ k < cursor.sample

\* Delivered before the cursor was saved
SkipsUpTo(k) == gen.skips /\ k <= cursor.sample

\* Mutant: the cursor counts the samples delivered.
CountsDelivered(k) == cursor.sample + 1

\* The cursor counts every sample seen in the shard, owned or not.
CursorAt(k) == k

Reads ==
    LET k == gen.seen + 1
        sample == Sample(gen.epoch, gen.shard + 1, k)
    IN  /\ GenRuns /\ gen.shard \in cursor.shard..(ShardCount - 1)
        /\ gen.seen < PerShard
        /\ gen' = [gen EXCEPT !.seen = k]
        /\ IF SkipsUpTo(k) \/ sample \notin owned
             THEN UNCHANGED <<cursor, buffer>>
             ELSE /\ cursor' = [cursor EXCEPT !.sample = CursorAt(k)]
                  /\ buffer' = Append(buffer, sample)
        /\ UNCHANGED <<configVars, queue, asking, trained, saved, crashed>>

EndsShard ==
    /\ GenRuns /\ gen.shard \in cursor.shard..(ShardCount - 1)
    /\ gen.seen = PerShard
    /\ cursor' = [cursor EXCEPT !.shard = gen.shard + 1, !.sample = 0]
    /\ MovesOn(gen.shard + 1, cursor')
    /\ UNCHANGED <<configVars, buffer, queue, asking, trained, saved, crashed>>

\* The epoch advances; what the buffer holds is the last batch, unless it is
\* dropped.
EndsEpoch ==
    /\ GenRuns /\ gen.shard = ShardCount
    /\ cursor' = [epoch |-> gen.epoch + 1, shard |-> 0, sample |-> 0]
    /\ gen' = [gen EXCEPT !.at = IF buffer # <<>> /\ ~dropLast THEN "last"
                                                               ELSE "off"]
    /\ buffer' = IF dropLast THEN <<>> ELSE buffer
    /\ UNCHANGED <<configVars, queue, asking, trained, saved, crashed>>

Room == IF depth = 0 THEN asking /\ queue = <<>> ELSE Len(queue) < depth

\* A batch goes to the trainer, or to the queue while there is room.
Puts ==
    /\ Len(buffer) = BatchSize \/ gen.at = "last"
    /\ Room
    /\ queue' = Append(queue, [epoch |-> gen.epoch, samples |-> buffer])
    /\ buffer' = <<>>
    /\ gen' = IF gen.at = "last" THEN [gen EXCEPT !.at = "off"] ELSE gen
    /\ UNCHANGED <<configVars, cursor, asking, trained, saved, crashed>>

-----------------------------------------------------------------------------
(* The trainer *)

Asks ==
    /\ ~asking /\ asking' = TRUE
    /\ UNCHANGED <<configVars, cursor, gen, buffer, queue, trained, saved,
                   crashed>>

Trains ==
    /\ asking /\ queue # <<>>
    /\ trained' = [trained EXCEPT ![Head(queue).epoch] =
                       @ \o Head(queue).samples]
    /\ queue' = Tail(queue) /\ asking' = FALSE
    /\ UNCHANGED <<configVars, cursor, gen, buffer, saved, crashed>>

\* LoaderCheckpointHook.attach_to_state, between two batches
Saves ==
    /\ ~asking
    /\ saved' = [cursor |-> cursor, trained |-> trained]
    /\ UNCHANGED <<configVars, cursor, gen, buffer, queue, asking, trained,
                   crashed>>

\* The process ends and a new one restores the checkpoint.
Crashes ==
    /\ cursor' = saved.cursor /\ trained' = saved.trained
    /\ gen' = NoGen /\ buffer' = <<>> /\ queue' = <<>> /\ asking' = FALSE
    /\ crashed' = TRUE
    /\ UNCHANGED <<configVars, saved>>

-----------------------------------------------------------------------------
LoaderInit ==
    /\ visit \in [Epochs -> Orders(ShardCount)]
    /\ lines \in [Epochs -> [1..ShardCount -> Orders(PerShard)]]
    /\ \A i \in 1..ShardCount : visit[0][i] = i
    /\ \A i \in 1..ShardCount, k \in 1..PerShard : lines[0][i][k] = k
    /\ owned \in SUBSET Samples
    /\ dropLast \in BOOLEAN
    /\ depth \in Depths
    /\ cursor = [epoch |-> 0, shard |-> 0, sample |-> 0]
    /\ gen = NoGen
    /\ buffer = <<>> /\ queue = <<>> /\ asking = FALSE
    /\ trained = [e \in Epochs |-> <<>>]
    /\ saved = [cursor |-> cursor, trained |-> trained]
    /\ crashed = FALSE

LoaderNext ==
    \/ Opens \/ SkipsShard \/ Reads \/ EndsShard \/ EndsEpoch \/ Puts
    \/ Asks \/ Trains \/ Saves \/ Crashes

LoaderSpec == LoaderInit /\ [][LoaderNext]_loaderVars

-----------------------------------------------------------------------------
(* Properties *)

\* s comes before t in the order of an epoch.
Precedes(e, s, t) ==
    \E i, j \in 1..ShardCount, k, l \in 1..PerShard :
        /\ s = Sample(e, i, k) /\ t = Sample(e, j, l)
        /\ i < j \/ (i = j /\ k < l)

InOrder(e, seq) ==
    \A m, n \in 1..Len(seq) : m < n => Precedes(e, seq[m], seq[n])

\* The owned samples of an epoch in their order, up to some place
IsBeginning(e, seq) ==
    /\ Range(seq) \subseteq owned /\ InOrder(e, seq)
    /\ \A s \in owned, t \in Range(seq) :
          Precedes(e, s, t) => s \in Range(seq)

\* The cursor and the queue stay in range: prefetch holds at most its depth.
LoaderTypeOK ==
    /\ cursor.epoch \in 0..(LastEpoch + 1) /\ cursor.shard \in 0..ShardCount
    /\ cursor.sample \in 0..PerShard
    /\ gen.shard \in 0..ShardCount /\ gen.seen \in 0..PerShard
    /\ Len(buffer) <= BatchSize
    /\ Len(queue) <= IF depth = 0 THEN 1 ELSE depth

\* The model is trained on the samples of an epoch in the one order of that
\* epoch, none twice and none passed over, through any number of crashes and
\* restarts (iter_samples, restore); with prefetch only as long as nothing is
\* restored (README, section 6).
TrainsInOrder ==
    depth = 0 \/ ~crashed =>
        \A e \in Epochs : IsBeginning(e, trained[e])

\* Before the trainer begins an epoch it has been trained on the whole one
\* before, up to the batch that drop_last leaves out.
EpochIsCovered ==
    depth = 0 \/ ~crashed =>
        \A e \in Epochs :
            gen.at = "reading" /\ e < gen.epoch =>
                LET left == owned \ Range(trained[e])
                IN  IF dropLast THEN Cardinality(left) < BatchSize
                                ELSE left = {}

\* Together: every sample of an epoch once and in its order (iter_batches).
TrainsOnEpochs == TrainsInOrder /\ EpochIsCovered
=============================================================================
