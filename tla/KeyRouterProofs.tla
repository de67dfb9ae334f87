--------------------------- MODULE KeyRouterProofs ---------------------------
(***************************************************************************)
(* Proofs about the circuits and the switches of the key router, for any   *)
(* numbers of operators, dispatches, providers and endpoints, any limits   *)
(* and any number of operations; and the parts of the router together.     *)
(*                                                                         *)
(* Switches: what an operator read is the row as long as the version is    *)
(* (ReadsOK), so a write acts on the row it checked; the epoch outruns     *)
(* every ticket and every ended switch (EpochOK, RowOK).                   *)
(* Circuits: a circuit that is not half open has no probe out, and the     *)
(* probes out of one that is are counted by the row until a failure sets   *)
(* the count back (ProbesOK).  There were as many failures as a row counts *)
(* since the circuit was last closed, and those lie in its window          *)
(* (HistoryOK).                                                            *)
(***************************************************************************)
EXTENDS MCKeyRouter, RouterDispatchProofs, SequenceTheorems

-----------------------------------------------------------------------------
(* Switches *)

ReadOK(o) ==
    doing[o].op # "none" =>
        /\ doing[o].read.version <= runtime.version
        /\ doing[o].read.version = runtime.version => doing[o].read = runtime
        /\ Allows(doing[o].read.state, Goal(doing[o].op))
        /\ doing[o].op = "complete_switch" =>
             ticket[o] # 0 /\ ticket[o] = doing[o].read.epoch

ReadsOK == \A o \in Operators : ReadOK(o)

EpochOK ==
    /\ runtime.epoch <= runtime.version
    /\ \A o \in Operators : ticket[o] <= runtime.epoch
    /\ \A e \in dead : e <= runtime.epoch

RowOK ==
    /\ runtime.state \in {"ACTIVE", "DRAINING", "CLOSED", "SWITCHING",
                          "DISABLED", "ERROR"}
    /\ runtime.state = "DISABLED" => runtime.epoch = 0
    /\ runtime.state \in {"ACTIVE", "DRAINING"} =>
         runtime.pending = Unassigned
    /\ runtime.state = "SWITCHING" =>
         /\ runtime.epoch # 0 /\ runtime.epoch \notin dead
         /\ runtime.pending = asked[runtime.epoch]

SwitchIInv == SwitchTypeOK /\ ReadsOK /\ EpochOK /\ RowOK

LEMMA SwitchInitial == SwitchInit => SwitchIInv
  <1> SUFFICES ASSUME SwitchInit PROVE SwitchIInv
    OBVIOUS
  <1> USE SwitchAssumption
  <1>1. \A s \in AccountStates : FirstRow(s) \in Runtimes
    BY DEF FirstRow, Runtimes
  <1>2. NoOperation \in Doing
    BY <1>1 DEF NoOperation, Doing, AccountStates
  <1>3. SwitchTypeOK
    BY <1>1, <1>2 DEF SwitchInit, SwitchTypeOK, AccountStates
  <1>4. \A o \in Operators : doing[o].op = "none"
    BY DEF SwitchInit, NoOperation
  <1>5. ReadsOK
    BY <1>4 DEF ReadsOK, ReadOK
  <1>6. EpochOK /\ RowOK
    BY DEF SwitchInit, EpochOK, RowOK, FirstRow
  <1> QED
    BY <1>3, <1>5, <1>6 DEF SwitchIInv

\* An operation that is read and checked
LEMMA SwitchReads ==
  ASSUME SwitchIInv, NEW o \in Operators, NEW op \in Operations,
         NEW acct \in SwitchTo \cup {Unassigned}, ReadsRow(o, op, acct)
  PROVE  SwitchIInv'
  <1> USE SwitchAssumption
  <1> DEFINE new == [op |-> op, read |-> runtime, for |-> acct]
  <1>1. /\ doing' = [doing EXCEPT ![o] = new] /\ TicketHolds(o, op)
        /\ Allows(runtime.state, Goal(op))
        /\ UNCHANGED <<runtime, ticket, asked, dead>>
    BY DEF ReadsRow
  <1>2. new \in Doing
    BY DEF Doing, SwitchIInv, SwitchTypeOK
  <1>3. SwitchTypeOK'
    BY <1>1, <1>2 DEF SwitchIInv, SwitchTypeOK
  <1>4. doing'[o] = new /\ \A p \in Operators \ {o} : doing'[p] = doing[p]
    BY <1>1 DEF SwitchIInv, SwitchTypeOK
  <1> HIDE DEF new
  <1>5. runtime.version \in Nat
    BY DEF SwitchIInv, SwitchTypeOK, Runtimes
  <1>6. ReadOK(o)'
    BY <1>1, <1>4, <1>5 DEF ReadOK, TicketHolds, new
  <1>7. \A p \in Operators \ {o} : ReadOK(p)'
    BY <1>1, <1>4 DEF SwitchIInv, ReadsOK, ReadOK
  <1>8. ReadsOK'
    BY <1>6, <1>7 DEF ReadsOK
  <1>9. EpochOK' /\ RowOK'
    BY <1>1 DEF SwitchIInv, EpochOK, RowOK
  <1> QED
    BY <1>3, <1>8, <1>9 DEF SwitchIInv

\* What a write makes of the row it read, field by field
LEMMA WrittenFields ==
  ASSUME NEW o \in Operators
  PROVE  LET row == doing[o].read
             op == doing[o].op
         IN  /\ Written(o).state = Goal(op)
             /\ Written(o).version = row.version + 1
             /\ Written(o).epoch = IF op = "begin_switch" THEN row.epoch + 1
                                                          ELSE row.epoch
             /\ op = "close_drained" => Written(o).active = Unassigned
             /\ op = "complete_switch" => /\ Written(o).active = row.pending
                                          /\ Written(o).pending = Unassigned
             /\ op \notin {"close_drained", "complete_switch"} =>
                  Written(o).active = row.active
             /\ op = "begin_switch" => Written(o).pending = doing[o].for
             /\ op \notin {"begin_switch", "complete_switch"} =>
                  Written(o).pending = row.pending
  BY DEF Written, EpochWritten, NextVersion

LEMMA GoalStates ==
  ASSUME NEW op \in Operations
  PROVE  /\ op = "start_drain" => Goal(op) = "DRAINING"
         /\ op = "close_drained" => Goal(op) = "CLOSED"
         /\ op = "begin_switch" => Goal(op) = "SWITCHING"
         /\ op = "complete_switch" => Goal(op) = "ACTIVE"
         /\ op = "fail_switch" => Goal(op) = "ERROR"
  BY DEF Goal, Operations

\* A write acts on the row it read: its version is still that row's
\* (compare_and_set_runtime).
LEMMA WritesWhatItRead ==
  ASSUME SwitchIInv, NEW o \in Operators, Writes(o)
  PROVE  /\ doing[o].op \in Operations /\ doing[o].read = runtime
         /\ doing[o].for \in SwitchTo \cup {Unassigned}
         /\ runtime \in Runtimes /\ runtime' = Written(o)
         /\ Allows(runtime.state, Goal(doing[o].op))
         /\ doing' = [doing EXCEPT ![o] = NoOperation]
         /\ doing'[o] = NoOperation
         /\ \A p \in Operators \ {o} : doing'[p] = doing[p]
  <1>1. /\ doing[o].op # "none" /\ runtime.version = doing[o].read.version
        /\ runtime' = Written(o)
        /\ doing' = [doing EXCEPT ![o] = NoOperation]
    BY DEF Writes, Unchanged
  <1>2. doing \in [Operators -> Doing] /\ runtime \in Runtimes
    BY DEF SwitchIInv, SwitchTypeOK
  <1>3. doing[o].op \in Operations /\ doing[o].for \in SwitchTo \cup {Unassigned}
    BY <1>1, <1>2 DEF Doing
  <1>4. doing[o].read = runtime /\ Allows(runtime.state, Goal(doing[o].op))
    BY <1>1 DEF SwitchIInv, ReadsOK, ReadOK
  <1> QED
    BY <1>1, <1>2, <1>3, <1>4

\* A write of the row
LEMMA SwitchWrites ==
  ASSUME SwitchIInv, NEW o \in Operators, Writes(o)
  PROVE  SwitchIInv'
  <1> USE SwitchAssumption
  <1> DEFINE op == doing[o].op
  <1>1. /\ op \in Operations /\ runtime \in Runtimes
        /\ doing[o].for \in SwitchTo \cup {Unassigned}
        /\ Allows(runtime.state, Goal(op))
        /\ doing' = [doing EXCEPT ![o] = NoOperation]
        /\ doing'[o] = NoOperation
        /\ \A p \in Operators \ {o} : doing'[p] = doing[p]
    BY WritesWhatItRead
  <1>2. /\ runtime' = Written(o) /\ runtime'.state = Goal(op)
        /\ runtime'.version = runtime.version + 1
        /\ runtime'.epoch = IF op = "begin_switch" THEN runtime.epoch + 1
                                                   ELSE runtime.epoch
        /\ op = "close_drained" => runtime'.active = Unassigned
        /\ op = "complete_switch" => /\ runtime'.active = runtime.pending
                                     /\ runtime'.pending = Unassigned
        /\ op \notin {"close_drained", "complete_switch"} =>
             runtime'.active = runtime.active
        /\ op = "begin_switch" => runtime'.pending = doing[o].for
        /\ op \notin {"begin_switch", "complete_switch"} =>
             runtime'.pending = runtime.pending
    BY WrittenFields, WritesWhatItRead
  <1>3. /\ runtime.version \in 0..MaxVersion /\ runtime.epoch \in 0..MaxVersion
        /\ runtime.version < MaxVersion /\ runtime.epoch <= runtime.version
        /\ runtime.pending \in SwitchTo \cup {Unassigned}
        /\ runtime.active \in SwitchTo \cup {Unassigned}
    BY <1>1 DEF Writes, Runtimes, SwitchIInv, EpochOK
  <1>4. /\ runtime'.version \in 0..MaxVersion /\ runtime'.epoch \in 0..MaxVersion
        /\ runtime'.epoch <= runtime'.version /\ runtime'.epoch >= runtime.epoch
    BY <1>2, <1>3
  <1>5. /\ op = "start_drain" => Goal(op) = "DRAINING"
        /\ op = "close_drained" => Goal(op) = "CLOSED"
        /\ op = "begin_switch" => Goal(op) = "SWITCHING"
        /\ op = "complete_switch" => Goal(op) = "ACTIVE"
        /\ op = "fail_switch" => Goal(op) = "ERROR"
    BY <1>1, GoalStates
  <1>6. op \in {"start_drain", "close_drained", "begin_switch",
                "complete_switch", "fail_switch"}
    BY <1>1 DEF Operations
  <1>7. runtime' \in Runtimes
    <2>1. Goal(op) \in AccountStates
      BY <1>5, <1>6 DEF AccountStates
    <2>2. /\ runtime'.active \in SwitchTo \cup {Unassigned}
          /\ runtime'.pending \in SwitchTo \cup {Unassigned}
      BY <1>1, <1>2, <1>3, <1>6
    <2>3. runtime' = [state |-> runtime'.state, active |-> runtime'.active,
                      pending |-> runtime'.pending, epoch |-> runtime'.epoch,
                      version |-> runtime'.version]
      BY <1>2 DEF Written
    <2> HIDE DEF op
    <2> QED
      BY <1>2, <1>4, <2>1, <2>2, <2>3 DEF Runtimes
  <1>8. dead' = dead \cup EndedBy(o)
        /\ EndedBy(o) = IF op \in {"begin_switch", "close_drained",
                                   "fail_switch"}
                          THEN 1..runtime.epoch ELSE {}
    BY WritesWhatItRead DEF Writes, EndedBy
  <1>9. /\ op = "begin_switch" =>
             /\ ticket' = [ticket EXCEPT ![o] = runtime'.epoch]
             /\ asked' = [asked EXCEPT ![runtime'.epoch] = doing[o].for]
        /\ op # "begin_switch" => UNCHANGED <<ticket, asked>>
    BY <1>2 DEF Writes
  <1>10. NoOperation \in Doing
    <2>1. FirstRow("DISABLED") \in Runtimes
      BY DEF FirstRow, Runtimes, AccountStates
    <2> QED
      BY <2>1 DEF NoOperation, Doing
  <1> HIDE DEF op
  <1>11. SwitchTypeOK'
    <2>1. doing' \in [Operators -> Doing]
      BY <1>1, <1>10 DEF SwitchIInv, SwitchTypeOK
    <2>2. ticket' \in [Operators -> 0..MaxVersion]
      BY <1>4, <1>9 DEF SwitchIInv, SwitchTypeOK
    <2>3. asked' \in [1..MaxVersion -> SwitchTo \cup {Unassigned}]
      BY <1>1, <1>9 DEF SwitchIInv, SwitchTypeOK
    <2>4. dead' \in SUBSET (1..MaxVersion)
      <3>1. EndedBy(o) \subseteq 1..MaxVersion
        BY <1>3, <1>8
      <3>2. dead \subseteq 1..MaxVersion
        BY DEF SwitchIInv, SwitchTypeOK
      <3> QED
        BY <1>8, <3>1, <3>2
    <2> QED
      BY <1>7, <2>1, <2>2, <2>3, <2>4 DEF SwitchTypeOK
  <1>12. ReadsOK'
    <2> SUFFICES ASSUME NEW p \in Operators PROVE ReadOK(p)'
      BY DEF ReadsOK
    <2>1. CASE p = o
      BY <1>1, <2>1 DEF ReadOK, NoOperation
    <2>2. CASE p # o
      <3>1. doing'[p] = doing[p] /\ ticket'[p] = ticket[p]
        BY <1>1, <1>9, <2>2 DEF SwitchIInv, SwitchTypeOK
      <3>2. ReadOK(p) /\ doing[p] \in Doing
        BY DEF SwitchIInv, SwitchTypeOK, ReadsOK
      <3>3. doing[p].read.version \in 0..MaxVersion
        BY <3>2 DEF Doing, Runtimes
      <3> QED
        BY <1>2, <1>3, <3>1, <3>2, <3>3 DEF ReadOK
    <2> QED
      BY <2>1, <2>2
  <1>13. EpochOK'
    <2>1. \A p \in Operators : ticket'[p] <= runtime'.epoch
      <3> SUFFICES ASSUME NEW p \in Operators
                   PROVE  ticket'[p] <= runtime'.epoch
        OBVIOUS
      <3>1. ticket[p] \in 0..MaxVersion /\ ticket[p] <= runtime.epoch
        BY DEF SwitchIInv, SwitchTypeOK, EpochOK
      <3>2. ticket'[p] \in {ticket[p], runtime'.epoch}
        BY <1>9 DEF SwitchIInv, SwitchTypeOK
      <3> QED
        BY <1>3, <1>4, <3>1, <3>2
    <2>2. \A e \in dead' : e <= runtime'.epoch
      BY <1>3, <1>4, <1>8 DEF SwitchIInv, SwitchTypeOK, EpochOK
    <2> QED
      BY <1>4, <2>1, <2>2 DEF EpochOK
  <1>14. RowOK'
    <2>1. CASE op = "start_drain"
      <3>1. runtime.state \in {"ACTIVE", "DRAINING"}
        BY <1>1, <1>5, <2>1 DEF Allows, AllowedFrom, SwitchIInv, RowOK
      <3> QED
        BY <1>2, <1>5, <2>1, <3>1 DEF SwitchIInv, RowOK
    <2>2. CASE op \in {"close_drained", "fail_switch", "complete_switch"}
      BY <1>2, <1>5, <2>2 DEF RowOK
    <2>3. CASE op = "begin_switch"
      <3>1. runtime'.epoch \in 1..MaxVersion /\ runtime'.epoch \notin dead'
        BY <1>2, <1>3, <1>8, <2>3 DEF SwitchIInv, SwitchTypeOK, EpochOK
      <3>2. asked'[runtime'.epoch] = doing[o].for
        BY <1>9, <2>3, <3>1 DEF SwitchIInv, SwitchTypeOK
      <3> QED
        BY <1>2, <1>5, <2>3, <3>1, <3>2 DEF RowOK
    <2> QED
      BY <1>6, <2>1, <2>2, <2>3
  <1> QED
    BY <1>11, <1>12, <1>13, <1>14 DEF SwitchIInv

\* An operation given up, or a ticket told
LEMMA SwitchOthers ==
  ASSUME SwitchIInv, NEW o \in Operators,
         Loses(o) \/ \E p \in Operators : TellsTicket(o, p)
  PROVE  SwitchIInv'
  <1> USE SwitchAssumption
  <1>0. NoOperation \in Doing /\ NoOperation.op = "none"
    <2>1. FirstRow("DISABLED") \in Runtimes
      BY DEF FirstRow, Runtimes, AccountStates
    <2> QED
      BY <2>1 DEF NoOperation, Doing
  <1>1. CASE Loses(o)
    <2>1. /\ doing' = [doing EXCEPT ![o] = NoOperation]
          /\ UNCHANGED <<runtime, ticket, asked, dead>>
      BY <1>1 DEF Loses
    <2>2. SwitchTypeOK'
      BY <1>0, <2>1 DEF SwitchIInv, SwitchTypeOK
    <2>3. ReadsOK'
      BY <1>0, <2>1 DEF SwitchIInv, SwitchTypeOK, ReadsOK, ReadOK
    <2>4. EpochOK' /\ RowOK'
      BY <2>1 DEF SwitchIInv, EpochOK, RowOK
    <2> QED
      BY <2>2, <2>3, <2>4 DEF SwitchIInv
  <1>2. CASE \E p \in Operators : TellsTicket(o, p)
    <2>1. PICK p \in Operators :
             /\ doing[p].op = "none"
             /\ ticket' = [ticket EXCEPT ![p] = ticket[o]]
             /\ UNCHANGED <<runtime, doing, asked, dead>>
      BY <1>2 DEF TellsTicket
    <2>2. SwitchTypeOK'
      BY <2>1 DEF SwitchIInv, SwitchTypeOK
    <2>3. ReadsOK'
      BY <2>1 DEF SwitchIInv, SwitchTypeOK, ReadsOK, ReadOK
    <2>4. EpochOK' /\ RowOK'
      BY <2>1 DEF SwitchIInv, SwitchTypeOK, EpochOK, RowOK
    <2> QED
      BY <2>2, <2>3, <2>4 DEF SwitchIInv
  <1> QED
    BY <1>1, <1>2

LEMMA SwitchStep == SwitchIInv /\ [SwitchNext]_switchVars => SwitchIInv'
  <1> SUFFICES ASSUME SwitchIInv, [SwitchNext]_switchVars PROVE SwitchIInv'
    OBVIOUS
  <1>1. CASE UNCHANGED switchVars
    BY <1>1 DEF switchVars, SwitchIInv, SwitchTypeOK, ReadsOK, ReadOK, EpochOK,
                RowOK
  <1>2. CASE SwitchNext
    <2>1. "begin_switch" \in Operations
      BY DEF Operations
    <2> QED
      BY <1>2, <2>1, SwitchReads, SwitchWrites, SwitchOthers DEF SwitchNext
  <1> QED
    BY <1>1, <1>2

LEMMA SwitchInvariant == SwitchSpec => []SwitchIInv
  BY SwitchInitial, SwitchStep, PTL DEF SwitchSpec

\* Only a write changes the row.
LEMMA OnlyWrites ==
  ASSUME SwitchIInv, [SwitchNext]_switchVars, runtime' # runtime
  PROVE  \E o \in Operators : Writes(o)
  BY DEF SwitchNext, switchVars, ReadsRow, Loses, TellsTicket

\* A completion takes over what its own switch asked for.
LEMMA TakingOver ==
  ASSUME SwitchIInv, [SwitchNext]_switchVars PROVE TakesOverItsSwitch
  <1> SUFFICES ASSUME runtime'.active \notin {runtime.active, Unassigned}
               PROVE  /\ runtime.epoch \notin dead
                      /\ runtime'.active = asked[runtime.epoch]
                      /\ \E o \in Operators :
                            /\ doing[o].op = "complete_switch"
                            /\ doing'[o] = NoOperation
                            /\ ticket[o] = runtime.epoch
    BY DEF TakesOverItsSwitch
  <1>1. PICK o \in Operators : Writes(o)
    BY OnlyWrites
  <1>2. /\ doing[o].op \in Operations /\ doing[o].read = runtime
        /\ runtime' = Written(o) /\ doing'[o] = NoOperation
        /\ Allows(runtime.state, Goal(doing[o].op))
    BY <1>1, WritesWhatItRead
  <1>3. doing[o].op = "complete_switch" /\ runtime'.active = runtime.pending
    BY <1>2, WrittenFields DEF Operations
  <1>4. Goal(doing[o].op) = "ACTIVE"
    BY <1>2, <1>3, GoalStates
  <1>5. ticket[o] # 0 /\ ticket[o] = runtime.epoch
    BY <1>2, <1>3 DEF SwitchIInv, ReadsOK, ReadOK
  <1>6. runtime.state = "SWITCHING"
    BY <1>2, <1>3, <1>4, <1>5 DEF Allows, AllowedFrom, SwitchIInv, RowOK
  <1> QED
    BY <1>2, <1>3, <1>5, <1>6 DEF SwitchIInv, RowOK

\* begin_switch returns an epoch above every ticket given out before.
LEMMA NewTickets ==
  ASSUME SwitchIInv, [SwitchNext]_switchVars PROVE GivesNewTicket
  <1> SUFFICES ASSUME NEW o \in Operators, doing[o].op = "begin_switch",
                      doing'[o] = NoOperation, runtime' # runtime,
                      NEW p \in Operators
               PROVE  ticket[p] # ticket'[o]
    BY DEF GivesNewTicket
  <1>1. PICK q \in Operators : Writes(q)
    BY OnlyWrites
  <1>2. q = o
    BY <1>1, WritesWhatItRead DEF NoOperation
  <1>3. Written(o).epoch = runtime.epoch + 1
    BY <1>1, <1>2, WritesWhatItRead, WrittenFields
  <1>4. ticket'[o] = runtime.epoch + 1
    BY <1>1, <1>2, <1>3 DEF Writes, SwitchIInv, SwitchTypeOK
  <1>5. ticket[p] <= runtime.epoch /\ ticket[p] \in Nat /\ runtime.epoch \in Nat
    BY DEF SwitchIInv, SwitchTypeOK, EpochOK, Runtimes
  <1> QED
    BY <1>4, <1>5

\* However many operators drain, switch and complete at once, a pool takes over
\* the account that the switch of its epoch asked for, completed with the ticket
\* of that switch, and no two switches share a ticket (SwitchesHold;
\* begin_switch, complete_switch).
THEOREM Switches == SwitchSpec => SwitchesHold
  <1>1. SwitchIInv /\ [SwitchNext]_switchVars
          => [TakesOverItsSwitch]_switchVars /\ [GivesNewTicket]_switchVars
    BY TakingOver, NewTickets
  <1>2. SwitchSpec => CompletesItsSwitch /\ TicketsAreNew
    BY <1>1, SwitchInvariant, PTL DEF SwitchSpec, CompletesItsSwitch,
                                      TicketsAreNew
  <1> QED
    BY <1>2 DEF SwitchesHold

-----------------------------------------------------------------------------
(* Circuits *)

\* The table and the dispatches, without the history of failures
TablesOK ==
    /\ circuit \in [Circuits -> CircuitRows]
    /\ stage \in [Dispatchers -> Stages]
    /\ todo \in [Dispatchers -> SUBSET Circuits]
    /\ target \in [Dispatchers -> Endpoints \cup {NoEndpoint}]
    /\ probing \in [Dispatchers -> SUBSET Circuits]
    /\ \A d \in Dispatchers :
          stage[d] \in {"sending", "failing", "failing_model", "closing"} =>
              target[d] \in Endpoints

ProbeOK(c) ==
    /\ circuit[c].state # "HALF_OPEN" => Probers(c) = {}
    /\ circuit[c].state = "HALF_OPEN" /\ c \notin failed =>
         /\ Cardinality(Probers(c)) <= circuit[c].probes
         /\ circuit[c].probes <= ProbeLimit

ProbesOK == \A c \in Circuits : ProbeOK(c)

CircuitsIInv == TablesOK /\ ProbesOK

LEMMA ProbersFinite ==
  ASSUME NEW c
  PROVE  IsFiniteSet(Probers(c)) /\ Cardinality(Probers(c)) \in Nat
  <1>1. Probers(c) \subseteq Dispatchers
    BY DEF Probers
  <1>2. IsFiniteSet(Dispatchers)
    BY CircuitsAssumption
  <1> QED
    BY <1>1, <1>2, FS_Subset, FS_CardinalityType

LEMMA NoProbers == Cardinality({}) = 0
  BY FS_EmptySet

LEMMA CircuitsInitial == CircuitsInit => CircuitsIInv
  <1> SUFFICES ASSUME CircuitsInit PROVE CircuitsIInv
    OBVIOUS
  <1>1. TablesOK
    BY CircuitsAssumption DEF CircuitsInit, TablesOK, CircuitRows, States,
                              Stages
  <1>2. ProbesOK
    BY DEF CircuitsInit, ProbesOK, ProbeOK, Probers
  <1> QED
    BY <1>1, <1>2 DEF CircuitsIInv

\* A circuit that loses probers, or none, stays within its limit.
LEMMA FewerProbers ==
  ASSUME NEW c \in Circuits, ProbeOK(c), TablesOK,
         Probers(c)' \subseteq Probers(c),
         circuit'[c].state = circuit[c].state,
         circuit'[c].probes = circuit[c].probes,
         c \in failed => c \in failed'
  PROVE  ProbeOK(c)'
  <1>1. Cardinality(Probers(c)') <= Cardinality(Probers(c))
    BY ProbersFinite, FS_Subset
  <1>2. Cardinality(Probers(c)') \in Nat
    BY ProbersFinite, FS_Subset, FS_CardinalityType
  <1>3. circuit[c].probes \in Nat
    BY DEF TablesOK, CircuitRows
  <1> QED
    BY <1>1, <1>2, <1>3, ProbersFinite DEF ProbeOK

\* acquire_half_open_probe
LEMMA ProbeTaken ==
  ASSUME CircuitsIInv, NEW d \in Dispatchers, NEW c \in Circuits,
         HasProbe(c), TakesProbe(d, c)
  PROVE  /\ circuit' \in [Circuits -> CircuitRows]
         /\ probing' \in [Dispatchers -> SUBSET Circuits]
         /\ ProbesOK'
  <1> USE CircuitsAssumption
  <1> DEFINE n == IF CooledDown(c) THEN 1 ELSE circuit[c].probes + 1
  <1>1. /\ circuit[c] \in CircuitRows /\ circuit \in [Circuits -> CircuitRows]
        /\ probing \in [Dispatchers -> SUBSET Circuits]
    BY DEF CircuitsIInv, TablesOK
  <1>2. n \in Nat
    BY <1>1 DEF CircuitRows
  <1> HIDE DEF n
  <1>3. /\ circuit' = [circuit EXCEPT ![c] =
               [circuit[c] EXCEPT !.state = "HALF_OPEN", !.probes = n]]
        /\ probing' = [probing EXCEPT ![d] = @ \cup {c}]
    BY DEF TakesProbe, n
  <1>4. [circuit[c] EXCEPT !.state = "HALF_OPEN", !.probes = n]
           \in CircuitRows
    BY <1>1, <1>2 DEF CircuitRows, States
  <1>5. circuit' \in [Circuits -> CircuitRows]
    BY <1>1, <1>3, <1>4
  <1>6. probing' \in [Dispatchers -> SUBSET Circuits]
    BY <1>1, <1>3
  <1>7. ASSUME NEW b \in Circuits \ {c} PROVE ProbeOK(b)'
    <2>1. Probers(b)' = Probers(b) /\ circuit'[b] = circuit[b]
      BY <1>1, <1>3 DEF Probers
    <2>2. b \in failed => b \in failed'
      BY DEF TakesProbe
    <2> QED
      BY <2>1, <2>2, FewerProbers DEF CircuitsIInv, ProbesOK
  <1>8. ProbeOK(c)'
    <2>1. circuit'[c].state = "HALF_OPEN" /\ circuit'[c].probes = n
      BY <1>1, <1>3 DEF CircuitRows
    <2>2. Probers(c)' = Probers(c) \cup {d}
      BY <1>1, <1>3 DEF Probers
    <2>3. /\ Cardinality(Probers(c)') <= Cardinality(Probers(c)) + 1
          /\ Cardinality(Probers(c)') \in Nat
      <3>1. /\ IsFiniteSet(Probers(c) \cup {d})
            /\ Cardinality(Probers(c) \cup {d}) =
                 IF d \in Probers(c) THEN Cardinality(Probers(c))
                                     ELSE Cardinality(Probers(c)) + 1
        BY ProbersFinite, FS_AddElement
      <3> QED
        BY <2>2, <3>1, ProbersFinite
    <2>4. ProbeOK(c)
      BY DEF CircuitsIInv, ProbesOK
    <2>5. CASE CooledDown(c)
      <3>1. Probers(c) = {} /\ n = 1
        BY <2>4, <2>5 DEF CooledDown, ProbeOK, n
      <3>2. Cardinality(Probers(c)') <= 1
        BY <2>3, <3>1, NoProbers
      <3> QED
        BY <2>1, <3>1, <3>2 DEF ProbeOK
    <2>6. CASE ~CooledDown(c)
      <3>1. /\ circuit[c].state = "HALF_OPEN"
            /\ circuit[c].probes < ProbeLimit
            /\ n = circuit[c].probes + 1 /\ failed' = failed
        BY <2>6 DEF HasProbe, TakesProbe, n
      <3>2. circuit[c].probes \in Nat
        BY <1>1 DEF CircuitRows
      <3> QED
        BY <2>1, <2>3, <2>4, <3>1, <3>2, ProbersFinite DEF ProbeOK
    <2> QED
      BY <2>5, <2>6
  <1> QED
    BY <1>5, <1>6, <1>7, <1>8 DEF ProbesOK

\* record_circuit_failure
LEMMA FailureRecorded ==
  ASSUME CircuitsIInv, NEW c \in Circuits, RecordsFailure(c)
  PROVE  /\ circuit' \in [Circuits -> CircuitRows]
         /\ probing' \in [Dispatchers -> SUBSET Circuits]
         /\ ProbesOK'
  <1> USE CircuitsAssumption
  <1> DEFINE state == IF FailureCount(c) >= Threshold THEN "OPEN"
                                                      ELSE circuit[c].state
             row == [state |-> state,
                     failures |-> FailureCount(c),
                     age |-> IF RenewsWindow(c) THEN 0 ELSE circuit[c].age,
                     cooldown |-> IF state = "OPEN" THEN OpenFor
                                                    ELSE circuit[c].cooldown,
                     probes |-> 0]
  <1>1. /\ circuit[c] \in CircuitRows /\ circuit \in [Circuits -> CircuitRows]
        /\ probing \in [Dispatchers -> SUBSET Circuits]
    BY DEF CircuitsIInv, TablesOK
  <1>2. /\ circuit' = [circuit EXCEPT ![c] = row]
        /\ failed' = failed \cup {c}
        /\ probing' = IF state = "OPEN"
                        THEN [d \in Dispatchers |-> probing[d] \ {c}]
                        ELSE probing
    BY DEF RecordsFailure
  <1>3. FailureCount(c) \in 0..Threshold
    BY <1>1 DEF FailureCount, UpTo, CircuitRows
  <1>4. state \in States
    BY <1>1 DEF CircuitRows, States
  <1> HIDE DEF state
  <1>5. row \in CircuitRows
    BY <1>1, <1>3, <1>4 DEF CircuitRows
  <1>6. row.state = state
    OBVIOUS
  <1> HIDE DEF row
  <1>7. circuit' \in [Circuits -> CircuitRows]
    BY <1>1, <1>2, <1>5
  <1>8. probing' \in [Dispatchers -> SUBSET Circuits]
    BY <1>1, <1>2
  <1>9. ASSUME NEW b \in Circuits \ {c} PROVE ProbeOK(b)'
    <2>1. Probers(b)' = Probers(b) /\ circuit'[b] = circuit[b]
      BY <1>1, <1>2 DEF Probers
    <2> QED
      BY <1>2, <2>1, FewerProbers DEF CircuitsIInv, ProbesOK
  <1>10. ProbeOK(c)'
    <2>1. c \in failed' /\ circuit'[c].state = state
      BY <1>1, <1>2, <1>6
    <2>2. CASE state = "OPEN"
      <3>1. Probers(c)' = {}
        BY <1>2, <2>2 DEF Probers
      <3> QED
        BY <2>1, <2>2, <3>1 DEF ProbeOK
    <2>3. CASE state # "OPEN"
      <3>1. state = circuit[c].state /\ Probers(c)' = Probers(c)
        BY <1>2, <2>3 DEF state, Probers
      <3> QED
        BY <2>1, <3>1 DEF ProbeOK, CircuitsIInv, ProbesOK
    <2> QED
      BY <2>2, <2>3
  <1> QED
    BY <1>7, <1>8, <1>9, <1>10 DEF ProbesOK

\* record_circuit_success and reset_circuit
LEMMA CircuitClosed ==
  ASSUME CircuitsIInv, NEW c \in Circuits, NEW n \in Nat, Closes(c, n)
  PROVE  /\ circuit' \in [Circuits -> CircuitRows]
         /\ probing' \in [Dispatchers -> SUBSET Circuits]
         /\ ProbesOK'
  <1> USE CircuitsAssumption
  <1> DEFINE row == [state |-> "CLOSED", failures |-> FailuresOnceClosed(c),
                     age |-> circuit[c].age, cooldown |-> 0, probes |-> n]
  <1>1. /\ circuit[c] \in CircuitRows /\ circuit \in [Circuits -> CircuitRows]
        /\ probing \in [Dispatchers -> SUBSET Circuits]
    BY DEF CircuitsIInv, TablesOK
  <1>2. /\ circuit' = [circuit EXCEPT ![c] = row]
        /\ probing' = [d \in Dispatchers |-> probing[d] \ {c}]
        /\ failed' = failed
    BY DEF Closes
  <1>3. row \in CircuitRows /\ row.state = "CLOSED"
    BY <1>1 DEF CircuitRows, States, FailuresOnceClosed
  <1> HIDE DEF row
  <1>4. circuit' \in [Circuits -> CircuitRows]
    BY <1>1, <1>2, <1>3
  <1>5. probing' \in [Dispatchers -> SUBSET Circuits]
    BY <1>1, <1>2
  <1>6. ASSUME NEW b \in Circuits \ {c} PROVE ProbeOK(b)'
    <2>1. Probers(b)' = Probers(b) /\ circuit'[b] = circuit[b]
      BY <1>1, <1>2 DEF Probers
    <2> QED
      BY <1>2, <2>1, FewerProbers DEF CircuitsIInv, ProbesOK
  <1>7. ProbeOK(c)'
    <2>1. Probers(c)' = {} /\ circuit'[c].state = "CLOSED"
      BY <1>1, <1>2, <1>3 DEF Probers
    <2> QED
      BY <2>1 DEF ProbeOK
  <1> QED
    BY <1>4, <1>5, <1>6, <1>7 DEF ProbesOK

\* Time passes.
LEMMA Ticked ==
  ASSUME CircuitsIInv, Tick
  PROVE  circuit' \in [Circuits -> CircuitRows] /\ ProbesOK'
  <1> USE CircuitsAssumption
  <1>1. /\ circuit \in [Circuits -> CircuitRows]
        /\ UNCHANGED <<probing, failed>>
    BY DEF CircuitsIInv, TablesOK, Tick
  <1>2. ASSUME NEW c \in Circuits
        PROVE  /\ circuit'[c] \in CircuitRows
               /\ circuit'[c].state = circuit[c].state
               /\ circuit'[c].probes = circuit[c].probes
    <2>1. circuit[c] \in CircuitRows
      BY <1>1
    <2>2. circuit'[c] = [state |-> circuit[c].state,
                         failures |-> circuit[c].failures,
                         age |-> UpTo(Window + 1, circuit[c].age + 1),
                         cooldown |-> Before(circuit[c].cooldown),
                         probes |-> circuit[c].probes]
      BY DEF Tick
    <2>3. /\ UpTo(Window + 1, circuit[c].age + 1) \in 0..(Window + 1)
          /\ Before(circuit[c].cooldown) \in 0..OpenFor
      BY <2>1 DEF UpTo, Before, CircuitRows
    <2> QED
      BY <2>1, <2>2, <2>3 DEF CircuitRows
  <1>3. circuit' \in [Circuits -> CircuitRows]
    <2>1. circuit' = [c \in Circuits |-> circuit'[c]]
      BY DEF Tick
    <2> QED
      BY <1>2, <2>1
  <1>4. ASSUME NEW c \in Circuits PROVE ProbeOK(c)'
    <2>1. Probers(c)' = Probers(c)
      BY <1>1 DEF Probers
    <2> QED
      BY <1>1, <1>2, <2>1, FewerProbers DEF CircuitsIInv, ProbesOK
  <1> QED
    BY <1>3, <1>4 DEF ProbesOK

\* The end of a dispatch: its probes stay counted in the row.
LEMMA DispatchLeft ==
  ASSUME CircuitsIInv, NEW d \in Dispatchers, Leaves(d)
  PROVE  CircuitsIInv'
  <1>1. /\ stage' = [stage EXCEPT ![d] = "idle"]
        /\ todo' = [todo EXCEPT ![d] = {}]
        /\ target' = [target EXCEPT ![d] = NoEndpoint]
        /\ probing' = [probing EXCEPT ![d] = {}]
        /\ UNCHANGED <<circuit, failed>>
    BY DEF Leaves, MovesTo
  <1>2. TablesOK'
    BY <1>1 DEF CircuitsIInv, TablesOK, Stages
  <1>3. ASSUME NEW c \in Circuits PROVE ProbeOK(c)'
    <2>1. Probers(c)' \subseteq Probers(c)
      BY <1>1 DEF Probers, CircuitsIInv, TablesOK
    <2> QED
      BY <1>1, <2>1, FewerProbers DEF CircuitsIInv, ProbesOK
  <1> QED
    BY <1>2, <1>3 DEF CircuitsIInv, ProbesOK

\* What leaves the circuits and the probes alone leaves them within the limit.
LEMMA ProbesUntouched ==
  ASSUME CircuitsIInv, UNCHANGED <<circuit, probing, failed>>
  PROVE  ProbesOK'
  BY DEF CircuitsIInv, ProbesOK, ProbeOK, Probers

\* The steps of a dispatch that only move it
LEMMA DispatchMoves ==
  ASSUME CircuitsIInv, NEW d \in Dispatchers,
         \/ Lists(d) \/ ProviderFails(d) \/ FailsOtherwise(d)
         \/ ProviderAnswers(d) \/ \E e \in Endpoints : Routes(d, e)
  PROVE  CircuitsIInv'
  <1> USE DEF CircuitsIInv, TablesOK, MovesTo
  <1>1. UNCHANGED <<circuit, probing, failed>>
    BY DEF Lists, ProviderFails, FailsOtherwise, ProviderAnswers, Routes,
           probeVars
  <1>2. TablesOK'
    <2>1. CASE Lists(d)
      BY <1>1, <2>1 DEF Lists, Stages
    <2>2. CASE ProviderFails(d)
      BY <1>1, <2>2 DEF ProviderFails, Stages
    <2>3. CASE FailsOtherwise(d)
      BY <1>1, <2>3 DEF FailsOtherwise, Stages
    <2>4. CASE ProviderAnswers(d)
      <3>1. target[d] \in Endpoints
        BY <2>4 DEF ProviderAnswers
      <3>2. Guards(target[d]) \subseteq Circuits
        BY <3>1, CircuitsAssumption DEF Guards, Circuits
      <3> QED
        BY <1>1, <2>4, <3>1, <3>2 DEF ProviderAnswers, Stages
    <2>5. CASE \E e \in Endpoints : Routes(d, e)
      BY <1>1, <2>5 DEF Routes, Stages
    <2> QED
      BY <2>1, <2>2, <2>3, <2>4, <2>5
  <1> QED
    BY <1>1, <1>2, ProbesUntouched

\* acquire_half_open_probe for one listed circuit
LEMMA CircuitAsked ==
  ASSUME CircuitsIInv, NEW d \in Dispatchers, NEW c \in Circuits,
         AsksCircuit(d, c)
  PROVE  CircuitsIInv'
  <1>1. /\ todo' = [todo EXCEPT ![d] = @ \ {c}]
        /\ UNCHANGED <<stage, target>>
    BY DEF AsksCircuit
  <1>2. /\ circuit' \in [Circuits -> CircuitRows]
        /\ probing' \in [Dispatchers -> SUBSET Circuits]
        /\ ProbesOK'
    <2>1. CASE HasProbe(c) /\ TakesProbe(d, c)
      BY <2>1, ProbeTaken
    <2>2. CASE UNCHANGED <<circuit, probing, failed>>
      BY <2>2, ProbesUntouched DEF CircuitsIInv, TablesOK
    <2> QED
      BY <2>1, <2>2 DEF AsksCircuit
  <1> QED
    BY <1>1, <1>2 DEF CircuitsIInv, TablesOK

\* The reports of a dispatch
LEMMA CircuitReported ==
  ASSUME CircuitsIInv, NEW d \in Dispatchers,
         \/ ReportsProvider(d) \/ ReportsModel(d)
         \/ \E c \in Circuits : ReportsSuccess(d, c)
  PROVE  CircuitsIInv'
  <1>1. CASE ReportsProvider(d)
    <2>1. target[d] \in Endpoints
      BY <1>1 DEF ReportsProvider, CircuitsIInv, TablesOK
    <2>2. ProviderOf[target[d]] \in Circuits
      BY <2>1, CircuitsAssumption DEF Circuits
    <2>3. /\ circuit' \in [Circuits -> CircuitRows]
          /\ probing' \in [Dispatchers -> SUBSET Circuits]
          /\ ProbesOK'
      BY <1>1, <2>2, FailureRecorded DEF ReportsProvider
    <2> QED
      BY <1>1, <2>1, <2>3 DEF ReportsProvider, MovesTo, CircuitsIInv, TablesOK,
                              Stages
  <1>2. CASE ReportsModel(d)
    <2>1. target[d] \in Circuits
      BY <1>2 DEF ReportsModel, CircuitsIInv, TablesOK, Circuits
    <2>2. /\ circuit' \in [Circuits -> CircuitRows]
          /\ probing' \in [Dispatchers -> SUBSET Circuits]
          /\ ProbesOK'
      BY <1>2, <2>1, FailureRecorded DEF ReportsModel
    <2> QED
      BY <1>2, <2>2 DEF ReportsModel, MovesTo, CircuitsIInv, TablesOK, Stages
  <1>3. CASE \E c \in Circuits : ReportsSuccess(d, c)
    <2>1. PICK c \in Circuits : ReportsSuccess(d, c)
      BY <1>3
    <2>2. ProbesBut(c) \in Nat
      <3>1. circuit[c].probes \in Nat
        BY DEF CircuitsIInv, TablesOK, CircuitRows
      <3> QED
        BY <3>1 DEF ProbesBut, Before
    <2>3. /\ circuit' \in [Circuits -> CircuitRows]
          /\ probing' \in [Dispatchers -> SUBSET Circuits]
          /\ ProbesOK'
      BY <2>1, <2>2, CircuitClosed DEF ReportsSuccess
    <2> QED
      BY <2>1, <2>3 DEF ReportsSuccess, CircuitsIInv, TablesOK
  <1> QED
    BY <1>1, <1>2, <1>3

\* The administrator's reset and the passing of time
LEMMA CircuitChanged ==
  ASSUME CircuitsIInv, Tick \/ \E c \in Circuits : ResetsCircuit(c)
  PROVE  CircuitsIInv'
  <1>1. UNCHANGED <<stage, todo, target>>
    BY DEF Tick, ResetsCircuit, dispatchVars
  <1>2. /\ circuit' \in [Circuits -> CircuitRows]
        /\ probing' \in [Dispatchers -> SUBSET Circuits]
        /\ ProbesOK'
    <2>1. CASE Tick
      BY <2>1, Ticked DEF Tick, CircuitsIInv, TablesOK
    <2>2. CASE \E c \in Circuits : ResetsCircuit(c)
      BY <2>2, CircuitClosed DEF ResetsCircuit
    <2> QED
      BY <2>1, <2>2
  <1> QED
    BY <1>1, <1>2 DEF CircuitsIInv, TablesOK

LEMMA CircuitsStep == CircuitsIInv /\ [CircuitsNext]_circuitsVars
                          => CircuitsIInv'
  <1> SUFFICES ASSUME CircuitsIInv, [CircuitsNext]_circuitsVars
               PROVE  CircuitsIInv'
    OBVIOUS
  <1>1. CASE UNCHANGED circuitsVars
    <2>1. UNCHANGED <<circuit, stage, todo, target, probing, failed>>
      BY <1>1 DEF circuitsVars, dispatchVars, probeVars
    <2> QED
      BY <2>1, ProbesUntouched DEF CircuitsIInv, TablesOK
  <1>2. CASE \E d \in Dispatchers : RoutesNowhere(d) \/ AnswersCaller(d)
    BY <1>2, DispatchLeft DEF RoutesNowhere, AnswersCaller
  <1>3. CASE \E d \in Dispatchers :
                \/ Lists(d) \/ ProviderFails(d) \/ FailsOtherwise(d)
                \/ ProviderAnswers(d) \/ \E e \in Endpoints : Routes(d, e)
    BY <1>3, DispatchMoves
  <1>4. CASE \E d \in Dispatchers, c \in Circuits : AsksCircuit(d, c)
    BY <1>4, CircuitAsked
  <1>5. CASE \E d \in Dispatchers :
                \/ ReportsProvider(d) \/ ReportsModel(d)
                \/ \E c \in Circuits : ReportsSuccess(d, c)
    BY <1>5, CircuitReported
  <1>6. CASE Tick \/ \E c \in Circuits : ResetsCircuit(c)
    BY <1>6, CircuitChanged
  <1> QED
    BY <1>1, <1>2, <1>3, <1>4, <1>5, <1>6 DEF CircuitsNext

\* While a half-open circuit records no failure, no more dispatches carry a
\* probe of it than its limit, whatever the numbers of dispatches, providers
\* and endpoints and the limits (ProbesAreLimited; acquire_half_open_probe).
THEOREM ProbeLimits == CircuitsSpec => []ProbesAreLimited
  <1>1. CircuitsIInv => ProbesAreLimited
    <2> SUFFICES ASSUME CircuitsIInv, NEW c \in Circuits,
                        circuit[c].state = "HALF_OPEN", c \notin failed
                 PROVE  Cardinality(Probers(c)) <= ProbeLimit
      BY DEF ProbesAreLimited
    <2>1. /\ Cardinality(Probers(c)) <= circuit[c].probes
          /\ circuit[c].probes <= ProbeLimit
      BY DEF CircuitsIInv, ProbesOK, ProbeOK
    <2>2. circuit[c].probes \in Nat
      BY DEF CircuitsIInv, TablesOK, CircuitRows
    <2> QED
      BY <2>1, <2>2, ProbersFinite, CircuitsAssumption
  <1> QED
    BY <1>1, CircuitsInitial, CircuitsStep, PTL DEF CircuitsSpec
-----------------------------------------------------------------------------
(* Failures in a window *)

\* The count and the window of a row against the failures themselves: there
\* were as many as it counts, and those it counts lie in its window.
HistoryOK(c) ==
    LET n == Len(past[c])
    IN  /\ past[c] \in Seq(0..(Window + 1)) /\ n <= Threshold
        /\ circuit[c].failures <= n
        /\ \A i, j \in 1..n : i <= j => past[c][j] <= past[c][i]
        /\ \A i \in 1..n : n < i + circuit[c].failures =>
               past[c][i] <= circuit[c].age

HistoriesOK ==
    /\ past = [c \in Circuits |-> past[c]]
    /\ \A c \in Circuits : HistoryOK(c)

DispatchesOK ==
    /\ blocked \in [Dispatchers -> SUBSET Circuits]
    /\ avoided \in [Dispatchers -> SUBSET Providers]
    /\ failed \in SUBSET Circuits

LEMMA HistoriesInitial == CircuitsInit => HistoriesOK
  <1> SUFFICES ASSUME CircuitsInit PROVE HistoriesOK
    OBVIOUS
  <1>1. past = [c \in Circuits |-> <<>>]
    BY DEF CircuitsInit
  <1>2. ASSUME NEW c \in Circuits PROVE HistoryOK(c)
    <2>1. past[c] = <<>> /\ Len(past[c]) = 0 /\ circuit[c].failures = 0
      BY <1>1 DEF CircuitsInit
    <2>2. past[c] \in Seq(0..(Window + 1))
      BY <2>1
    <2> QED
      BY <2>1, <2>2, CircuitsAssumption DEF HistoryOK
  <1> QED
    BY <1>1, <1>2 DEF HistoriesOK

\* A failure joins the history; the oldest one beyond the threshold leaves it.
LEMMA FailureJoins ==
  ASSUME CircuitsIInv, HistoriesOK, NEW c \in Circuits, RecordsFailure(c)
  PROVE  /\ HistoriesOK'
         /\ circuit[c].state # "OPEN" /\ circuit'[c].state = "OPEN" =>
              Len(past'[c]) = Threshold /\ past'[c][1] <= Window
         /\ \A b \in Circuits \ {c} : circuit'[b] = circuit[b]
  <1> USE CircuitsAssumption
  <1> DEFINE n == Len(past[c])
             all == Append(past[c], 0)
             drop == (n + 1) - UpTo(Threshold, n + 1)
             f == circuit[c].failures
  <1>1. /\ circuit[c] \in CircuitRows /\ circuit \in [Circuits -> CircuitRows]
    BY DEF CircuitsIInv, TablesOK
  <1>2. /\ f \in 0..Threshold /\ circuit[c].age \in 0..(Window + 1)
    BY <1>1 DEF CircuitRows
  <1>3. /\ past[c] \in Seq(0..(Window + 1)) /\ n \in Nat /\ n <= Threshold
        /\ f <= n
        /\ \A i, j \in 1..n : i <= j => past[c][j] <= past[c][i]
        /\ \A i \in 1..n : n < i + f => past[c][i] <= circuit[c].age
    BY DEF HistoriesOK, HistoryOK
  <1>4. /\ all \in Seq(0..(Window + 1)) /\ Len(all) = n + 1
        /\ \A i \in 1..n : all[i] = past[c][i]
        /\ all[n + 1] = 0
    BY <1>3, AppendProperties, 0 \in 0..(Window + 1)
  <1>5. drop \in {0, 1} /\ (drop = 1 <=> n = Threshold)
    BY <1>3 DEF UpTo
  <1>6. past'[c] = SubSeq(all, 1 + drop, n + 1)
    <2>1. past' = [past EXCEPT ![c] = SubSeq(all,
                     1 + Len(all) - UpTo(Threshold, Len(all)), Len(all))]
      BY DEF RecordsFailure
    <2>2. past = [b \in Circuits |-> past[b]]
      BY DEF HistoriesOK
    <2>3. past'[c] = SubSeq(all, 1 + Len(all) - UpTo(Threshold, Len(all)),
                            Len(all))
      BY <2>1, <2>2
    <2>4. 1 + Len(all) - UpTo(Threshold, Len(all)) = 1 + drop
      BY <1>3, <1>4 DEF UpTo
    <2> QED
      BY <1>4, <2>3, <2>4
  <1> HIDE DEF all, drop, n, f
  <1>7. /\ past'[c] \in Seq(0..(Window + 1))
        /\ Len(past'[c]) = n + 1 - drop
        /\ \A i \in 1..(n + 1 - drop) : past'[c][i] = all[i + drop]
    <2>1. 1 + drop \in Int /\ n + 1 \in Int /\ 1 + drop <= n + 1
      BY <1>3, <1>5
    <2>2. \A i \in (1 + drop)..(n + 1) : all[i] \in 0..(Window + 1)
      <3>1. \A i \in 1..(n + 1) : all[i] \in 0..(Window + 1)
        BY <1>4, ElementOfSeq
      <3>2. (1 + drop)..(n + 1) \subseteq 1..(n + 1)
        BY <1>3, <1>5
      <3> QED
        BY <3>1, <3>2
    <2>3. /\ SubSeq(all, 1 + drop, n + 1) \in Seq(0..(Window + 1))
          /\ Len(SubSeq(all, 1 + drop, n + 1)) =
               IF 1 + drop <= n + 1 THEN (n + 1) - (1 + drop) + 1 ELSE 0
          /\ \A i \in 1..((n + 1) - (1 + drop) + 1) :
               SubSeq(all, 1 + drop, n + 1)[i] = all[(1 + drop) + i - 1]
      BY <2>1, <2>2, SubSeqProperties
    <2> QED
      BY <1>3, <1>5, <1>6, <2>1, <2>3
  <1>8. \A i, j \in 1..(n + 1) : i <= j => all[j] <= all[i]
    <2>1. \A i \in 1..(n + 1) : all[i] \in 0..(Window + 1)
      BY <1>4, ElementOfSeq
    <2> SUFFICES ASSUME NEW i \in 1..(n + 1), NEW j \in 1..(n + 1), i <= j
                 PROVE  all[j] <= all[i]
      OBVIOUS
    <2>2. CASE j = n + 1
      BY <1>4, <2>1, <2>2
    <2>3. CASE j # n + 1
      <3>1. i \in 1..n /\ j \in 1..n
        BY <1>3, <2>3
      <3> QED
        BY <1>3, <1>4, <3>1
    <2> QED
      BY <2>2, <2>3
  <1>9. /\ \A i, j \in 1..Len(past'[c]) :
             i <= j => past'[c][j] <= past'[c][i]
    <2> SUFFICES ASSUME NEW i \in 1..(n + 1 - drop),
                        NEW j \in 1..(n + 1 - drop), i <= j
                 PROVE  past'[c][j] <= past'[c][i]
      BY <1>7
    <2>1. /\ i + drop \in 1..(n + 1) /\ j + drop \in 1..(n + 1)
          /\ i + drop <= j + drop
      BY <1>3, <1>5
    <2> QED
      BY <1>7, <1>8, <2>1
  <1>10. /\ circuit'[c].failures = FailureCount(c)
         /\ circuit'[c].age = IF RenewsWindow(c) THEN 0 ELSE circuit[c].age
         /\ circuit'[c].state = IF FailureCount(c) >= Threshold
                                  THEN "OPEN" ELSE circuit[c].state
         /\ \A b \in Circuits \ {c} : circuit'[b] = circuit[b]
    BY <1>1 DEF RecordsFailure
  <1>11. /\ FailureCount(c) <= Len(past'[c])
         /\ \A i \in 1..Len(past'[c]) :
              Len(past'[c]) < i + FailureCount(c) =>
                  past'[c][i] <= circuit'[c].age
         /\ FailureCount(c) >= Threshold =>
              Len(past'[c]) = Threshold /\ past'[c][1] <= Window
    <2>1. CASE RenewsWindow(c)
      <3>1. FailureCount(c) = 1 /\ circuit'[c].age = 0
        BY <1>10, <2>1 DEF FailureCount
      <3>2. n + 1 - drop \in 1..(n + 1 - drop)
        BY <1>3, <1>5
      <3>3. past'[c][n + 1 - drop] = 0
        <4>1. (n + 1 - drop) + drop = n + 1
          BY <1>3, <1>5
        <4> QED
          BY <1>4, <1>7, <3>2, <4>1
      <3>4. \A i \in 1..Len(past'[c]) :
               Len(past'[c]) < i + 1 => past'[c][i] <= 0
        BY <1>3, <1>5, <1>7, <3>3
      <3>5. 1 >= Threshold => Len(past'[c]) = Threshold /\ past'[c][1] <= Window
        BY <1>3, <1>5, <1>7, <3>3
      <3> QED
        BY <1>7, <3>1, <3>2, <3>4, <3>5
    <2>2. CASE ~RenewsWindow(c)
      <3>1. /\ FailureCount(c) = UpTo(Threshold, f + 1)
            /\ circuit'[c].age = circuit[c].age
        BY <1>10, <2>2 DEF FailureCount, f
      <3>2. circuit[c].age <= Window
        BY <1>2, <2>2 DEF RenewsWindow
      <3>3. FailureCount(c) \in 1..Threshold /\ FailureCount(c) <= f + 1
        BY <1>2, <3>1 DEF UpTo
      <3>4. FailureCount(c) <= Len(past'[c])
        BY <1>2, <1>3, <1>5, <1>7, <3>3
      <3>5. ASSUME NEW i \in 1..Len(past'[c]),
                   Len(past'[c]) < i + FailureCount(c)
            PROVE  past'[c][i] <= circuit[c].age
        <4>1. i + drop \in 1..(n + 1) /\ past'[c][i] = all[i + drop]
          <5>1. i \in 1..(n + 1 - drop)
            BY <1>7
          <5>2. i + drop \in 1..(n + 1)
            BY <1>3, <1>5, <5>1
          <5> QED
            BY <1>7, <5>1, <5>2
        <4>2. n + 1 < (i + drop) + (f + 1)
          <5>1. FailureCount(c) \in Nat /\ f \in Nat /\ i \in Nat
            BY <1>2, <1>7, <3>3
          <5>2. n + 1 - drop < i + FailureCount(c)
            BY <1>7, <3>5
          <5> QED
            BY <1>3, <1>5, <3>3, <5>1, <5>2
        <4>3. CASE i + drop = n + 1
          BY <1>2, <1>4, <4>1, <4>3
        <4>4. CASE i + drop # n + 1
          <5>1. i + drop \in 1..n /\ n < (i + drop) + f
            <6> DEFINE k == i + drop
            <6>1. k \in 1..(n + 1) /\ n + 1 < k + (f + 1) /\ k # n + 1
              BY <4>1, <4>2, <4>4
            <6> HIDE DEF k
            <6>2. k \in 1..n /\ n < k + f
              BY <1>2, <1>3, <6>1
            <6> QED
              BY <6>2 DEF k
          <5> QED
            BY <1>3, <1>4, <4>1, <5>1
        <4> QED
          BY <4>3, <4>4
      <3>6. FailureCount(c) >= Threshold =>
              Len(past'[c]) = Threshold /\ past'[c][1] <= Window
        <4> SUFFICES ASSUME FailureCount(c) >= Threshold
                     PROVE  Len(past'[c]) = Threshold /\ past'[c][1] <= Window
          OBVIOUS
        <4>1. Len(past'[c]) = Threshold
          BY <1>3, <1>5, <1>7, <3>3, <3>4
        <4>2. 1 \in 1..Len(past'[c]) /\ Len(past'[c]) < 1 + FailureCount(c)
          BY <3>3, <4>1
        <4>3. past'[c][1] <= circuit[c].age
          BY <3>5, <4>2
        <4>4. past'[c][1] \in 0..(Window + 1)
          BY <1>7, <4>2, ElementOfSeq
        <4> QED
          BY <1>2, <3>2, <4>1, <4>3, <4>4
      <3> QED
        BY <3>1, <3>4, <3>5, <3>6
    <2> QED
      BY <2>1, <2>2
  <1>12. HistoryOK(c)'
    BY <1>3, <1>5, <1>7, <1>9, <1>10, <1>11 DEF HistoryOK
  <1>13. ASSUME NEW b \in Circuits \ {c} PROVE HistoryOK(b)'
    <2>1. past'[b] = past[b] /\ circuit'[b] = circuit[b]
      BY <1>10 DEF RecordsFailure, HistoriesOK
    <2> QED
      BY <2>1 DEF HistoriesOK, HistoryOK
  <1>14. past' = [b \in Circuits |-> past'[b]]
    BY DEF RecordsFailure, HistoriesOK
  <1> QED
    BY <1>10, <1>11, <1>12, <1>13, <1>14 DEF HistoriesOK

\* Closing forgets them.
LEMMA HistoryForgotten ==
  ASSUME CircuitsIInv, HistoriesOK, NEW c \in Circuits, NEW probes,
         Closes(c, probes)
  PROVE  /\ HistoriesOK'
         /\ \A b \in Circuits : circuit'[b].state \in
                                    {circuit[b].state, "CLOSED"}
  <1>1. /\ past' = [past EXCEPT ![c] = <<>>]
        /\ circuit'[c].failures = 0 /\ circuit'[c].state = "CLOSED"
        /\ \A b \in Circuits \ {c} : circuit'[b] = circuit[b]
    BY DEF Closes, FailuresOnceClosed, CircuitsIInv, TablesOK
  <1>2. HistoryOK(c)'
    <2>1. past'[c] = <<>> /\ Len(past'[c]) = 0
      BY <1>1 DEF HistoriesOK
    <2>2. past'[c] \in Seq(0..(Window + 1))
      BY <2>1
    <2> QED
      BY <1>1, <2>1, <2>2, CircuitsAssumption DEF HistoryOK
  <1>3. \A b \in Circuits \ {c} : HistoryOK(b)'
    BY <1>1 DEF HistoriesOK, HistoryOK
  <1>4. past' = [b \in Circuits |-> past'[b]]
    BY <1>1 DEF HistoriesOK
  <1> QED
    BY <1>1, <1>2, <1>3, <1>4 DEF HistoriesOK

\* Failures and windows grow old together.
LEMMA HistoriesAge ==
  ASSUME CircuitsIInv, HistoriesOK, Tick
  PROVE  /\ HistoriesOK'
         /\ \A c \in Circuits : circuit'[c].state = circuit[c].state
  <1> USE CircuitsAssumption
  <1>1. ASSUME NEW c \in Circuits
        PROVE  HistoryOK(c)' /\ circuit'[c].state = circuit[c].state
    <2>1. circuit[c] \in CircuitRows
      BY DEF CircuitsIInv, TablesOK
    <2>2. /\ circuit'[c].state = circuit[c].state
          /\ circuit'[c].failures = circuit[c].failures
          /\ circuit'[c].age = UpTo(Window + 1, circuit[c].age + 1)
      BY DEF Tick
    <2>3. /\ past[c] \in Seq(0..(Window + 1)) /\ Len(past[c]) \in Nat
          /\ DOMAIN past[c] = 1..Len(past[c])
          /\ \A i \in 1..Len(past[c]) : past[c][i] \in 0..(Window + 1)
      BY ElementOfSeq DEF HistoriesOK, HistoryOK
    <2>4. past'[c] = [i \in 1..Len(past[c]) |->
                         UpTo(Window + 1, past[c][i] + 1)]
      BY <2>3 DEF Tick
    <2>5. \A i \in 1..Len(past[c]) :
             UpTo(Window + 1, past[c][i] + 1) \in 0..(Window + 1)
      BY <2>3 DEF UpTo
    <2>6. past'[c] \in Seq(0..(Window + 1)) /\ Len(past'[c]) = Len(past[c])
      BY <2>3, <2>4, <2>5
    <2>7. \A i, j \in 1..Len(past[c]) : i <= j => past'[c][j] <= past'[c][i]
      <3>1. \A i, j \in 1..Len(past[c]) : i <= j => past[c][j] <= past[c][i]
        BY DEF HistoriesOK, HistoryOK
      <3> SUFFICES ASSUME NEW i \in 1..Len(past[c]), NEW j \in 1..Len(past[c]),
                          i <= j
                   PROVE  past'[c][j] <= past'[c][i]
        OBVIOUS
      <3>2. /\ past'[c][i] = UpTo(Window + 1, past[c][i] + 1)
            /\ past'[c][j] = UpTo(Window + 1, past[c][j] + 1)
        BY <2>4
      <3>3. /\ past[c][j] <= past[c][i]
            /\ past[c][i] \in Nat /\ past[c][j] \in Nat
        <4>1. past[c][i] \in 0..(Window + 1) /\ past[c][j] \in 0..(Window + 1)
          BY <2>3
        <4> QED
          BY <3>1, <4>1
      <3> QED
        BY <3>2, <3>3 DEF UpTo
    <2>8. \A i \in 1..Len(past[c]) :
             Len(past[c]) < i + circuit[c].failures =>
                 past'[c][i] <= circuit'[c].age
      <3>1. circuit[c].age \in Nat
        BY <2>1 DEF CircuitRows
      <3> SUFFICES ASSUME NEW i \in 1..Len(past[c]),
                          Len(past[c]) < i + circuit[c].failures
                   PROVE  past'[c][i] <= circuit'[c].age
        OBVIOUS
      <3>2. past[c][i] <= circuit[c].age /\ past[c][i] \in Nat
        BY <2>3 DEF HistoriesOK, HistoryOK
      <3>3. past'[c][i] = UpTo(Window + 1, past[c][i] + 1)
        BY <2>4
      <3> QED
        BY <2>2, <3>1, <3>2, <3>3 DEF UpTo
    <2> QED
      BY <2>2, <2>6, <2>7, <2>8 DEF HistoriesOK, HistoryOK
  <1>2. past' = [c \in Circuits |-> past'[c]]
    BY DEF Tick
  <1> QED
    BY <1>1, <1>2 DEF HistoriesOK

\* What the failures and the counts of circuits are not touched by
LEMMA HistoriesUntouched ==
  ASSUME HistoriesOK, UNCHANGED past,
         \A c \in Circuits : /\ circuit'[c].failures = circuit[c].failures
                             /\ circuit'[c].age = circuit[c].age
  PROVE  HistoriesOK'
  BY DEF HistoriesOK, HistoryOK

\* Only a failure opens a circuit, and it closes the window on a burst.
OpensOnFailures(c) ==
    circuit[c].state # "OPEN" /\ circuit'[c].state = "OPEN" =>
        Len(past'[c]) = Threshold /\ past'[c][1] <= Window

LEMMA HistoriesStep ==
  ASSUME CircuitsIInv, HistoriesOK, [CircuitsNext]_circuitsVars
  PROVE  HistoriesOK' /\ \A c \in Circuits : OpensOnFailures(c)
  <1>1. CASE UNCHANGED <<circuit, past>>
    BY <1>1, HistoriesUntouched DEF OpensOnFailures
  <1>2. CASE \E c \in Circuits : RecordsFailure(c)
    <2>1. PICK c \in Circuits : RecordsFailure(c)
      BY <1>2
    <2>2. HistoriesOK' /\ OpensOnFailures(c)
      BY <2>1, FailureJoins DEF OpensOnFailures
    <2>3. \A b \in Circuits \ {c} : OpensOnFailures(b)
      BY <2>1, FailureJoins DEF OpensOnFailures
    <2> QED
      BY <2>2, <2>3
  <1>3. CASE \E c \in Circuits : Closes(c, 0) \/ Closes(c, ProbesBut(c))
    BY <1>3, HistoryForgotten DEF OpensOnFailures
  <1>4. CASE Tick
    BY <1>4, HistoriesAge DEF OpensOnFailures
  <1>5. CASE \E d \in Dispatchers, c \in Circuits :
                TakesProbe(d, c) /\ UNCHANGED past
    <2>1. PICK c \in Circuits, d \in Dispatchers :
                  TakesProbe(d, c) /\ UNCHANGED past
      BY <1>5
    <2>2. /\ circuit'[c].failures = circuit[c].failures
          /\ circuit'[c].age = circuit[c].age
          /\ circuit'[c].state = "HALF_OPEN"
          /\ \A b \in Circuits \ {c} : circuit'[b] = circuit[b]
      BY <2>1 DEF TakesProbe, CircuitsIInv, TablesOK, CircuitRows
    <2> QED
      BY <2>1, <2>2, HistoriesUntouched DEF OpensOnFailures
  <1>6. \/ UNCHANGED <<circuit, past>> \/ Tick
        \/ \E c \in Circuits : RecordsFailure(c)
        \/ \E c \in Circuits : Closes(c, 0) \/ Closes(c, ProbesBut(c))
        \/ \E d \in Dispatchers, c \in Circuits :
              TakesProbe(d, c) /\ UNCHANGED past
    <2>1. ASSUME NEW d \in Dispatchers, ReportsProvider(d) \/ ReportsModel(d)
          PROVE  \E c \in Circuits : RecordsFailure(c)
      <3>1. target[d] \in Endpoints
        BY <2>1 DEF ReportsProvider, ReportsModel, CircuitsIInv, TablesOK
      <3>2. ProviderOf[target[d]] \in Circuits /\ target[d] \in Circuits
        BY <3>1, CircuitsAssumption DEF Circuits
      <3> QED
        BY <2>1, <3>2 DEF ReportsProvider, ReportsModel
    <2>2. ASSUME NEW d \in Dispatchers, NEW c \in Circuits,
                 AsksCircuit(d, c)
          PROVE  \/ UNCHANGED <<circuit, past>>
                 \/ TakesProbe(d, c) /\ UNCHANGED past
      BY <2>2 DEF AsksCircuit
    <2>3. ASSUME NEW d \in Dispatchers,
                 \/ Lists(d) \/ RoutesNowhere(d) \/ ProviderFails(d)
                 \/ FailsOtherwise(d) \/ ProviderAnswers(d)
                 \/ AnswersCaller(d) \/ \E e \in Endpoints : Routes(d, e)
          PROVE  UNCHANGED <<circuit, past>>
      BY <2>3 DEF Lists, RoutesNowhere, ProviderFails, FailsOtherwise,
              ProviderAnswers, AnswersCaller, Routes, Leaves, probeVars
    <2>4. CASE UNCHANGED circuitsVars
      BY <2>4 DEF circuitsVars, probeVars
    <2>5. CASE CircuitsNext
      BY <2>1, <2>2, <2>3, <2>5 DEF CircuitsNext, ReportsSuccess,
                                    ResetsCircuit
    <2> QED
      BY <2>4, <2>5
  <1> QED
    BY <1>1, <1>2, <1>3, <1>4, <1>5, <1>6

\* A circuit opens only on as many failures as its threshold says, recorded
\* since it was last closed and all within one failure window, for any
\* threshold and window (OpensOnBurst; record_circuit_failure).
THEOREM OpensOnlyOnBurst == CircuitsSpec => OpensOnBurst
  <1>1. CircuitsInit => CircuitsIInv /\ HistoriesOK
    BY CircuitsInitial, HistoriesInitial
  <1>2. CircuitsIInv /\ HistoriesOK /\ [CircuitsNext]_circuitsVars
          => /\ CircuitsIInv' /\ HistoriesOK'
             /\ [\A c \in Circuits :
                   circuit[c].state # "OPEN" /\ circuit'[c].state = "OPEN" =>
                     /\ Len(past'[c]) = Threshold
                     /\ past'[c][1] <= Window]_circuitsVars
    BY CircuitsStep, HistoriesStep DEF OpensOnFailures
  <1> QED
    BY <1>1, <1>2, PTL DEF CircuitsSpec, OpensOnBurst
-----------------------------------------------------------------------------
(* The router as a whole *)

LEMMA DispatchesTyped ==
  ASSUME CircuitsIInv, DispatchesOK, [CircuitsNext]_circuitsVars
  PROVE  DispatchesOK'
  <1> USE CircuitsAssumption DEF DispatchesOK
  <1>1. CASE UNCHANGED <<blocked, avoided, failed>>
    BY <1>1
  <1>2. CASE \E c \in Circuits :
                RecordsFailure(c) /\ UNCHANGED <<blocked, avoided>>
    BY <1>2 DEF RecordsFailure
  <1>3. CASE \E d \in Dispatchers, c \in Circuits : AsksCircuit(d, c)
    <2>1. PICK d \in Dispatchers, c \in Circuits : AsksCircuit(d, c)
      BY <1>3
    <2>2. failed' \in SUBSET Circuits
      BY <2>1 DEF AsksCircuit, TakesProbe
    <2>3. /\ avoided' = avoided
          /\ blocked' \in {blocked, [blocked EXCEPT ![d] = @ \cup {c}]}
      BY <2>1 DEF AsksCircuit
    <2> QED
      BY <2>2, <2>3
  <1>4. CASE \E d \in Dispatchers :
                \/ Lists(d) \/ Leaves(d) \/ ProviderFails(d)
                \/ FailsOtherwise(d)
    <2>1. PICK d \in Dispatchers :
                \/ Lists(d) \/ Leaves(d) \/ ProviderFails(d)
                \/ FailsOtherwise(d)
      BY <1>4
    <2>2. CASE Lists(d) \/ Leaves(d)
      BY <2>2 DEF Lists, Leaves, probeVars
    <2>3. CASE ProviderFails(d) \/ FailsOtherwise(d)
      <3>1. ProviderOf[target[d]] \in Providers
        BY <2>3 DEF ProviderFails, FailsOtherwise, CircuitsIInv, TablesOK
      <3> QED
        BY <2>3, <3>1 DEF ProviderFails, FailsOtherwise, probeVars
    <2> QED
      BY <2>1, <2>2, <2>3
  <1>5. CASE UNCHANGED circuitsVars
    BY <1>5 DEF circuitsVars, dispatchVars, probeVars
  <1>6. CASE CircuitsNext
    <2>1. ASSUME NEW d \in Dispatchers, ReportsProvider(d) \/ ReportsModel(d)
          PROVE  DispatchesOK'
      <3>1. target[d] \in Endpoints
        BY <2>1 DEF ReportsProvider, ReportsModel, CircuitsIInv, TablesOK
      <3>2. ProviderOf[target[d]] \in Circuits /\ target[d] \in Circuits
        BY <3>1 DEF Circuits
      <3> QED
        BY <1>2, <2>1, <3>2 DEF ReportsProvider, ReportsModel
    <2>2. ASSUME NEW d \in Dispatchers, RoutesNowhere(d) \/ AnswersCaller(d)
          PROVE  DispatchesOK'
      BY <1>4, <2>2 DEF RoutesNowhere, AnswersCaller
    <2>3. ASSUME NEW d \in Dispatchers,
                 \/ ProviderAnswers(d)
                 \/ \E e \in Endpoints : Routes(d, e)
                 \/ \E c \in Circuits : ReportsSuccess(d, c)
          PROVE  DispatchesOK'
      BY <1>1, <2>3 DEF ProviderAnswers, Routes, ReportsSuccess, Closes,
                        probeVars
    <2>4. CASE Tick \/ \E c \in Circuits : ResetsCircuit(c)
      BY <1>1, <2>4 DEF Tick, ResetsCircuit, Closes, dispatchVars
    <2> QED
      BY <1>3, <1>4, <1>6, <2>1, <2>2, <2>3, <2>4 DEF CircuitsNext
  <1> QED
    BY <1>5, <1>6

\* The circuits and the dispatches that ask them hold one of their values.
LEMMA CircuitsTyped == CircuitsSpec => []CircuitsTypeOK
  <1>1. CircuitsInit => CircuitsIInv /\ HistoriesOK /\ DispatchesOK
    <2>1. CircuitsInit => DispatchesOK
      BY DEF CircuitsInit, DispatchesOK
    <2> QED
      BY <2>1, CircuitsInitial, HistoriesInitial
  <1>2. CircuitsIInv /\ HistoriesOK /\ DispatchesOK
        /\ [CircuitsNext]_circuitsVars
          => CircuitsIInv' /\ HistoriesOK' /\ DispatchesOK'
    BY CircuitsStep, HistoriesStep, DispatchesTyped
  <1>3. CircuitsIInv /\ HistoriesOK /\ DispatchesOK => CircuitsTypeOK
    BY DEF CircuitsIInv, TablesOK, HistoriesOK, HistoryOK, DispatchesOK,
           CircuitsTypeOK
  <1> QED
    BY <1>1, <1>2, <1>3, PTL DEF CircuitsSpec

LEMMA SwitchTyped == SwitchSpec => []SwitchTypeOK
  BY SwitchInvariant, PTL DEF SwitchIInv

\* A behaviour of the router is one of each of its parts: what holds of each
\* part by itself holds of the three together.
THEOREM RouterIsItsParts == RouterSpec => Spec /\ CircuitsSpec /\ SwitchSpec
  <1>1. RouterInit => Init /\ CircuitsInit /\ SwitchInit
    BY DEF RouterInit
  <1>2. [RouterNext]_<<subject, vars, circuitsVars, switchVars>>
          => /\ [Next]_vars /\ [CircuitsNext]_circuitsVars
             /\ [SwitchNext]_switchVars
    BY DEF RouterNext
  <1> QED
    BY <1>1, <1>2, PTL DEF RouterSpec, Spec, CircuitsSpec, SwitchSpec

\* The tables of the router, its dispatches and its operations always hold one
\* of their values (RouterTypeOK; key_router/repository.py).
THEOREM RouterTyped == RouterSpec => []RouterTypeOK
  <1>1. TypeOK /\ CircuitsTypeOK /\ SwitchTypeOK => RouterTypeOK
    BY DEF RouterTypeOK
  <1> QED
    BY <1>1, RouterIsItsParts, TypeCorrect, CircuitsTyped, SwitchTyped, PTL
=============================================================================
