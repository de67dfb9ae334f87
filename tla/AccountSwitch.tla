--------------------------- MODULE AccountSwitch ---------------------------
(***************************************************************************)
(* Draining a provider pool and switching it to another account: the       *)
(* account_runtime row of one pool and the five operations of KeyRouter    *)
(* that move it.  Each reads the row in one transaction, checks the        *)
(* transition on what it read, and writes in another with a predicate on   *)
(* the version (compare_and_set_runtime).  Operators may work at once, and *)
(* one may repeat an operation or use the ticket of an old switch.         *)
(*                                                                         *)
(* A ticket is what begin_switch returns: switch_id and account_epoch,     *)
(* which are set together and never set back, so one number stands for     *)
(* both.  Timestamps and error codes are left out.                         *)
(***************************************************************************)
EXTENDS Integers, FiniteSets

CONSTANTS
    Operators,     \* callers of the operations
    SwitchTo,      \* accounts a switch may ask for
    MaxVersion,    \* bound on the writes of the row
    Unassigned

ASSUME SwitchAssumption == MaxVersion \in Nat /\ Unassigned \notin SwitchTo

AccountStates == {"ACTIVE", "DRAINING", "CLOSED", "SWITCHING", "DISABLED",
                  "ERROR", "QUARANTINED", "COOLDOWN"}

VARIABLES
    runtime,   \* the row of the pool
    doing,     \* the operation of each operator and the row it read
    ticket,    \* the switch an operator was last told of, 0 for none
    asked,     \* the account each switch asked for (history)
    dead       \* switches failed, closed or superseded (history)

switchVars == <<runtime, doing, ticket, asked, dead>>

Operations == {"start_drain", "close_drained", "begin_switch",
               "complete_switch", "fail_switch"}

Runtimes == [state: AccountStates, active: SwitchTo \cup {Unassigned},
             pending: SwitchTo \cup {Unassigned}, epoch: 0..MaxVersion,
             version: 0..MaxVersion]

FirstRow(state) == [state |-> state, active |-> Unassigned,
                    pending |-> Unassigned, epoch |-> 0, version |-> 0]

\* Not in an operation: what was read last is forgotten.
NoOperation ==
    [op |-> "none", read |-> FirstRow("DISABLED"), for |-> Unassigned]

Doing == [op: Operations \cup {"none"}, read: Runtimes,
          for: SwitchTo \cup {Unassigned}]

-----------------------------------------------------------------------------
\* ALLOWED_ACCOUNT_TRANSITIONS
AllowedFrom(state) ==
    CASE state = "ACTIVE" -> {"DRAINING", "DISABLED", "ERROR", "QUARANTINED",
                              "COOLDOWN"}
      [] state = "DRAINING" -> {"CLOSED", "ERROR", "QUARANTINED"}
      [] state = "CLOSED" -> {"SWITCHING", "DISABLED"}
      [] state = "SWITCHING" -> {"ACTIVE", "ERROR", "CLOSED"}
      [] state = "DISABLED" -> {"SWITCHING", "ACTIVE"}
      [] state = "ERROR" -> {"CLOSED", "DISABLED", "SWITCHING", "QUARANTINED"}
      [] state = "QUARANTINED" -> {"DISABLED", "ACTIVE"}
      [] state = "COOLDOWN" -> {"ACTIVE", "DISABLED", "QUARANTINED"}

\* validate_transition: staying in a state is always allowed.
Allows(old, new) == new \in AllowedFrom(old) \cup {old}

Goal(op) ==
    CASE op = "start_drain" -> "DRAINING"
      [] op = "close_drained" -> "CLOSED"
      [] op = "begin_switch" -> "SWITCHING"
      [] op = "complete_switch" -> "ACTIVE"
      [] op = "fail_switch" -> "ERROR"

\* The predicate of compare_and_set_runtime
Unchanged(o) == runtime.version = doing[o].read.version

\* Mutant: the epoch is that of the row it read.
SameEpoch(o) == doing[o].read.epoch

\* Every switch has an epoch of its own.
EpochWritten(o) ==
    IF doing[o].op = "begin_switch" THEN doing[o].read.epoch + 1
                                    ELSE doing[o].read.epoch

NextVersion(o) == doing[o].read.version + 1

\* The fields an operation writes over those it read
Written(o) ==
    LET row == doing[o].read
        op == doing[o].op
    IN  [state |-> Goal(op),
         active |-> CASE op = "close_drained" -> Unassigned
                      [] op = "complete_switch" -> row.pending
                      [] op \notin {"close_drained", "complete_switch"}
                            -> row.active,
         pending |-> CASE op = "begin_switch" -> doing[o].for
                       [] op = "complete_switch" -> Unassigned
                       [] op \notin {"begin_switch", "complete_switch"}
                             -> row.pending,
         epoch |-> EpochWritten(o),
         version |-> NextVersion(o)]

-----------------------------------------------------------------------------
(* The operations: read and check, then write *)

\* Mutant: a completion is not fenced.
AnyTicket(o, op) == op = "complete_switch" => ticket[o] # 0

\* complete_switch compares the ticket it was given with the row.
TicketHolds(o, op) ==
    op = "complete_switch" => ticket[o] # 0 /\ ticket[o] = runtime.epoch

\* ensure_runtime and validate_transition; a refused operation changes nothing.
ReadsRow(o, op, account) ==
    /\ doing[o].op = "none"
    /\ TicketHolds(o, op)
    /\ Allows(runtime.state, Goal(op))
    /\ doing' = [doing EXCEPT ![o] = [op |-> op, read |-> runtime,
                                      for |-> account]]
    /\ UNCHANGED <<runtime, ticket, asked, dead>>

\* The switches an operation ends: a new one supersedes the one before, and a
\* failed or closed pool takes the switch under way with it.
EndedBy(o) ==
    IF doing[o].op \in {"begin_switch", "close_drained", "fail_switch"}
      THEN 1..doing[o].read.epoch ELSE {}

\* compare_and_set_runtime; begin_switch returns the ticket.
Writes(o) ==
    /\ doing[o].op # "none" /\ Unchanged(o)
    /\ runtime.version < MaxVersion
    /\ runtime' = Written(o)
    /\ doing' = [doing EXCEPT ![o] = NoOperation]
    /\ dead' = dead \cup EndedBy(o)
    /\ IF doing[o].op = "begin_switch"
         THEN /\ ticket' = [ticket EXCEPT ![o] = Written(o).epoch]
              /\ asked' = [asked EXCEPT ![Written(o).epoch] = doing[o].for]
         ELSE UNCHANGED <<ticket, asked>>

\* The version has moved on, or the operator's process ends.
Loses(o) ==
    /\ doing[o].op # "none"
    /\ doing' = [doing EXCEPT ![o] = NoOperation]
    /\ UNCHANGED <<runtime, ticket, asked, dead>>

\* An operator hands its ticket to another, to complete the switch.
TellsTicket(o, p) ==
    /\ ticket[o] # 0 /\ doing[p].op = "none"
    /\ ticket' = [ticket EXCEPT ![p] = ticket[o]]
    /\ UNCHANGED <<runtime, doing, asked, dead>>

-----------------------------------------------------------------------------
\* ensure_runtime creates the row as its first caller asks.
SwitchInit ==
    /\ runtime \in {FirstRow("ACTIVE"), FirstRow("DISABLED")}
    /\ doing = [o \in Operators |-> NoOperation]
    /\ ticket = [o \in Operators |-> 0]
    /\ asked = [e \in 1..MaxVersion |-> Unassigned]
    /\ dead = {}

SwitchNext ==
    \E o \in Operators :
        \/ \E op \in Operations \ {"begin_switch"} : ReadsRow(o, op, Unassigned)
        \/ \E account \in SwitchTo : ReadsRow(o, "begin_switch", account)
        \/ Writes(o)
        \/ Loses(o)
        \/ \E p \in Operators : TellsTicket(o, p)

SwitchSpec == SwitchInit /\ [][SwitchNext]_switchVars

-----------------------------------------------------------------------------
(* Properties *)

\* The row and the operators hold what the code can put there.
SwitchTypeOK ==
    /\ runtime \in Runtimes
    /\ doing \in [Operators -> Doing]
    /\ ticket \in [Operators -> 0..MaxVersion]
    /\ asked \in [1..MaxVersion -> SwitchTo \cup {Unassigned}]
    /\ dead \in SUBSET (1..MaxVersion)

\* A pool that comes back takes over the account that the switch of its epoch
\* asked for, that switch was neither superseded nor failed nor closed
\* meanwhile, and whoever completes it was given its ticket and no older one
\* (complete_switch, compare_and_set_runtime).
TakesOverItsSwitch ==
    runtime'.active \notin {runtime.active, Unassigned} =>
        /\ runtime.epoch \notin dead
        /\ runtime'.active = asked[runtime.epoch]
        /\ \E o \in Operators : /\ doing[o].op = "complete_switch"
                                /\ doing'[o] = NoOperation
                                /\ ticket[o] = runtime.epoch
CompletesItsSwitch == [][TakesOverItsSwitch]_switchVars

\* Two operators that began switches hold different tickets: no begin_switch
\* returns a ticket that was given out before.
GivesNewTicket ==
    \A o \in Operators :
        /\ doing[o].op = "begin_switch" /\ doing'[o] = NoOperation
        /\ runtime' # runtime
        => \A p \in Operators : ticket[p] # ticket'[o]
TicketsAreNew == [][GivesNewTicket]_switchVars

\* Switches by several operators at once, in both respects (begin_switch,
\* complete_switch)
SwitchesHold == CompletesItsSwitch /\ TicketsAreNew
=============================================================================
