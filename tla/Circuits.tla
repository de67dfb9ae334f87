------------------------------ MODULE Circuits ------------------------------
(***************************************************************************)
(* The circuit breakers of the key router: the key_router_circuits table,  *)
(* one row per provider and one per endpoint (a model of a provider), and  *)
(* the dispatches that read it, take half-open probes and report failures  *)
(* and successes to it.  One action is one transaction of the repository,  *)
(* or the provider's answer; a dispatch may die anywhere.                  *)
(*                                                                         *)
(* A time is kept as its distance from now: the age of the failure window  *)
(* and the rest of the cooldown, so the clock needs no bound.  A row that  *)
(* does not exist yet is the CLOSED row record_circuit_failure inserts.    *)
(***************************************************************************)
EXTENDS Integers, Sequences, FiniteSets

CONSTANTS
    Dispatchers,   \* processes that dispatch, one request after another
    Providers,
    Endpoints,     \* models, each of one provider
    ProviderOf,    \* the provider of an endpoint
    Threshold,     \* failure_threshold
    Window,        \* circuit_failure_window_seconds, in ticks
    OpenFor,       \* circuit_open_seconds, in ticks
    ProbeLimit,    \* half_open_probe_count
    NoEndpoint

ASSUME CircuitsAssumption ==
    /\ IsFiniteSet(Dispatchers)
    /\ ProviderOf \in [Endpoints -> Providers]
    /\ Providers \cap Endpoints = {} /\ NoEndpoint \notin Endpoints
    /\ Threshold \in Nat \ {0} /\ Window \in Nat \ {0}
    /\ OpenFor \in Nat \ {0} /\ ProbeLimit \in Nat \ {0}

Circuits == Providers \cup Endpoints

\* The circuits that stand before an endpoint: the provider's and its own.
Guards(e) == {ProviderOf[e], e}

VARIABLES
    circuit,    \* key_router_circuits
    stage,      \* where each dispatch is
    todo,       \* the listed circuits it has still to ask or to report to
    blocked,    \* open_circuits
    avoided,    \* RetryState.excluded_providers
    target,     \* the endpoint of its current attempt
    probing,    \* the probes each dispatch was granted (history)
    failed,     \* half-open circuits with a failure meanwhile (history)
    past        \* ages of the latest failures since a circuit closed (history)

dispatchVars == <<stage, todo, blocked, avoided, target>>
probeVars == <<probing, failed, past>>
circuitsVars == <<circuit, dispatchVars, probeVars>>

States == {"CLOSED", "OPEN", "HALF_OPEN"}
Stages == {"idle", "asking", "sending", "failing", "failing_model", "failed",
           "closing"}

\* Failures count up to the threshold and ages up to one past the window: what
\* lies beyond makes no difference to any test.
CircuitRows == [state: States, failures: 0..Threshold, age: 0..(Window + 1),
                cooldown: 0..OpenFor, probes: Nat]

UpTo(limit, n) == IF n < limit THEN n ELSE limit

Before(n) == IF n > 0 THEN n - 1 ELSE 0

-----------------------------------------------------------------------------
(* The repository's transactions *)

\* Mutant: the window is never renewed.
KeepsWindow(c) == circuit[c].failures = 0

\* No window yet, or one that began too long ago
RenewsWindow(c) == circuit[c].age > Window

FailureCount(c) ==
    IF RenewsWindow(c) THEN 1 ELSE UpTo(Threshold, circuit[c].failures + 1)

\* record_circuit_failure, in any state: below the threshold the state stays
\* what it is, and the probes are forgotten either way.
RecordsFailure(c) ==
    LET state == IF FailureCount(c) >= Threshold THEN "OPEN"
                                                 ELSE circuit[c].state
    IN  /\ circuit' = [circuit EXCEPT ![c] =
               [state |-> state,
                failures |-> FailureCount(c),
                age |-> IF RenewsWindow(c) THEN 0 ELSE circuit[c].age,
                cooldown |-> IF state = "OPEN" THEN OpenFor
                                               ELSE circuit[c].cooldown,
                probes |-> 0]]
        /\ failed' = failed \cup {c}
        /\ past' = [past EXCEPT ![c] =
               LET all == Append(past[c], 0)
               IN  SubSeq(all, 1 + Len(all) - UpTo(Threshold, Len(all)),
                          Len(all))]
        /\ probing' = IF state = "OPEN"
                        THEN [d \in Dispatchers |-> probing[d] \ {c}]
                        ELSE probing

CooledDown(c) == circuit[c].state = "OPEN" /\ circuit[c].cooldown = 0

\* Mutant: one probe too many.
OneMoreProbe(c) ==
    \/ CooledDown(c)
    \/ circuit[c].state = "HALF_OPEN" /\ circuit[c].probes <= ProbeLimit

\* acquire_half_open_probe makes an open circuit half open once it has cooled
\* down, and a half-open circuit has only so many probes.
HasProbe(c) ==
    \/ CooledDown(c)
    \/ circuit[c].state = "HALF_OPEN" /\ circuit[c].probes < ProbeLimit

TakesProbe(d, c) ==
    /\ circuit' = [circuit EXCEPT ![c] =
           [circuit[c] EXCEPT
                !.state = "HALF_OPEN",
                !.probes = IF CooledDown(c) THEN 1 ELSE circuit[c].probes + 1]]
    /\ probing' = [probing EXCEPT ![d] = @ \cup {c}]
    /\ failed' = IF CooledDown(c) THEN failed \ {c} ELSE failed

\* Mutant: failures of the closed circuit are counted on.
KeepsFailures(c) == circuit[c].failures

FailuresOnceClosed(c) == 0

\* Mutant: without the MAX(0, ...).
ProbesBelow(c) == circuit[c].probes - 1

ProbesBut(c) == Before(circuit[c].probes)

\* record_circuit_success and reset_circuit close whatever they find; a
\* success leaves all probes but its own in flight.
Closes(c, probes) ==
    /\ circuit' = [circuit EXCEPT ![c] =
           [state |-> "CLOSED", failures |-> FailuresOnceClosed(c),
            age |-> circuit[c].age, cooldown |-> 0, probes |-> probes]]
    /\ probing' = [d \in Dispatchers |-> probing[d] \ {c}]
    /\ past' = [past EXCEPT ![c] = <<>>]
    /\ UNCHANGED failed

-----------------------------------------------------------------------------
(* KeyRouter.dispatch and select_route *)

MovesTo(d, point) == stage' = [stage EXCEPT ![d] = point]

\* The dispatch is over: the probes it did not report on stay in flight.
Leaves(d) ==
    /\ MovesTo(d, "idle")
    /\ todo' = [todo EXCEPT ![d] = {}]
    /\ blocked' = [blocked EXCEPT ![d] = {}]
    /\ avoided' = [avoided EXCEPT ![d] = {}]
    /\ target' = [target EXCEPT ![d] = NoEndpoint]
    /\ probing' = [probing EXCEPT ![d] = {}]
    /\ UNCHANGED <<circuit, failed, past>>

\* select_route lists the circuits, for the first or a further attempt.
Lists(d) ==
    /\ stage[d] \in {"idle", "failed"}
    /\ MovesTo(d, "asking")
    /\ todo' = [todo EXCEPT ![d] = {c \in Circuits :
                                       circuit[c].state # "CLOSED"}]
    /\ blocked' = [blocked EXCEPT ![d] = {}]
    /\ target' = [target EXCEPT ![d] = NoEndpoint]
    /\ UNCHANGED <<circuit, avoided, probeVars>>

\* acquire_half_open_probe for each listed circuit, wanted or not.
AsksCircuit(d, c) ==
    /\ stage[d] = "asking" /\ c \in todo[d]
    /\ todo' = [todo EXCEPT ![d] = @ \ {c}]
    /\ \/ HasProbe(c) /\ TakesProbe(d, c) /\ UNCHANGED blocked
       \/ /\ circuit[c].state = "CLOSED"
          /\ UNCHANGED <<circuit, blocked, probing, failed>>
       \/ /\ circuit[c].state # "CLOSED" /\ ~HasProbe(c)
          /\ blocked' = [blocked EXCEPT ![d] = @ \cup {c}]
          /\ UNCHANGED <<circuit, probing, failed>>
    /\ UNCHANGED <<stage, avoided, target, past>>

CircuitsAllow(d, e) == Guards(e) \cap blocked[d] = {}

\* The endpoint selector; what else makes an endpoint or its accounts
\* ineligible is left open.
Routes(d, e) ==
    /\ stage[d] = "asking" /\ todo[d] = {}
    /\ CircuitsAllow(d, e) /\ ProviderOf[e] \notin avoided[d]
    /\ MovesTo(d, "sending")
    /\ target' = [target EXCEPT ![d] = e]
    /\ UNCHANGED <<circuit, todo, blocked, avoided, probeVars>>

\* No eligible endpoint or account, no further attempt, or the end of the
\* process.
RoutesNowhere(d) == stage[d] # "idle" /\ Leaves(d)

\* A 5xx answer counts against the provider and then against the endpoint, and
\* the dispatch does not go back to the provider.
ProviderFails(d) ==
    /\ stage[d] = "sending"
    /\ MovesTo(d, "failing")
    /\ avoided' = [avoided EXCEPT ![d] = @ \cup {ProviderOf[target[d]]}]
    /\ UNCHANGED <<circuit, todo, blocked, target, probeVars>>

ReportsProvider(d) ==
    /\ stage[d] = "failing"
    /\ RecordsFailure(ProviderOf[target[d]])
    /\ MovesTo(d, "failing_model")
    /\ UNCHANGED <<todo, blocked, avoided, target>>

ReportsModel(d) ==
    /\ stage[d] = "failing_model"
    /\ RecordsFailure(target[d])
    /\ MovesTo(d, "failed")
    /\ UNCHANGED <<todo, blocked, avoided, target>>

\* Any other error leaves the circuits alone; some exclude the provider.
FailsOtherwise(d) ==
    /\ stage[d] = "sending"
    /\ MovesTo(d, "failed")
    /\ \/ UNCHANGED avoided
       \/ avoided' = [avoided EXCEPT ![d] = @ \cup {ProviderOf[target[d]]}]
    /\ UNCHANGED <<circuit, todo, blocked, target, probeVars>>

\* The provider answers: list the half-open circuits of the route ...
ProviderAnswers(d) ==
    /\ stage[d] = "sending"
    /\ MovesTo(d, "closing")
    /\ todo' = [todo EXCEPT ![d] = {c \in Guards(target[d]) :
                                       circuit[c].state = "HALF_OPEN"}]
    /\ UNCHANGED <<circuit, blocked, avoided, target, probeVars>>

\* ... and record a success for each, whatever became of it meanwhile.
ReportsSuccess(d, c) ==
    /\ stage[d] = "closing" /\ c \in todo[d]
    /\ todo' = [todo EXCEPT ![d] = @ \ {c}]
    /\ Closes(c, ProbesBut(c))
    /\ UNCHANGED <<stage, blocked, avoided, target>>

AnswersCaller(d) == stage[d] = "closing" /\ todo[d] = {} /\ Leaves(d)

\* The administrator's reset
ResetsCircuit(c) == Closes(c, 0) /\ UNCHANGED dispatchVars

\* Time passes: cooldowns run out, windows and failures grow old.
Tick ==
    /\ circuit' = [c \in Circuits |->
           [state |-> circuit[c].state, failures |-> circuit[c].failures,
            age |-> UpTo(Window + 1, circuit[c].age + 1),
            cooldown |-> Before(circuit[c].cooldown),
            probes |-> circuit[c].probes]]
    /\ past' = [c \in Circuits |-> [i \in DOMAIN past[c] |->
                                       UpTo(Window + 1, past[c][i] + 1)]]
    /\ UNCHANGED <<dispatchVars, probing, failed>>

-----------------------------------------------------------------------------
CircuitsInit ==
    /\ circuit = [c \in Circuits |->
           [state |-> "CLOSED", failures |-> 0, age |-> Window + 1,
            cooldown |-> 0, probes |-> 0]]
    /\ stage = [d \in Dispatchers |-> "idle"]
    /\ todo = [d \in Dispatchers |-> {}]
    /\ blocked = [d \in Dispatchers |-> {}]
    /\ avoided = [d \in Dispatchers |-> {}]
    /\ target = [d \in Dispatchers |-> NoEndpoint]
    /\ probing = [d \in Dispatchers |-> {}]
    /\ failed = {}
    /\ past = [c \in Circuits |-> <<>>]

CircuitsNext ==
    \/ \E d \in Dispatchers :
          \/ Lists(d) \/ RoutesNowhere(d)
          \/ ProviderFails(d) \/ ReportsProvider(d) \/ ReportsModel(d)
          \/ FailsOtherwise(d) \/ ProviderAnswers(d) \/ AnswersCaller(d)
          \/ \E c \in Circuits : AsksCircuit(d, c) \/ ReportsSuccess(d, c)
          \/ \E e \in Endpoints : Routes(d, e)
    \/ \E c \in Circuits : ResetsCircuit(c)
    \/ Tick

CircuitsSpec == CircuitsInit /\ [][CircuitsNext]_circuitsVars

-----------------------------------------------------------------------------
(* Properties *)

\* The rows and the dispatches hold what the code can put there.
CircuitsTypeOK ==
    /\ circuit \in [Circuits -> CircuitRows]
    /\ stage \in [Dispatchers -> Stages]
    /\ todo \in [Dispatchers -> SUBSET Circuits]
    /\ blocked \in [Dispatchers -> SUBSET Circuits]
    /\ avoided \in [Dispatchers -> SUBSET Providers]
    /\ target \in [Dispatchers -> Endpoints \cup {NoEndpoint}]
    /\ probing \in [Dispatchers -> SUBSET Circuits]
    /\ failed \in SUBSET Circuits
    /\ \A c \in Circuits :
          /\ past[c] \in Seq(0..(Window + 1)) /\ Len(past[c]) <= Threshold

\* The dispatches that carry a probe of a circuit
Probers(c) == {d \in Dispatchers : c \in probing[d]}

\* While a half-open circuit records no failure, no more dispatches carry a
\* probe of it than its limit allows, however many workers ask at once
\* (acquire_half_open_probe).  A failure recorded meanwhile sets the count back
\* to 0 although other probes are out (README, section 6).
ProbesAreLimited ==
    \A c \in Circuits :
        circuit[c].state = "HALF_OPEN" /\ c \notin failed =>
            Cardinality(Probers(c)) <= ProbeLimit

\* A circuit opens only on failure_threshold failures recorded since it was
\* last closed and within one failure window: the count and the window start
\* of the row stand for the rolling window.
OpensOnBurst ==
    [][\A c \in Circuits :
          circuit[c].state # "OPEN" /\ circuit'[c].state = "OPEN" =>
              /\ Len(past'[c]) = Threshold
              /\ past'[c][1] <= Window]_circuitsVars
=============================================================================
