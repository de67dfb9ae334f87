--------------------------- MODULE RouterDispatch ---------------------------
(***************************************************************************)
(* The key router's accounting: how KeyRouter.dispatch takes a request to  *)
(* a provider account, and what the request_reservations and quota_runtime *)
(* tables say of it meanwhile.  Several processes dispatch at once over    *)
(* one database; each may die, or have a transaction refused, anywhere.    *)
(*                                                                         *)
(* One action is one transaction or the provider call.  The quota is the   *)
(* daily number of requests of an account for one requested model; tokens  *)
(* and cost are reserved, limited and consumed by the same statements.     *)
(* Which candidates are eligible (capabilities, account states, circuits)  *)
(* is left open: any account that is not excluded, or none, may be chosen. *)
(***************************************************************************)
EXTENDS Integers, FiniteSets

CONSTANTS
    Requests,      \* dispatches, each with its own random request_id
    Accounts,      \* candidates: provider accounts
    MaxAttempts,   \* maximum_attempts
    Limit,         \* daily_request_limit, 0 for none
    Concurrency,   \* max_concurrency of an account
    LastDay,       \* bound on the days that pass
    NoAccount

ASSUME RequestsAssumption == IsFiniteSet(Requests)
ASSUME NumbersAssumption ==
    /\ MaxAttempts \in Nat /\ Limit \in Nat /\ Concurrency \in Nat
    /\ LastDay \in Nat \ {0}
ASSUME NoAccountAssumption == NoAccount \notin Accounts

Days == 1..LastDay

\* An attempt has its own idempotency key, so its own reservation.
Attempts == Requests \X (1..MaxAttempts)

VARIABLES
    today,      \* the UTC day
    res,        \* request_reservations: the row of each attempt
    windows,    \* per account, the days quota_runtime has a row for
    reserved,   \* quota_runtime.reserved_requests
    consumed,   \* quota_runtime.consumed_requests
    at,         \* where each dispatch is
    tries,      \* RetryState.attempts
    account,    \* the account of the current attempt
    excluded,   \* RetryState.excluded_candidates
    received    \* the attempts a provider has received (history)

tableVars == <<res, windows, reserved, consumed>>
retryVars == <<tries, account, excluded>>
vars == <<today, tableVars, at, retryVars, received>>

Live == {"RESERVED", "DISPATCHING", "SENT", "UNCERTAIN"}
Final == {"SETTLED_SUCCESS", "SETTLED_FAILURE", "RELEASED", "EXPIRED"}
Points == {"select", "reserve", "mark", "send", "sent", "settle", "release",
           "uncertain", "done"}

Rows == [state: Live \cup Final \cup {"none"}, acct: Accounts \cup {NoAccount},
         day: Days, used: BOOLEAN]

NoRow == [state |-> "none", acct |-> NoAccount, day |-> 1, used |-> FALSE]

Current(q) == <<q, tries[q]>>

-----------------------------------------------------------------------------
(* The repository's statements *)

\* active_reservation_count
ActiveCount(a) ==
    Cardinality({x \in Attempts : res[x].acct = a /\ res[x].state \in Live})

\* Mutant: the request itself is not counted.
AlmostFits(a) ==
    Limit = 0 \/ reserved[a][today] + consumed[a][today] <= Limit

\* reserve_quota's test of the window of the day
Fits(a) ==
    Limit = 0 \/ reserved[a][today] + consumed[a][today] + 1 <= Limit

\* Mutant: no predicate on the state.
AnyRow(x) == TRUE

\* The state predicate of _update_reservation_state and settle_reservation
IsLive(x) == res[x].state \in Live

\* Mutant: the slot of a settled reservation stays reserved.
KeepsSlot(a) == UNCHANGED reserved

\* Mutant: without the MAX(0, ...).
TakesBack(a) ==
    reserved' = [reserved EXCEPT ![a] = [d \in Days |-> reserved[a][d] - 1]]

\* MAX(0, reserved_requests - 1), in every daily window of the account.
GivesBack(a) ==
    reserved' = [reserved EXCEPT ![a] =
                    [d \in Days |-> IF reserved[a][d] > 0
                                      THEN reserved[a][d] - 1 ELSE 0]]

\* Mutant: only the newest window is charged.
ChargesToday(a) ==
    consumed' = [consumed EXCEPT ![a] =
                    [d \in Days |-> IF d = today /\ d \in windows[a]
                                      THEN consumed[a][d] + 1
                                      ELSE consumed[a][d]]]

\* consumed_requests + 1, in every daily window of the account.
Charges(a) ==
    consumed' = [consumed EXCEPT ![a] =
                    [d \in Days |-> IF d \in windows[a] THEN consumed[a][d] + 1
                                                        ELSE consumed[a][d]]]

SetRow(x, state, used) ==
    res' = [res EXCEPT ![x] = [state |-> state, acct |-> res[x].acct,
                               day |-> res[x].day, used |-> used]]

\* settle_reservation; the caller goes on at one of the points if it succeeds.
SettlesAs(x, state, used) ==
    /\ IsLive(x)
    /\ SetRow(x, state, used)
    /\ GivesBack(res[x].acct)
    /\ IF used THEN Charges(res[x].acct) ELSE UNCHANGED consumed
    /\ UNCHANGED windows

-----------------------------------------------------------------------------
(* KeyRouter.dispatch *)

Goto(q, point) == at' = [at EXCEPT ![q] = point]

\* Mutant: the failed candidate is not excluded.
RetriesAnything(q) ==
    Goto(q, "select") /\ UNCHANGED excluded

\* record_failure excludes the candidate before the next attempt; the rest of
\* can_retry (failover budgets, deadline) is left open.
Retries(q) ==
    /\ Goto(q, "select")
    /\ excluded' = [excluded EXCEPT ![q] = @ \cup {account[q]}]

GivesUp(q) == Goto(q, "done") /\ UNCHANGED excluded

\* select_route; the loop's own condition; begin_attempt.
Selects(q) ==
    /\ at[q] = "select"
    /\ tries[q] < MaxAttempts
    /\ \E a \in Accounts \ excluded[q] :
          /\ ActiveCount(a) < Concurrency
          /\ account' = [account EXCEPT ![q] = a]
    /\ tries' = [tries EXCEPT ![q] = @ + 1]
    /\ Goto(q, "reserve")
    /\ UNCHANGED <<today, tableVars, excluded, received>>

\* No candidate or no attempt is left.
Exhausts(q) ==
    /\ at[q] = "select"
    /\ Goto(q, "done")
    /\ UNCHANGED <<today, tableVars, retryVars, received>>

\* reserve_quota in one BEGIN IMMEDIATE transaction.
Reserves(q) ==
    /\ at[q] = "reserve"
    /\ Fits(account[q])
    /\ windows' = [windows EXCEPT ![account[q]] = @ \cup {today}]
    /\ reserved' = [reserved EXCEPT ![account[q]] =
                       [d \in Days |-> IF d = today THEN reserved[account[q]][d] + 1
                                                    ELSE reserved[account[q]][d]]]
    /\ res' = [res EXCEPT ![Current(q)] =
                  [state |-> "RESERVED", acct |-> account[q], day |-> today,
                   used |-> FALSE]]
    /\ Goto(q, "mark")
    /\ UNCHANGED <<today, consumed, retryVars, received>>

\* QuotaExceeded leaves dispatch: no other account is tried.
QuotaIsExceeded(q) ==
    /\ at[q] = "reserve"
    /\ ~Fits(account[q])
    /\ Goto(q, "done")
    /\ UNCHANGED <<today, tableVars, retryVars, received>>

\* mark_dispatching; a reservation that expired meanwhile ends the dispatch.
MarksDispatching(q) ==
    /\ at[q] = "mark"
    /\ IF IsLive(Current(q))
         THEN SetRow(Current(q), "DISPATCHING", FALSE) /\ Goto(q, "send")
         ELSE UNCHANGED res /\ Goto(q, "done")
    /\ UNCHANGED <<today, windows, reserved, consumed, retryVars, received>>

\* The provider answers; or the transport raises, with request_sent (a read
\* timeout) or without (no connection, or one lost before the answer), or the
\* process dies; all three before or after the provider received the request.
Sends(q) ==
    /\ at[q] = "send"
    /\ \/ received' = received \cup {Current(q)} /\ Goto(q, "sent")
       \/ /\ received' \in {received, received \cup {Current(q)}}
          /\ \E point \in {"release", "uncertain", "done"} : Goto(q, point)
    /\ UNCHANGED <<today, tableVars, retryVars>>

\* mark_sent; an exception it raises is handled as one of the transport, and
\* has no request_sent.
MarksSent(q) ==
    /\ at[q] = "sent"
    /\ \/ IsLive(Current(q)) /\ SetRow(Current(q), "SENT", FALSE) /\ Goto(q, "settle")
       \/ UNCHANGED res /\ Goto(q, "release")
    /\ UNCHANGED <<today, windows, reserved, consumed, retryVars, received>>

Succeeds(q) ==
    /\ at[q] = "settle"
    /\ SettlesAs(Current(q), "SETTLED_SUCCESS", TRUE)
    /\ GivesUp(q)
    /\ UNCHANGED <<today, tries, account, received>>

\* An error status or an unreadable answer; 400 and 422 consume the request.
Fails(q) ==
    /\ at[q] = "settle"
    /\ \E used \in BOOLEAN : SettlesAs(Current(q), "SETTLED_FAILURE", used)
    /\ Retries(q) \/ GivesUp(q)
    /\ UNCHANGED <<today, tries, account, received>>

Releases(q) ==
    /\ at[q] = "release"
    /\ SettlesAs(Current(q), "RELEASED", FALSE)
    /\ Retries(q) \/ GivesUp(q)
    /\ UNCHANGED <<today, tries, account, received>>

\* mark_uncertain; a TransportFailure is a NETWORK_ERROR, which is retryable.
TurnsUncertain(q) ==
    /\ at[q] = "uncertain"
    /\ IsLive(Current(q))
    /\ SetRow(Current(q), "UNCERTAIN", FALSE)
    /\ Retries(q) \/ GivesUp(q)
    /\ UNCHANGED <<today, windows, reserved, consumed, tries, account, received>>

\* The process dies, or an exception that dispatch does not handle leaves it.
Aborts(q) ==
    /\ at[q] # "done"
    /\ Goto(q, "done")
    /\ UNCHANGED <<today, tableVars, retryVars, received>>

-----------------------------------------------------------------------------
(* reconcile_reservations and the clock *)

\* Mutant: a dispatched reservation expires like one that is only reserved.
ExpiresDispatched(x) ==
    /\ res[x].state \in {"RESERVED", "DISPATCHING"}
    /\ SetRow(x, "EXPIRED", FALSE)
    /\ GivesBack(res[x].acct)
    /\ UNCHANGED <<today, windows, consumed, at, retryVars, received>>

\* One row of a reconciliation; which rows are old enough is left open, and
\* the rows are independent of each other.
Expires(x) ==
    /\ res[x].state = "RESERVED"
    /\ SetRow(x, "EXPIRED", FALSE)
    /\ GivesBack(res[x].acct)
    /\ UNCHANGED <<today, windows, consumed, at, retryVars, received>>

GrowsUncertain(x) ==
    /\ res[x].state \in {"DISPATCHING", "SENT"}
    /\ SetRow(x, "UNCERTAIN", FALSE)
    /\ UNCHANGED <<today, windows, reserved, consumed, at, retryVars, received>>

Midnight ==
    /\ today < LastDay
    /\ today' = today + 1
    /\ UNCHANGED <<tableVars, at, retryVars, received>>

-----------------------------------------------------------------------------
Init ==
    /\ today = 1
    /\ res = [x \in Attempts |-> NoRow]
    /\ windows = [a \in Accounts |-> {}]
    /\ reserved = [a \in Accounts |-> [d \in Days |-> 0]]
    /\ consumed = [a \in Accounts |-> [d \in Days |-> 0]]
    /\ at = [q \in Requests |-> "select"]
    /\ tries = [q \in Requests |-> 0]
    /\ account = [q \in Requests |-> NoAccount]
    /\ excluded = [q \in Requests |-> {}]
    /\ received = {}

Dispatch(q) ==
    \/ Selects(q) \/ Exhausts(q) \/ Reserves(q) \/ QuotaIsExceeded(q)
    \/ MarksDispatching(q) \/ Sends(q) \/ MarksSent(q) \/ Succeeds(q)
    \/ Fails(q) \/ Releases(q) \/ TurnsUncertain(q) \/ Aborts(q)

Next ==
    \/ \E q \in Requests : Dispatch(q)
    \/ \E x \in Attempts : Expires(x) \/ GrowsUncertain(x)
    \/ Midnight

Spec == Init /\ [][Next]_vars

-----------------------------------------------------------------------------
(* Properties *)

\* Every variable holds what the tables and the dispatches can hold.
TypeOK ==
    /\ today \in Days
    /\ res \in [Attempts -> Rows]
    /\ windows \in [Accounts -> SUBSET Days]
    /\ reserved \in [Accounts -> [Days -> Nat]]
    /\ consumed \in [Accounts -> [Days -> Nat]]
    /\ at \in [Requests -> Points]
    /\ tries \in [Requests -> 0..MaxAttempts]
    /\ account \in [Requests -> Accounts \cup {NoAccount}]
    /\ excluded \in [Requests -> SUBSET Accounts]
    /\ received \subseteq Attempts

LiveOf(a, d) ==
    {x \in Attempts : res[x].acct = a /\ res[x].day = d /\ res[x].state \in Live}

UsedOf(a, d) ==
    {x \in Attempts : res[x].acct = a /\ res[x].day = d /\ res[x].used}

\* While no midnight has passed, the counters are exact: every live
\* reservation, whoever died holding it, is counted once, every other not.
CountersAreExact ==
    today = 1 => \A a \in Accounts :
        /\ reserved[a][1] = Cardinality(LiveOf(a, 1))
        /\ consumed[a][1] = Cardinality(UsedOf(a, 1))

\* reserve_quota: however many processes reserve, settle, die and reconcile,
\* the requests of a day, pending and made, stay within the account's limit.
LimitHolds ==
    today = 1 /\ Limit # 0 => \A a \in Accounts :
        Cardinality(LiveOf(a, 1)) + Cardinality(UsedOf(a, 1)) <= Limit

\* On any day, no slot stays reserved without a live reservation of the day,
\* and every request that was consumed is charged to its day.
NothingIsLeaked ==
    \A a \in Accounts, d \in Days :
        /\ reserved[a][d] <= Cardinality(LiveOf(a, d))
        /\ consumed[a][d] >= Cardinality(UsedOf(a, d))

\* The ledger of the quotas, through deaths and reconciliations: exact and
\* within the limit on the first day, leaking nothing on any
\* (repository reserve_quota, settle_reservation).
QuotaHolds == CountersAreExact /\ LimitHolds /\ NothingIsLeaked

\* A reservation that was settled, released or expired stays as it is,
\* whichever of its dispatch and a reconciliation comes second.
FinalStays ==
    \A x \in Attempts : res[x].state \in Final => res'[x] = res[x]

SettledIsFinal == [][FinalStays]_vars

\* A reservation that a reconciliation expired, and whose slot it gave away,
\* never carries a request to a provider.
ExpiredWasNotSent == \A x \in received : res[x].state # "EXPIRED"

\* No candidate gets the same request twice.
NoCandidateTwice ==
    \A q \in Requests : \A m, n \in 1..MaxAttempts :
        m # n /\ res[<<q, m>>].state # "none"
              => res[<<q, m>>].acct # res[<<q, n>>].acct

-----------------------------------------------------------------------------
(* What the documentation and tests say and the code does not ensure *)

\* quota windows are "keyed by ... window_started_at": the requests of any day
\* stay within the limit.
LimitHoldsEveryDay ==
    Limit # 0 => \A a \in Accounts, d \in Days :
        Cardinality(LiveOf(a, d)) + Cardinality(UsedOf(a, d)) <= Limit

\* "Timeout-after-send becomes UNCERTAIN and is not retried by default".
UncertainIsNotResent ==
    \A q \in Requests : \A m, n \in 1..MaxAttempts :
        m < n /\ <<q, m>> \in received /\ res[<<q, m>>].state = "UNCERTAIN"
           => <<q, n>> \notin received
=============================================================================
