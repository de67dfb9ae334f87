------------------------ MODULE RouterDispatchProofs ------------------------
(***************************************************************************)
(* Proofs about RouterDispatch for any number of dispatches, accounts,     *)
(* attempts and days, and any limits.                                      *)
(*                                                                         *)
(* A dispatch is the only one to move its reservation, except that a       *)
(* reconciliation may expire it before it is dispatched and make it        *)
(* uncertain afterwards (FlowOK).  To the tables a step does one of four   *)
(* things (Effect): nothing, it places a row, it relabels a live row, or   *)
(* it settles a live row; the counters follow the rows through each of     *)
(* them (LedgerOK).  A rank of attempts and points bounds the steps of a   *)
(* dispatch (DispatchesNearEnd).                                           *)
(***************************************************************************)
EXTENDS RouterDispatch, FiniteSetTheorems, TLAPS

InFlight == {"send", "sent", "settle", "release", "uncertain"}
Dispatched == {"DISPATCHING", "SENT", "UNCERTAIN"}

RowsOK ==
    \A x \in Attempts :
        /\ res[x].state = "none" => res[x] = NoRow
        /\ res[x].state # "none" => /\ res[x].acct \in Accounts
                                    /\ res[x].day <= today
                                    /\ res[x].day \in windows[res[x].acct]
        /\ res[x].state \in Live => ~res[x].used
        /\ x \in received => res[x].state \notin {"none", "RESERVED", "EXPIRED"}

FlowOf(q) ==
    /\ at[q] \in {"reserve", "mark"} \cup InFlight
          => /\ tries[q] \in 1..MaxAttempts
             /\ account[q] \in Accounts \ excluded[q]
    /\ at[q] = "reserve" => res[Current(q)].state = "none"
    /\ at[q] = "mark" => res[Current(q)].state \in {"RESERVED", "EXPIRED"}
    /\ at[q] \in InFlight => res[Current(q)].state \in Dispatched

FlowOK == \A q \in Requests : FlowOf(q)

\* The accounts that have been tried are excluded, or are being tried.
RoutesOf(q) ==
    \A n \in 1..MaxAttempts :
        res[<<q, n>>].state # "none" =>
            /\ n <= tries[q]
            /\ \/ at[q] = "done"
               \/ res[<<q, n>>].acct \in excluded[q]
               \/ /\ n = tries[q] /\ at[q] \in {"mark"} \cup InFlight
                  /\ res[<<q, n>>].acct = account[q]

RoutesOK == \A q \in Requests : RoutesOf(q)

LedgerOK == CountersAreExact /\ LimitHolds /\ NothingIsLeaked

IInv == TypeOK /\ RowsOK /\ FlowOK /\ RoutesOK /\ NoCandidateTwice /\ LedgerOK

-----------------------------------------------------------------------------
(* Counting reservations *)

LEMMA FiniteAttempts == IsFiniteSet(Attempts)
  <1>1. IsFiniteSet(1..MaxAttempts)
    BY FS_Interval, NumbersAssumption
  <1> QED BY <1>1, FS_Product, RequestsAssumption DEF Attempts

LEMMA Counts ==
    \A a \in Accounts, d \in Days :
        /\ IsFiniteSet(LiveOf(a, d)) /\ Cardinality(LiveOf(a, d)) \in Nat
        /\ IsFiniteSet(UsedOf(a, d)) /\ Cardinality(UsedOf(a, d)) \in Nat
  <1> SUFFICES ASSUME NEW a \in Accounts, NEW d \in Days
               PROVE  /\ IsFiniteSet(LiveOf(a, d)) /\ Cardinality(LiveOf(a, d)) \in Nat
                      /\ IsFiniteSet(UsedOf(a, d)) /\ Cardinality(UsedOf(a, d)) \in Nat
    OBVIOUS
  <1>1. LiveOf(a, d) \in SUBSET Attempts /\ UsedOf(a, d) \in SUBSET Attempts
    BY DEF LiveOf, UsedOf
  <1>2. IsFiniteSet(LiveOf(a, d)) /\ IsFiniteSet(UsedOf(a, d))
    BY <1>1, FiniteAttempts, FS_Subset
  <1> QED BY <1>2, FS_CardinalityType

-----------------------------------------------------------------------------
(* What a step does to the tables *)

Untouched == UNCHANGED tableVars

Placed(x, a) ==
    /\ res[x].state = "none" /\ Fits(a)
    /\ res' = [res EXCEPT ![x] = [state |-> "RESERVED", acct |-> a,
                                  day |-> today, used |-> FALSE]]
    /\ windows' = [windows EXCEPT ![a] = @ \cup {today}]
    /\ reserved' = [reserved EXCEPT ![a] =
                       [d \in Days |-> IF d = today THEN reserved[a][d] + 1
                                                    ELSE reserved[a][d]]]
    /\ UNCHANGED consumed

Relabelled(x, state) ==
    /\ IsLive(x) /\ SetRow(x, state, FALSE)
    /\ UNCHANGED <<windows, reserved, consumed>>

Effect ==
    \/ Untouched
    \/ \E q \in Requests : Reserves(q) /\ Placed(Current(q), account[q])
    \/ \E x \in Attempts, state \in Dispatched : Relabelled(x, state)
    \/ \E x \in Attempts, state \in Final, used \in BOOLEAN :
          /\ SettlesAs(x, state, used)
          /\ state = "EXPIRED" => res[x].state = "RESERVED"

LEMMA CurrentAttempt ==
    ASSUME IInv, NEW q \in Requests, at[q] \in {"reserve", "mark"} \cup InFlight
    PROVE  /\ Current(q) \in Attempts
           /\ tries[q] \in 1..MaxAttempts
           /\ account[q] \in Accounts /\ account[q] \notin excluded[q]
           /\ at[q] = "mark" => res[Current(q)].state \in {"RESERVED", "EXPIRED"}
           /\ at[q] \in InFlight => res[Current(q)].state \in Dispatched
           /\ at[q] = "reserve" => res[Current(q)].state = "none"
  <1>1. tries[q] \in 1..MaxAttempts /\ account[q] \in Accounts \ excluded[q]
    BY DEF IInv, FlowOK, FlowOf
  <1>2. Current(q) \in Attempts
    BY <1>1 DEF Current, Attempts
  <1> QED BY <1>1, <1>2 DEF IInv, FlowOK, FlowOf

\* Every step has one of the four effects on the tables.
LEMMA StepEffect ==
    ASSUME IInv, [Next]_vars
    PROVE  Effect
  <1> USE DEF Untouched, tableVars
  <1>1. ASSUME NEW q \in Requests, Reserves(q) PROVE Effect
    <2>1. Placed(Current(q), account[q])
      BY <1>1, CurrentAttempt DEF Reserves, Placed
    <2> QED BY <1>1, <2>1, CurrentAttempt DEF Reserves, Effect
  <1>2. ASSUME NEW q \in Requests, MarksDispatching(q) PROVE Effect
    <2>1. CASE IsLive(Current(q))
      <3>1. Relabelled(Current(q), "DISPATCHING")
        BY <1>2, <2>1 DEF MarksDispatching, Relabelled
      <3> QED BY <1>2, <3>1, CurrentAttempt DEF MarksDispatching, Effect, Dispatched
    <2>2. CASE ~IsLive(Current(q))
      BY <1>2, <2>2 DEF MarksDispatching, Effect
    <2> QED BY <2>1, <2>2
  <1>3. ASSUME NEW q \in Requests, MarksSent(q) PROVE Effect
    <2>1. CASE UNCHANGED res
      BY <1>3, <2>1 DEF MarksSent, Effect
    <2>2. CASE IsLive(Current(q)) /\ SetRow(Current(q), "SENT", FALSE)
      <3>1. Relabelled(Current(q), "SENT")
        BY <1>3, <2>2 DEF MarksSent, Relabelled
      <3> QED BY <1>3, <3>1, CurrentAttempt DEF MarksSent, Effect, Dispatched,
              InFlight
    <2> QED BY <1>3, <2>1, <2>2 DEF MarksSent
  <1>4. ASSUME NEW q \in Requests, TurnsUncertain(q) PROVE Effect
    <2>1. Relabelled(Current(q), "UNCERTAIN")
      BY <1>4 DEF TurnsUncertain, Relabelled
    <2> QED BY <1>4, <2>1, CurrentAttempt DEF TurnsUncertain, Effect, Dispatched,
            InFlight
  <1>5. ASSUME NEW q \in Requests, Succeeds(q) \/ Fails(q) \/ Releases(q)
        PROVE  Effect
    <2>1. Current(q) \in Attempts
      BY <1>5, CurrentAttempt DEF Succeeds, Fails, Releases, InFlight
    <2> QED BY <1>5, <2>1 DEF Succeeds, Fails, Releases, Effect, Final
  <1>6. ASSUME NEW q \in Requests,
               \/ Selects(q) \/ Exhausts(q) \/ QuotaIsExceeded(q) \/ Sends(q)
               \/ Aborts(q)
        PROVE  Effect
    BY <1>6 DEF Selects, Exhausts, QuotaIsExceeded, Sends, Aborts, Effect
  <1>7. ASSUME NEW x \in Attempts, Expires(x) PROVE Effect
    <2>1. SettlesAs(x, "EXPIRED", FALSE)
      BY <1>7 DEF Expires, SettlesAs, IsLive, Live
    <2> QED BY <1>7, <2>1 DEF Effect, Final, Expires
  <1>8. ASSUME NEW x \in Attempts, GrowsUncertain(x) PROVE Effect
    <2>1. Relabelled(x, "UNCERTAIN")
      BY <1>8 DEF GrowsUncertain, Relabelled, IsLive, Live
    <2> QED BY <2>1 DEF Effect, Dispatched
  <1>9. CASE Midnight \/ UNCHANGED vars
    BY <1>9 DEF Midnight, vars, Effect
  <1> QED BY <1>1, <1>2, <1>3, <1>4, <1>5, <1>6, <1>7, <1>8, <1>9
          DEF Next, Dispatch

\* Only midnight changes the day.
LEMMA Clock ==
    ASSUME TypeOK, [Next]_vars
    PROVE  /\ today' \in Days /\ today \in Days
           /\ today' = today \/ Midnight
           /\ today' = 1 => today = 1
  <1>1. today \in 1..LastDay /\ LastDay \in Nat
    BY NumbersAssumption DEF TypeOK, Days
  <1>2. CASE Midnight
    <2>1. today' = today + 1 /\ today < LastDay
      BY <1>2 DEF Midnight
    <2>2. today' \in 1..LastDay /\ today' # 1
      BY <1>1, <2>1
    <2> QED BY <1>1, <1>2, <2>2 DEF Days
  <1>3. ASSUME NEW q \in Requests, Dispatch(q) PROVE today' = today
    BY <1>3 DEF Dispatch, Selects, Exhausts, Reserves, QuotaIsExceeded,
       MarksDispatching, Sends, MarksSent, Succeeds, Fails, Releases,
       TurnsUncertain, Aborts
  <1>4. ASSUME NEW x \in Attempts, Expires(x) \/ GrowsUncertain(x)
        PROVE  today' = today
    BY <1>4 DEF Expires, GrowsUncertain
  <1>5. ASSUME UNCHANGED vars PROVE today' = today
    BY <1>5 DEF vars
  <1> QED BY <1>1, <1>2, <1>3, <1>4, <1>5 DEF Next, Days

-----------------------------------------------------------------------------
(* The ledger under each effect *)

\* Two sets that agree on everything but one element.
LEMMA SameSet ==
    ASSUME NEW A, NEW S \in SUBSET A, NEW T \in SUBSET A, NEW x \in A,
           \A y \in A \ {x} : y \in T <=> y \in S, x \in S <=> x \in T
    PROVE  T = S
  <1> QED OBVIOUS

LEMMA OneMore ==
    ASSUME NEW A, NEW S \in SUBSET A, NEW T \in SUBSET A, NEW x \in A,
           \A y \in A \ {x} : y \in T <=> y \in S, x \in T
    PROVE  T = S \cup {x}
  <1> QED OBVIOUS

LEMMA OneLess ==
    ASSUME NEW A, NEW S \in SUBSET A, NEW T \in SUBSET A, NEW x \in A,
           \A y \in A \ {x} : y \in T <=> y \in S, x \notin T
    PROVE  T = S \ {x}
  <1> QED OBVIOUS

LEMMA LedgerPlaced ==
    ASSUME IInv, NEW x \in Attempts, NEW a \in Accounts, Placed(x, a),
           today' = today
    PROVE  LedgerOK'
  <1>1. today \in Days /\ res \in [Attempts -> Rows] /\ res[x] = NoRow
    BY DEF Placed, RowsOK, IInv, TypeOK
  <1>2. \A y \in Attempts \ {x} : res'[y] = res[y]
    BY <1>1 DEF Placed
  <1>3. res'[x] = [state |-> "RESERVED", acct |-> a, day |-> today, used |-> FALSE]
    BY <1>1 DEF Placed
  <1>4. x \notin LiveOf(a, today)
    BY <1>1 DEF LiveOf, NoRow, Live
  <1>5. \A b \in Accounts, d \in Days :
          LiveOf(b, d)' = IF b = a /\ d = today THEN LiveOf(b, d) \cup {x}
                                                ELSE LiveOf(b, d)
    <2> SUFFICES ASSUME NEW b \in Accounts, NEW d \in Days
                 PROVE  LiveOf(b, d)' = IF b = a /\ d = today
                                          THEN LiveOf(b, d) \cup {x}
                                          ELSE LiveOf(b, d)
      OBVIOUS
    <2>1. x \notin LiveOf(b, d)
      BY <1>1 DEF LiveOf, NoRow, Live
    <2>2. x \in LiveOf(b, d)' <=> b = a /\ d = today
      BY <1>3 DEF LiveOf, Live
    <2>3. \A y \in Attempts \ {x} : y \in LiveOf(b, d)' <=> y \in LiveOf(b, d)
      BY <1>2 DEF LiveOf
    <2>4. LiveOf(b, d) \in SUBSET Attempts /\ LiveOf(b, d)' \in SUBSET Attempts
      BY DEF LiveOf
    <2>5. ASSUME b = a /\ d = today PROVE LiveOf(b, d)' = LiveOf(b, d) \cup {x}
      BY <2>2, <2>3, <2>4, <2>5, OneMore
    <2>6. ASSUME ~(b = a /\ d = today) PROVE LiveOf(b, d)' = LiveOf(b, d)
      BY <2>1, <2>2, <2>3, <2>4, <2>6, SameSet
    <2> QED BY <2>5, <2>6
  <1>6. \A b \in Accounts, d \in Days : UsedOf(b, d)' = UsedOf(b, d)
    <2> SUFFICES ASSUME NEW b \in Accounts, NEW d \in Days
                 PROVE  UsedOf(b, d)' = UsedOf(b, d)
      OBVIOUS
    <2>1. x \notin UsedOf(b, d) /\ x \notin UsedOf(b, d)'
      BY <1>1, <1>3 DEF UsedOf, NoRow
    <2>2. \A y \in Attempts \ {x} : y \in UsedOf(b, d)' <=> y \in UsedOf(b, d)
      BY <1>2 DEF UsedOf
    <2>3. UsedOf(b, d) \in SUBSET Attempts /\ UsedOf(b, d)' \in SUBSET Attempts
      BY DEF UsedOf
    <2> QED BY <2>1, <2>2, <2>3, SameSet
  <1>7. /\ Cardinality(LiveOf(a, today) \cup {x}) = Cardinality(LiveOf(a, today)) + 1
        /\ \A b \in Accounts, d \in Days :
              Cardinality(LiveOf(b, d)) \in Nat /\ Cardinality(UsedOf(b, d)) \in Nat
    BY <1>1, <1>4, Counts, FS_AddElement
  <1>8. \A b \in Accounts, d \in Days :
          /\ reserved'[b][d] = IF b = a /\ d = today THEN reserved[b][d] + 1
                                                     ELSE reserved[b][d]
          /\ consumed'[b][d] = consumed[b][d]
          /\ reserved[b][d] \in Nat /\ consumed[b][d] \in Nat
    BY DEF Placed, IInv, TypeOK
  <1>9. \A b \in Accounts, d \in Days :
          /\ Cardinality(LiveOf(b, d)') =
                IF b = a /\ d = today THEN Cardinality(LiveOf(b, d)) + 1
                                      ELSE Cardinality(LiveOf(b, d))
          /\ Cardinality(UsedOf(b, d)') = Cardinality(UsedOf(b, d))
    BY <1>5, <1>6, <1>7
  <1>10. NothingIsLeaked'
    BY <1>7, <1>8, <1>9 DEF IInv, LedgerOK, NothingIsLeaked
  <1>11. today = 1 => 1 \in Days
    BY <1>1
  <1>12. CountersAreExact'
    BY <1>7, <1>8, <1>9, <1>11 DEF IInv, LedgerOK, CountersAreExact
  <1>13. LimitHolds'
    <2> SUFFICES ASSUME today = 1, Limit # 0, NEW b \in Accounts
                 PROVE  Cardinality(LiveOf(b, 1)') + Cardinality(UsedOf(b, 1)') <= Limit
      BY DEF LimitHolds
    <2>1. reserved[a][1] + consumed[a][1] + 1 <= Limit
      BY DEF Placed, Fits
    <2>2. /\ reserved[b][1] = Cardinality(LiveOf(b, 1))
          /\ consumed[b][1] = Cardinality(UsedOf(b, 1))
      BY DEF IInv, LedgerOK, CountersAreExact
    <2>3. Cardinality(LiveOf(b, 1)) + Cardinality(UsedOf(b, 1)) <= Limit
      BY DEF IInv, LedgerOK, LimitHolds
    <2>4. /\ Cardinality(LiveOf(b, 1)') =
                IF b = a THEN Cardinality(LiveOf(b, 1)) + 1
                         ELSE Cardinality(LiveOf(b, 1))
          /\ Cardinality(UsedOf(b, 1)') = Cardinality(UsedOf(b, 1))
      BY <1>9, <1>11
    <2>5. Cardinality(LiveOf(b, 1)) \in Nat /\ Cardinality(UsedOf(b, 1)) \in Nat
          /\ Limit \in Nat
      BY <1>7, <1>11, NumbersAssumption
    <2> QED BY <2>1, <2>2, <2>3, <2>4, <2>5
  <1> QED BY <1>10, <1>12, <1>13 DEF LedgerOK

LEMMA LedgerRelabelled ==
    ASSUME IInv, NEW x \in Attempts, NEW state \in Dispatched, Relabelled(x, state),
           today' = today
    PROVE  LedgerOK'
  <1>1. res \in [Attempts -> Rows]
    BY DEF IInv, TypeOK
  <1>2. res'[x] = [state |-> state, acct |-> res[x].acct, day |-> res[x].day,
                   used |-> FALSE]
    BY <1>1 DEF Relabelled, SetRow
  <1>3. res[x].state \in Live /\ ~res[x].used /\ state \in Live
    BY DEF Relabelled, IsLive, IInv, RowsOK, Dispatched, Live
  <1>4. \A y \in Attempts \ {x} : res'[y] = res[y]
    BY <1>1 DEF Relabelled, SetRow
  <1>5. \A b \in Accounts, d \in Days : LiveOf(b, d)' = LiveOf(b, d)
    <2> SUFFICES ASSUME NEW b \in Accounts, NEW d \in Days
                 PROVE  LiveOf(b, d)' = LiveOf(b, d)
      OBVIOUS
    <2>1. x \in LiveOf(b, d)' <=> x \in LiveOf(b, d)
      BY <1>2, <1>3 DEF LiveOf
    <2>2. \A y \in Attempts \ {x} : y \in LiveOf(b, d)' <=> y \in LiveOf(b, d)
      BY <1>4 DEF LiveOf
    <2>3. LiveOf(b, d) \in SUBSET Attempts /\ LiveOf(b, d)' \in SUBSET Attempts
      BY DEF LiveOf
    <2> QED BY <2>1, <2>2, <2>3, SameSet
  <1>6. \A b \in Accounts, d \in Days : UsedOf(b, d)' = UsedOf(b, d)
    <2> SUFFICES ASSUME NEW b \in Accounts, NEW d \in Days
                 PROVE  UsedOf(b, d)' = UsedOf(b, d)
      OBVIOUS
    <2>1. x \notin UsedOf(b, d) /\ x \notin UsedOf(b, d)'
      BY <1>2, <1>3 DEF UsedOf
    <2>2. \A y \in Attempts \ {x} : y \in UsedOf(b, d)' <=> y \in UsedOf(b, d)
      BY <1>4 DEF UsedOf
    <2>3. UsedOf(b, d) \in SUBSET Attempts /\ UsedOf(b, d)' \in SUBSET Attempts
      BY DEF UsedOf
    <2> QED BY <2>1, <2>2, <2>3, SameSet
  <1>7. reserved' = reserved /\ consumed' = consumed
    BY DEF Relabelled
  <1>8. today = 1 => 1 \in Days
    BY DEF IInv, TypeOK
  <1>9. NothingIsLeaked'
    BY <1>5, <1>6, <1>7 DEF IInv, LedgerOK, NothingIsLeaked
  <1>10. CountersAreExact' /\ LimitHolds'
    BY <1>5, <1>6, <1>7, <1>8 DEF IInv, LedgerOK, CountersAreExact, LimitHolds
  <1> QED BY <1>9, <1>10 DEF LedgerOK

LEMMA LedgerSettled ==
    ASSUME IInv, NEW x \in Attempts, NEW state \in Final, NEW used \in BOOLEAN,
           SettlesAs(x, state, used), today' = today
    PROVE  LedgerOK'
  <1> DEFINE a == res[x].acct
             day == res[x].day
  <1>1. /\ res \in [Attempts -> Rows]
        /\ res[x].state \in Live /\ ~res[x].used
        /\ a \in Accounts /\ day \in Days /\ day <= today /\ day \in windows[a]
    <2>1. res \in [Attempts -> Rows] /\ res[x].state \in Live
      BY DEF IInv, TypeOK, SettlesAs, IsLive
    <2>2. res[x].state # "none" /\ day \in Days
      BY <2>1 DEF Live, Rows
    <2> QED BY <2>1, <2>2 DEF IInv, RowsOK
  <1>2. res'[x] = [state |-> state, acct |-> a, day |-> day, used |-> used]
    BY <1>1 DEF SettlesAs, SetRow
  <1>3. \A y \in Attempts \ {x} : res'[y] = res[y]
    BY <1>1 DEF SettlesAs, SetRow
  <1>4. state \notin Live
    BY DEF Final, Live
  <1> HIDE DEF a, day
  <1>5. \A b \in Accounts, d \in Days :
          IF b = a /\ d = day
            THEN /\ x \in LiveOf(b, d) /\ LiveOf(b, d)' = LiveOf(b, d) \ {x}
                 /\ x \notin UsedOf(b, d)
                 /\ UsedOf(b, d)' = IF used THEN UsedOf(b, d) \cup {x}
                                            ELSE UsedOf(b, d)
            ELSE LiveOf(b, d)' = LiveOf(b, d) /\ UsedOf(b, d)' = UsedOf(b, d)
    <2> SUFFICES ASSUME NEW b \in Accounts, NEW d \in Days
                 PROVE  IF b = a /\ d = day
                          THEN /\ x \in LiveOf(b, d)
                               /\ LiveOf(b, d)' = LiveOf(b, d) \ {x}
                               /\ x \notin UsedOf(b, d)
                               /\ UsedOf(b, d)' = IF used THEN UsedOf(b, d) \cup {x}
                                                          ELSE UsedOf(b, d)
                          ELSE /\ LiveOf(b, d)' = LiveOf(b, d)
                               /\ UsedOf(b, d)' = UsedOf(b, d)
      OBVIOUS
    <2>1. /\ x \in LiveOf(b, d) <=> b = a /\ d = day
          /\ x \notin LiveOf(b, d)'
          /\ x \notin UsedOf(b, d)
          /\ x \in UsedOf(b, d)' <=> b = a /\ d = day /\ used
      BY <1>1, <1>2, <1>4 DEF LiveOf, UsedOf, a, day
    <2>2. \A y \in Attempts \ {x} :
             /\ y \in LiveOf(b, d)' <=> y \in LiveOf(b, d)
             /\ y \in UsedOf(b, d)' <=> y \in UsedOf(b, d)
      BY <1>3 DEF LiveOf, UsedOf
    <2>3. /\ LiveOf(b, d) \in SUBSET Attempts /\ LiveOf(b, d)' \in SUBSET Attempts
          /\ UsedOf(b, d) \in SUBSET Attempts /\ UsedOf(b, d)' \in SUBSET Attempts
      BY DEF LiveOf, UsedOf
    <2>4. LiveOf(b, d)' = LiveOf(b, d) \ {x}
      BY <2>1, <2>2, <2>3, OneLess
    <2>5. ASSUME b = a /\ d = day /\ used PROVE UsedOf(b, d)' = UsedOf(b, d) \cup {x}
      BY <2>1, <2>2, <2>3, <2>5, OneMore
    <2>6. ASSUME ~(b = a /\ d = day /\ used) PROVE UsedOf(b, d)' = UsedOf(b, d)
      BY <2>1, <2>2, <2>3, <2>6, SameSet
    <2>7. ASSUME ~(b = a /\ d = day) PROVE LiveOf(b, d)' = LiveOf(b, d)
      BY <2>1, <2>4, <2>7
    <2> QED BY <2>1, <2>4, <2>5, <2>6, <2>7
  <1>6. \A b \in Accounts, d \in Days :
          /\ Cardinality(LiveOf(b, d)) \in Nat /\ Cardinality(UsedOf(b, d)) \in Nat
          /\ Cardinality(LiveOf(b, d)') = IF b = a /\ d = day
                THEN Cardinality(LiveOf(b, d)) - 1 ELSE Cardinality(LiveOf(b, d))
          /\ b = a /\ d = day => Cardinality(LiveOf(b, d)) >= 1
          /\ Cardinality(UsedOf(b, d)') = IF b = a /\ d = day /\ used
                THEN Cardinality(UsedOf(b, d)) + 1 ELSE Cardinality(UsedOf(b, d))
    <2> SUFFICES ASSUME NEW b \in Accounts, NEW d \in Days
          PROVE  /\ Cardinality(LiveOf(b, d)) \in Nat /\ Cardinality(UsedOf(b, d)) \in Nat
                 /\ Cardinality(LiveOf(b, d)') = IF b = a /\ d = day
                       THEN Cardinality(LiveOf(b, d)) - 1 ELSE Cardinality(LiveOf(b, d))
                 /\ b = a /\ d = day => Cardinality(LiveOf(b, d)) >= 1
                 /\ Cardinality(UsedOf(b, d)') = IF b = a /\ d = day /\ used
                       THEN Cardinality(UsedOf(b, d)) + 1 ELSE Cardinality(UsedOf(b, d))
      OBVIOUS
    <2>1. /\ IsFiniteSet(LiveOf(b, d)) /\ Cardinality(LiveOf(b, d)) \in Nat
          /\ IsFiniteSet(UsedOf(b, d)) /\ Cardinality(UsedOf(b, d)) \in Nat
      BY Counts
    <2>2. /\ Cardinality(LiveOf(b, d) \ {x}) = IF x \in LiveOf(b, d)
                THEN Cardinality(LiveOf(b, d)) - 1 ELSE Cardinality(LiveOf(b, d))
          /\ Cardinality(LiveOf(b, d) \ {x}) \in Nat
      BY <2>1, FS_RemoveElement, FS_CardinalityType
    <2>3. Cardinality(UsedOf(b, d) \cup {x}) = IF x \in UsedOf(b, d)
                THEN Cardinality(UsedOf(b, d)) ELSE Cardinality(UsedOf(b, d)) + 1
      BY <2>1, FS_AddElement
    <2>4. ASSUME b = a /\ d = day
          PROVE  /\ Cardinality(LiveOf(b, d)') = Cardinality(LiveOf(b, d)) - 1
                 /\ Cardinality(LiveOf(b, d)) >= 1
                 /\ Cardinality(UsedOf(b, d)') = IF used
                       THEN Cardinality(UsedOf(b, d)) + 1 ELSE Cardinality(UsedOf(b, d))
      <3>1. /\ x \in LiveOf(b, d) /\ LiveOf(b, d)' = LiveOf(b, d) \ {x}
            /\ x \notin UsedOf(b, d)
            /\ UsedOf(b, d)' = IF used THEN UsedOf(b, d) \cup {x} ELSE UsedOf(b, d)
        BY <1>5, <2>4
      <3>2. Cardinality(LiveOf(b, d)) - 1 \in Nat
        BY <2>2, <3>1
      <3>3. Cardinality(LiveOf(b, d)) >= 1
        BY <2>1, <3>2
      <3> QED BY <2>2, <2>3, <3>1, <3>3
    <2>5. ASSUME ~(b = a /\ d = day)
          PROVE  /\ Cardinality(LiveOf(b, d)') = Cardinality(LiveOf(b, d))
                 /\ Cardinality(UsedOf(b, d)') = Cardinality(UsedOf(b, d))
      BY <1>5, <2>5
    <2> QED BY <2>1, <2>4, <2>5
  <1>7. \A b \in Accounts, d \in Days :
          /\ reserved[b][d] \in Nat /\ consumed[b][d] \in Nat
          /\ reserved'[b][d] = IF b = a /\ reserved[b][d] > 0
                THEN reserved[b][d] - 1 ELSE reserved[b][d]
          /\ consumed'[b][d] = IF b = a /\ used /\ d \in windows[a]
                THEN consumed[b][d] + 1 ELSE consumed[b][d]
    <2>1. reserved \in [Accounts -> [Days -> Nat]] /\ consumed \in [Accounts -> [Days -> Nat]]
      BY DEF IInv, TypeOK
    <2>2. reserved' = [reserved EXCEPT ![a] = [d \in Days |->
                          IF reserved[a][d] > 0 THEN reserved[a][d] - 1 ELSE 0]]
      BY DEF SettlesAs, GivesBack, a
    <2>3. consumed' = IF used
             THEN [consumed EXCEPT ![a] = [d \in Days |->
                     IF d \in windows[a] THEN consumed[a][d] + 1 ELSE consumed[a][d]]]
             ELSE consumed
      BY DEF SettlesAs, Charges, a
    <2>4. \A b \in Accounts, d \in Days :
            reserved[b][d] \in Nat /\ consumed[b][d] \in Nat
      BY <2>1
    <2>5. \A b \in Accounts, d \in Days :
            reserved'[b][d] = IF b = a /\ reserved[b][d] > 0
                                THEN reserved[b][d] - 1 ELSE reserved[b][d]
      <3> SUFFICES ASSUME NEW b \in Accounts, NEW d \in Days
            PROVE  reserved'[b][d] = IF b = a /\ reserved[b][d] > 0
                                THEN reserved[b][d] - 1 ELSE reserved[b][d]
        OBVIOUS
      <3>1. CASE b = a
        BY <1>1, <2>1, <2>2, <2>4, <3>1
      <3>2. CASE b # a
        BY <2>1, <2>2, <3>2
      <3> QED BY <3>1, <3>2
    <2>6. \A b \in Accounts, d \in Days :
            consumed'[b][d] = IF b = a /\ used /\ d \in windows[a]
                THEN consumed[b][d] + 1 ELSE consumed[b][d]
      BY <2>1, <2>3
    <2> QED BY <2>4, <2>5, <2>6
  <1>8. NothingIsLeaked'
    <2> SUFFICES ASSUME NEW b \in Accounts, NEW d \in Days
                 PROVE  /\ reserved'[b][d] <= Cardinality(LiveOf(b, d)')
                        /\ consumed'[b][d] >= Cardinality(UsedOf(b, d)')
      BY DEF NothingIsLeaked
    <2>1. /\ reserved[b][d] <= Cardinality(LiveOf(b, d))
          /\ consumed[b][d] >= Cardinality(UsedOf(b, d))
      BY DEF IInv, LedgerOK, NothingIsLeaked
    <2> QED BY <1>1, <1>6, <1>7, <2>1
  <1>9. CountersAreExact' /\ LimitHolds'
    <2> SUFFICES ASSUME today = 1, NEW b \in Accounts
                 PROVE  /\ reserved'[b][1] = Cardinality(LiveOf(b, 1)')
                        /\ consumed'[b][1] = Cardinality(UsedOf(b, 1)')
                        /\ Limit # 0 => Cardinality(LiveOf(b, 1)')
                                          + Cardinality(UsedOf(b, 1)') <= Limit
      BY DEF CountersAreExact, LimitHolds
    <2>1. 1 \in Days /\ day = 1
      <3>1. today \in Days /\ Days = 1..LastDay /\ LastDay \in Nat
        BY NumbersAssumption DEF IInv, TypeOK, Days
      <3> QED BY <1>1, <3>1
    <2>2. /\ reserved[b][1] = Cardinality(LiveOf(b, 1))
          /\ consumed[b][1] = Cardinality(UsedOf(b, 1))
          /\ Limit # 0 => Cardinality(LiveOf(b, 1)) + Cardinality(UsedOf(b, 1)) <= Limit
      BY DEF IInv, LedgerOK, CountersAreExact, LimitHolds
    <2>3. /\ reserved[b][1] \in Nat /\ consumed[b][1] \in Nat
          /\ reserved'[b][1] = IF b = a /\ reserved[b][1] > 0
                THEN reserved[b][1] - 1 ELSE reserved[b][1]
          /\ consumed'[b][1] = IF b = a /\ used
                THEN consumed[b][1] + 1 ELSE consumed[b][1]
      BY <1>1, <1>7, <2>1
    <2>4. /\ Cardinality(LiveOf(b, 1)') = IF b = a
                THEN Cardinality(LiveOf(b, 1)) - 1 ELSE Cardinality(LiveOf(b, 1))
          /\ b = a => Cardinality(LiveOf(b, 1)) >= 1
          /\ Cardinality(UsedOf(b, 1)') = IF b = a /\ used
                THEN Cardinality(UsedOf(b, 1)) + 1 ELSE Cardinality(UsedOf(b, 1))
      BY <1>6, <2>1
    <2>5. Limit \in Nat
      BY NumbersAssumption
    <2> QED BY <2>2, <2>3, <2>4, <2>5
  <1> QED BY <1>8, <1>9 DEF LedgerOK


LEMMA LedgerUntouched ==
    ASSUME IInv, Untouched, today' = 1 => today = 1
    PROVE  LedgerOK'
  <1>1. \A a \in Accounts, d \in Days :
          LiveOf(a, d)' = LiveOf(a, d) /\ UsedOf(a, d)' = UsedOf(a, d)
    BY DEF Untouched, tableVars, LiveOf, UsedOf
  <1>2. reserved' = reserved /\ consumed' = consumed
    BY DEF Untouched, tableVars
  <1>3. today = 1 => 1 \in Days
    BY DEF IInv, TypeOK
  <1> QED BY <1>1, <1>2, <1>3
          DEF IInv, LedgerOK, CountersAreExact, LimitHolds, NothingIsLeaked

LEMMA LedgerInv ==
    ASSUME IInv, [Next]_vars
    PROVE  LedgerOK'
  <1>1. Effect /\ (today' = today \/ Midnight) /\ (today' = 1 => today = 1)
    BY StepEffect, Clock DEF IInv
  <1>2. CASE Untouched
    BY <1>1, <1>2, LedgerUntouched
  <1>3. CASE Midnight
    BY <1>1, <1>3, LedgerUntouched DEF Midnight, Untouched
  <1>4. ASSUME today' = today, NEW q \in Requests,
               Reserves(q) /\ Placed(Current(q), account[q])
        PROVE  LedgerOK'
    BY <1>4, CurrentAttempt, LedgerPlaced DEF Reserves
  <1> QED BY <1>1, <1>2, <1>3, <1>4, LedgerRelabelled, LedgerSettled DEF Effect

-----------------------------------------------------------------------------
(* The rows, and the types, under each effect *)

\* A provider receives only what is dispatched.
LEMMA Receipts ==
    ASSUME IInv, [Next]_vars
    PROVE  \/ received' = received
           \/ \E q \in Requests :
                 /\ Untouched
                 /\ Current(q) \in Attempts /\ res[Current(q)].state \in Dispatched
                 /\ received' \in {received, received \cup {Current(q)}}
  <1>1. ASSUME NEW q \in Requests, Sends(q)
        PROVE  /\ Untouched
               /\ Current(q) \in Attempts /\ res[Current(q)].state \in Dispatched
               /\ received' \in {received, received \cup {Current(q)}}
    <2>1. Current(q) \in Attempts /\ res[Current(q)].state \in Dispatched
      BY <1>1, CurrentAttempt DEF Sends, InFlight
    <2> QED BY <1>1, <2>1 DEF Sends, Untouched
  <1>2. ASSUME NEW q \in Requests, Dispatch(q), ~Sends(q) PROVE received' = received
    BY <1>2 DEF Dispatch, Selects, Exhausts, Reserves, QuotaIsExceeded,
       MarksDispatching, MarksSent, Succeeds, Fails, Releases, TurnsUncertain,
       Aborts
  <1>3. ASSUME NEW x \in Attempts, Expires(x) \/ GrowsUncertain(x)
        PROVE  received' = received
    BY <1>3 DEF Expires, GrowsUncertain
  <1>4. ASSUME Midnight \/ UNCHANGED vars PROVE received' = received
    BY <1>4 DEF Midnight, vars
  <1> QED BY <1>1, <1>2, <1>3, <1>4 DEF Next

LEMMA RowsInv ==
    ASSUME IInv, [Next]_vars
    PROVE  RowsOK'
  <1>1. /\ Effect /\ today \in Int /\ today' \in Int /\ today <= today'
        /\ today \in Days
    <2>1. today \in Days /\ today' \in Days /\ (today' = today \/ Midnight)
      BY Clock DEF IInv
    <2>2. today \in Int /\ today' \in Int /\ today <= today'
      BY <2>1, NumbersAssumption DEF Midnight, Days
    <2> QED BY <2>1, <2>2, StepEffect
  <1>2. /\ res \in [Attempts -> Rows]
        /\ windows \in [Accounts -> SUBSET Days] /\ received \subseteq Attempts
    BY DEF IInv, TypeOK
  <1>3. \A x \in Attempts : res[x].day \in Int
    BY <1>2, NumbersAssumption DEF Rows, Days
  <1>4. \A x \in Attempts :
          /\ res[x].state = "none" => res[x] = NoRow
          /\ res[x].state # "none" => /\ res[x].acct \in Accounts
                                      /\ res[x].day <= today
                                      /\ res[x].day \in windows[res[x].acct]
          /\ res[x].state \in Live => ~res[x].used
          /\ x \in received => res[x].state \notin {"none", "RESERVED", "EXPIRED"}
    BY DEF IInv, RowsOK
  <1>5. CASE Untouched
    <2>1. res' = res /\ windows' = windows
      BY <1>5 DEF Untouched, tableVars
    <2>2. \A x \in Attempts :
            x \in received' => res[x].state \notin {"none", "RESERVED", "EXPIRED"}
      BY <1>4, Receipts DEF Dispatched
    <2>3. \A x \in Attempts : res[x].state # "none" => res[x].day <= today'
      BY <1>1, <1>3, <1>4
    <2> QED BY <1>4, <2>1, <2>2, <2>3 DEF RowsOK
  <1>6. ASSUME ~Untouched PROVE received' = received
    BY <1>6, Receipts
  <1>7. ASSUME ~Untouched, NEW q \in Requests,
               Reserves(q) /\ Placed(Current(q), account[q])
        PROVE  RowsOK'
    <2> DEFINE x == Current(q)
               a == account[q]
    <2>1. x \in Attempts /\ a \in Accounts /\ res[x].state = "none"
      BY <1>7, CurrentAttempt DEF Reserves
    <2>2. res'[x] = [state |-> "RESERVED", acct |-> a, day |-> today, used |-> FALSE]
      BY <1>2, <1>7, <2>1 DEF Placed
    <2>3. \A y \in Attempts \ {x} : res'[y] = res[y]
      BY <1>2, <1>7 DEF Placed
    <2>4. /\ windows'[a] = windows[a] \cup {today}
          /\ \A b \in Accounts : windows[b] \subseteq windows'[b]
      BY <1>2, <1>7, <2>1 DEF Placed
    <2>5. x \notin received
      BY <1>4, <2>1
    <2> HIDE DEF x, a
    <2>6. \A y \in Attempts \ {x} : res[y].state # "none" => res[y].day <= today'
      BY <1>1, <1>3, <1>4
    <2> QED BY <1>1, <1>4, <1>6, <1>7, <2>1, <2>2, <2>3, <2>4, <2>5, <2>6
            DEF RowsOK
  <1>8. ASSUME ~Untouched, NEW x \in Attempts, NEW state, NEW used \in BOOLEAN,
               windows' = windows, SetRow(x, state, used), IsLive(x),
               \/ state \in Dispatched /\ ~used
               \/ state \in Final /\ (state = "EXPIRED" => res[x].state = "RESERVED")
        PROVE  RowsOK'
    <2>1. res'[x] = [state |-> state, acct |-> res[x].acct, day |-> res[x].day,
                     used |-> used]
      BY <1>2, <1>8 DEF SetRow
    <2>2. \A y \in Attempts \ {x} : res'[y] = res[y]
      BY <1>2, <1>8 DEF SetRow
    <2>3. res[x].state \in Live /\ res[x].state # "none"
      BY <1>8 DEF IsLive, Live
    <2>4. /\ state # "none" /\ (state \in Live => ~used)
          /\ x \in received => state \notin {"RESERVED", "EXPIRED"}
      BY <1>4, <1>8 DEF Dispatched, Final, Live
    <2>5. \A y \in Attempts : res[y].state # "none" => res[y].day <= today'
      BY <1>1, <1>3, <1>4
    <2> QED BY <1>4, <1>6, <1>8, <2>1, <2>2, <2>3, <2>4, <2>5 DEF RowsOK
  <1>9. ASSUME ~Untouched, NEW x \in Attempts, NEW state \in Dispatched,
               Relabelled(x, state)
        PROVE  RowsOK'
    BY <1>8, <1>9 DEF Relabelled
  <1>10. ASSUME ~Untouched, NEW x \in Attempts, NEW state \in Final,
                NEW used \in BOOLEAN, SettlesAs(x, state, used),
                state = "EXPIRED" => res[x].state = "RESERVED"
         PROVE  RowsOK'
    BY <1>8, <1>10 DEF SettlesAs
  <1> QED BY <1>1, <1>5, <1>7, <1>9, <1>10 DEF Effect


LEMMA TablesType ==
    ASSUME IInv, [Next]_vars
    PROVE  /\ res' \in [Attempts -> Rows]
           /\ windows' \in [Accounts -> SUBSET Days]
           /\ reserved' \in [Accounts -> [Days -> Nat]]
           /\ consumed' \in [Accounts -> [Days -> Nat]]
  <1> DEFINE Typed == /\ res' \in [Attempts -> Rows]
                      /\ windows' \in [Accounts -> SUBSET Days]
                      /\ reserved' \in [Accounts -> [Days -> Nat]]
                      /\ consumed' \in [Accounts -> [Days -> Nat]]
  <1>1. /\ res \in [Attempts -> Rows]
        /\ windows \in [Accounts -> SUBSET Days]
        /\ reserved \in [Accounts -> [Days -> Nat]]
        /\ consumed \in [Accounts -> [Days -> Nat]]
        /\ today \in Days
    BY DEF IInv, TypeOK
  <1>2. Effect
    BY StepEffect
  <1>3. CASE Untouched
    BY <1>1, <1>3 DEF Untouched, tableVars
  <1>4. ASSUME NEW q \in Requests, Reserves(q) /\ Placed(Current(q), account[q])
        PROVE  Typed
    <2>1. Current(q) \in Attempts /\ account[q] \in Accounts
      BY <1>4, CurrentAttempt DEF Reserves
    <2>2. res' \in [Attempts -> Rows]
      BY <1>1, <1>4, <2>1 DEF Placed, Rows, Live
    <2>3. windows' \in [Accounts -> SUBSET Days] /\ consumed' = consumed
      BY <1>1, <1>4, <2>1 DEF Placed
    <2>4. [d \in Days |-> IF d = today THEN reserved[account[q]][d] + 1
                                      ELSE reserved[account[q]][d]] \in [Days -> Nat]
      BY <1>1, <2>1
    <2>5. reserved' \in [Accounts -> [Days -> Nat]]
      BY <1>1, <1>4, <2>1, <2>4 DEF Placed
    <2> QED BY <1>1, <2>2, <2>3, <2>5
  <1>5. ASSUME NEW x \in Attempts, NEW state \in Live \cup Final,
               NEW used \in BOOLEAN, SetRow(x, state, used)
        PROVE  res' \in [Attempts -> Rows]
    BY <1>1, <1>5 DEF SetRow, Rows
  <1>6. ASSUME NEW x \in Attempts, NEW state \in Dispatched, Relabelled(x, state)
        PROVE  Typed
    BY <1>1, <1>5, <1>6 DEF Relabelled, Dispatched, Live
  <1>7. ASSUME NEW x \in Attempts, NEW state \in Final, NEW used \in BOOLEAN,
               SettlesAs(x, state, used)
        PROVE  Typed
    <2> DEFINE a == res[x].acct
    <2>1. a \in Accounts
      BY <1>7 DEF IInv, RowsOK, SettlesAs, IsLive, Live
    <2>2. res' \in [Attempts -> Rows] /\ windows' = windows
      BY <1>5, <1>7 DEF SettlesAs
    <2>3. \A d \in Days : reserved[a][d] \in Nat /\ consumed[a][d] \in Nat
      BY <1>1, <2>1
    <2>4. [d \in Days |-> IF reserved[a][d] > 0 THEN reserved[a][d] - 1 ELSE 0]
             \in [Days -> Nat]
      BY <2>3
    <2>5. [d \in Days |-> IF d \in windows[a] THEN consumed[a][d] + 1
                                             ELSE consumed[a][d]] \in [Days -> Nat]
      BY <2>3
    <2>6. reserved' \in [Accounts -> [Days -> Nat]]
      BY <1>1, <1>7, <2>1, <2>4 DEF SettlesAs, GivesBack
    <2>7. consumed' \in [Accounts -> [Days -> Nat]]
      BY <1>1, <1>7, <2>1, <2>5 DEF SettlesAs, Charges
    <2> QED BY <1>1, <2>2, <2>6, <2>7
  <1> QED BY <1>2, <1>3, <1>4, <1>6, <1>7 DEF Effect

-----------------------------------------------------------------------------
(* The dispatches *)

\* A dispatch leaves the others, and their rows, alone.
LEMMA Frame ==
    ASSUME IInv, NEW q \in Requests, Dispatch(q)
    PROVE  /\ at' = [at EXCEPT ![q] = at'[q]]
           /\ tries' = [tries EXCEPT ![q] = tries'[q]]
           /\ account' = [account EXCEPT ![q] = account'[q]]
           /\ excluded' = [excluded EXCEPT ![q] = excluded'[q]]
           /\ res' = res \/ res' = [res EXCEPT ![Current(q)] = res'[Current(q)]]
           /\ at'[q] \in Points /\ tries'[q] \in 0..MaxAttempts
           /\ account'[q] \in Accounts \cup {NoAccount}
           /\ excluded'[q] \in SUBSET Accounts
  <1>1. /\ res \in [Attempts -> Rows]
        /\ at \in [Requests -> Points] /\ tries \in [Requests -> 0..MaxAttempts]
        /\ account \in [Requests -> Accounts \cup {NoAccount}]
        /\ excluded \in [Requests -> SUBSET Accounts]
    BY DEF IInv, TypeOK
  <1>2. ASSUME at[q] \in {"reserve", "mark"} \cup InFlight
        PROVE  Current(q) \in Attempts /\ account[q] \in Accounts
    BY <1>2, CurrentAttempt
  <1>3. CASE Selects(q)
    <2>1. tries[q] + 1 \in 0..MaxAttempts
      BY <1>1, <1>3, NumbersAssumption DEF Selects
    <2> QED BY <1>1, <1>3, <2>1 DEF Selects, Goto, Points, tableVars
  <1>4. CASE Exhausts(q) \/ QuotaIsExceeded(q) \/ Aborts(q)
    BY <1>1, <1>4 DEF Exhausts, QuotaIsExceeded, Aborts, Goto, Points, tableVars,
       retryVars
  <1>5. CASE Sends(q)
    BY <1>1, <1>5 DEF Sends, Goto, Points, tableVars, retryVars
  <1>6. CASE Reserves(q)
    BY <1>1, <1>2, <1>6 DEF Reserves, Goto, Points, retryVars
  <1>7. CASE MarksDispatching(q)
    BY <1>1, <1>2, <1>7 DEF MarksDispatching, SetRow, Goto, Points, retryVars
  <1>8. CASE MarksSent(q)
    BY <1>1, <1>2, <1>8 DEF MarksSent, SetRow, Goto, Points, retryVars, InFlight
  <1>9. CASE Succeeds(q)
    BY <1>1, <1>2, <1>9 DEF Succeeds, SettlesAs, SetRow, GivesUp, Goto, Points,
       InFlight
  <1>10. CASE Fails(q)
    BY <1>1, <1>2, <1>10 DEF Fails, SettlesAs, SetRow, GivesUp, Retries, Goto,
       Points, InFlight
  <1>11. CASE Releases(q)
    BY <1>1, <1>2, <1>11 DEF Releases, SettlesAs, SetRow, GivesUp, Retries, Goto,
       Points, InFlight
  <1>12. CASE TurnsUncertain(q)
    BY <1>1, <1>2, <1>12 DEF TurnsUncertain, SetRow, GivesUp, Retries, Goto,
       Points, InFlight
  <1> QED BY <1>3, <1>4, <1>5, <1>6, <1>7, <1>8, <1>9, <1>10, <1>11, <1>12
          DEF Dispatch

LEMMA TypeInv ==
    ASSUME IInv, [Next]_vars
    PROVE  TypeOK'
  <1>1. /\ at \in [Requests -> Points] /\ tries \in [Requests -> 0..MaxAttempts]
        /\ account \in [Requests -> Accounts \cup {NoAccount}]
        /\ excluded \in [Requests -> SUBSET Accounts]
        /\ received \subseteq Attempts
    BY DEF IInv, TypeOK
  <1>2. /\ today' \in Days /\ received' \subseteq Attempts
    BY <1>1, Clock, Receipts DEF IInv
  <1> DEFINE Typed == /\ at' \in [Requests -> Points]
                      /\ tries' \in [Requests -> 0..MaxAttempts]
                      /\ account' \in [Requests -> Accounts \cup {NoAccount}]
                      /\ excluded' \in [Requests -> SUBSET Accounts]
  <1>3. ASSUME NEW q \in Requests, Dispatch(q) PROVE Typed
    <2>1. /\ at' = [at EXCEPT ![q] = at'[q]]
          /\ tries' = [tries EXCEPT ![q] = tries'[q]]
          /\ account' = [account EXCEPT ![q] = account'[q]]
          /\ excluded' = [excluded EXCEPT ![q] = excluded'[q]]
          /\ at'[q] \in Points /\ tries'[q] \in 0..MaxAttempts
          /\ account'[q] \in Accounts \cup {NoAccount}
          /\ excluded'[q] \in SUBSET Accounts
      BY <1>3, Frame
    <2>2. at' \in [Requests -> Points]
      BY <1>1, <2>1
    <2>3. tries' \in [Requests -> 0..MaxAttempts]
      BY <1>1, <2>1
    <2>4. account' \in [Requests -> Accounts \cup {NoAccount}]
      BY <1>1, <2>1
    <2>5. excluded' \in [Requests -> SUBSET Accounts]
      BY <1>1, <2>1
    <2> QED BY <2>2, <2>3, <2>4, <2>5
  <1>4. ASSUME \/ \E x \in Attempts : Expires(x) \/ GrowsUncertain(x)
               \/ Midnight \/ UNCHANGED vars
        PROVE  Typed
    BY <1>1, <1>4 DEF Expires, GrowsUncertain, Midnight, vars, retryVars
  <1>5. Typed
    BY <1>3, <1>4 DEF Next
  <1> QED BY <1>2, <1>5, TablesType DEF TypeOK


Distinct(q) ==
    \A m, n \in 1..MaxAttempts :
        m # n /\ res[<<q, m>>].state # "none"
              => res[<<q, m>>].acct # res[<<q, n>>].acct

Good(q) == FlowOf(q) /\ RoutesOf(q) /\ Distinct(q)

LEMMA GoodBefore ==
    ASSUME IInv, NEW q \in Requests
    PROVE  Good(q)
  <1> QED BY DEF IInv, FlowOK, RoutesOK, NoCandidateTwice, Distinct, Good

\* Nothing a request depends on changes.
LEMMA GoodUntouched ==
    ASSUME IInv, NEW q \in Requests,
           at'[q] = at[q], tries'[q] = tries[q], account'[q] = account[q],
           excluded'[q] = excluded[q],
           \A n \in 1..MaxAttempts : res'[<<q, n>>] = res[<<q, n>>]
    PROVE  Good(q)'
  <1>1. Good(q)
    BY GoodBefore
  <1>2. RoutesOf(q)'
    BY <1>1 DEF Good, RoutesOf
  <1>3. Distinct(q)'
    BY <1>1 DEF Good, Distinct
  <1>4. FlowOf(q)'
    BY <1>1 DEF Good, FlowOf, Current, InFlight
  <1> QED BY <1>2, <1>3, <1>4 DEF Good

LEMMA GoodOthers ==
    ASSUME IInv, NEW p \in Requests, Dispatch(p), NEW q \in Requests \ {p}
    PROVE  Good(q)'
  <1>1. \A n \in 1..MaxAttempts : <<q, n>> \in Attempts /\ <<q, n>> # Current(p)
    BY DEF Attempts, Current
  <1>2. /\ res \in [Attempts -> Rows]
        /\ at \in [Requests -> Points] /\ tries \in [Requests -> 0..MaxAttempts]
        /\ account \in [Requests -> Accounts \cup {NoAccount}]
        /\ excluded \in [Requests -> SUBSET Accounts]
    BY DEF IInv, TypeOK
  <1>3. \A n \in 1..MaxAttempts : res'[<<q, n>>] = res[<<q, n>>]
    BY <1>1, <1>2, Frame
  <1>4. /\ at'[q] = at[q] /\ tries'[q] = tries[q]
        /\ account'[q] = account[q] /\ excluded'[q] = excluded[q]
    BY <1>2, Frame
  <1> QED BY <1>3, <1>4, GoodUntouched

\* The row of the current attempt is relabelled or settled, and the request
\* goes on, gives up, or tries elsewhere.
LEMMA GoodMoved ==
    ASSUME IInv, NEW q \in Requests, at[q] \in {"mark"} \cup InFlight,
           tries'[q] = tries[q], account'[q] = account[q],
           res'[Current(q)].acct = res[Current(q)].acct,
           \A n \in 1..MaxAttempts :
              n # tries[q] => res'[<<q, n>>] = res[<<q, n>>],
           \/ at'[q] = "done"
           \/ at'[q] = "select" /\ excluded'[q] = excluded[q] \cup {account[q]}
           \/ /\ at'[q] \in InFlight /\ excluded'[q] = excluded[q]
              /\ res'[Current(q)].state \in Dispatched
    PROVE  Good(q)'
  <1>1. Good(q) /\ Current(q) = <<q, tries[q]>> /\ Current(q)' = Current(q)
    BY GoodBefore DEF Current
  <1>2. /\ tries[q] \in 1..MaxAttempts /\ account[q] \in Accounts \ excluded[q]
        /\ res[Current(q)].state # "none"
    BY <1>1 DEF Good, FlowOf, Dispatched
  <1>3. Distinct(q)'
    BY <1>1, <1>2 DEF Good, Distinct
  <1>4. FlowOf(q)'
    BY <1>1, <1>2 DEF FlowOf, InFlight
  <1>5. res[Current(q)].acct \in excluded[q] \cup {account[q]}
    BY <1>1, <1>2 DEF Good, RoutesOf, InFlight
  <1>6. \A n \in 1..MaxAttempts : n # tries[q] /\ res[<<q, n>>].state # "none"
           => n <= tries[q] /\ res[<<q, n>>].acct \in excluded[q]
    BY <1>1 DEF Good, RoutesOf, InFlight
  <1>7. RoutesOf(q)'
    BY <1>1, <1>2, <1>5, <1>6 DEF RoutesOf, InFlight
  <1> QED BY <1>3, <1>4, <1>7 DEF Good


\* What a dispatch does to its own request.
LEMMA GoodOwn ==
    ASSUME IInv, NEW q \in Requests, Dispatch(q)
    PROVE  Good(q)'
  <1>1. /\ res \in [Attempts -> Rows]
        /\ at \in [Requests -> Points] /\ tries \in [Requests -> 0..MaxAttempts]
        /\ account \in [Requests -> Accounts \cup {NoAccount}]
        /\ excluded \in [Requests -> SUBSET Accounts]
    BY DEF IInv, TypeOK
  <1>2. Good(q)
    BY GoodBefore
  <1>3. \A n \in 1..MaxAttempts :
          /\ <<q, n>> \in Attempts
          /\ n # tries[q] => <<q, n>> # Current(q)
    BY DEF Attempts, Current
  <1>4. \A n \in 1..MaxAttempts : n # tries[q] => res'[<<q, n>>] = res[<<q, n>>]
    BY <1>1, <1>3, Frame
  <1>5. ASSUME at[q] \in {"mark"} \cup InFlight
        PROVE  Current(q) \in Attempts
    BY <1>5, CurrentAttempt
  <1>6. CASE Selects(q)
    <2>1. /\ tries'[q] = tries[q] + 1 /\ tries[q] + 1 \in 1..MaxAttempts
          /\ tries[q] \in Nat
      BY <1>1, <1>6, NumbersAssumption DEF Selects
    <2>2. /\ account'[q] \in Accounts \ excluded[q] /\ excluded' = excluded
          /\ at[q] = "select" /\ at'[q] = "reserve" /\ res' = res
      BY <1>1, <1>6 DEF Selects, Goto, tableVars
    <2>3. \A n \in 1..MaxAttempts : res[<<q, n>>].state # "none"
             => n <= tries[q] /\ res[<<q, n>>].acct \in excluded[q]
      BY <1>2, <2>2 DEF Good, RoutesOf, InFlight
    <2>4. res[<<q, tries[q] + 1>>].state = "none"
      BY <2>1, <2>3
    <2>5. FlowOf(q)'
      BY <2>1, <2>2, <2>4 DEF FlowOf, Current, InFlight
    <2>6. RoutesOf(q)'
      BY <2>1, <2>2, <2>3 DEF RoutesOf
    <2>7. Distinct(q)'
      BY <1>2, <2>2 DEF Good, Distinct
    <2> QED BY <2>5, <2>6, <2>7 DEF Good
  <1>7. CASE Exhausts(q) \/ QuotaIsExceeded(q) \/ Aborts(q)
    <2>1. /\ at'[q] = "done" /\ res' = res /\ tries' = tries
      BY <1>1, <1>7 DEF Exhausts, QuotaIsExceeded, Aborts, Goto, tableVars, retryVars
    <2>2. FlowOf(q)'
      BY <2>1 DEF FlowOf, InFlight
    <2>3. RoutesOf(q)' /\ Distinct(q)'
      BY <1>2, <2>1 DEF Good, RoutesOf, Distinct
    <2> QED BY <2>2, <2>3 DEF Good
  <1>8. CASE Reserves(q)
    <2>1. /\ at[q] = "reserve" /\ at'[q] = "mark" /\ UNCHANGED retryVars
          /\ Current(q) \in Attempts /\ Current(q)' = Current(q)
      BY <1>1, <1>8, CurrentAttempt DEF Reserves, Goto, Current, retryVars
    <2>2. res'[Current(q)] = [state |-> "RESERVED", acct |-> account[q],
                              day |-> today, used |-> FALSE]
      BY <1>1, <1>8, <2>1 DEF Reserves
    <2>3. tries[q] \in 1..MaxAttempts /\ account[q] \in Accounts \ excluded[q]
      BY <1>2, <2>1 DEF Good, FlowOf
    <2>4. \A n \in 1..MaxAttempts : res[<<q, n>>].state # "none"
             => n <= tries[q] /\ res[<<q, n>>].acct \in excluded[q]
      BY <1>2, <2>1 DEF Good, RoutesOf, InFlight
    <2>5. FlowOf(q)'
      BY <2>1, <2>2, <2>3 DEF FlowOf, InFlight, retryVars
    <2>6. RoutesOf(q)'
      BY <1>4, <2>1, <2>2, <2>3, <2>4 DEF RoutesOf, InFlight, retryVars, Current
    <2>7. \A n \in 1..MaxAttempts :
             n # tries[q] => res'[<<q, n>>].acct # account[q]
      <3>1. \A n \in 1..MaxAttempts :
               res[<<q, n>>].state = "none" => res[<<q, n>>].acct = NoAccount
        BY <1>3 DEF IInv, RowsOK, NoRow
      <3> QED BY <1>4, <2>3, <2>4, <3>1, NoAccountAssumption
    <2>8. Distinct(q)'
      BY <1>2, <1>4, <2>2, <2>3, <2>7 DEF Good, Distinct, Current
    <2> QED BY <2>5, <2>6, <2>8 DEF Good
  <1>9. CASE MarksDispatching(q)
    <2>1. at[q] \in {"mark"} \cup InFlight /\ Current(q) \in Attempts
      BY <1>5, <1>9 DEF MarksDispatching
    <2>2. /\ \/ at'[q] = "done"
             \/ at'[q] \in InFlight /\ res'[Current(q)].state \in Dispatched
          /\ res'[Current(q)].acct = res[Current(q)].acct
          /\ UNCHANGED retryVars
      BY <1>1, <1>9, <2>1 DEF MarksDispatching, SetRow, Goto, InFlight, Dispatched
    <2> QED BY <1>4, <2>1, <2>2, GoodMoved DEF retryVars
  <1>10. CASE Sends(q)
    <2>1. at[q] \in {"mark"} \cup InFlight /\ res[Current(q)].state \in Dispatched
      BY <1>10, CurrentAttempt DEF Sends, InFlight
    <2>2. /\ at'[q] = "done" \/ at'[q] \in InFlight
          /\ res' = res /\ UNCHANGED retryVars
      BY <1>1, <1>10 DEF Sends, Goto, InFlight, tableVars
    <2> QED BY <1>4, <2>1, <2>2, GoodMoved DEF retryVars
  <1>11. CASE MarksSent(q)
    <2>1. /\ at[q] \in {"mark"} \cup InFlight /\ Current(q) \in Attempts
          /\ res[Current(q)].state \in Dispatched
      BY <1>11, CurrentAttempt DEF MarksSent, InFlight
    <2>2. /\ at'[q] \in InFlight /\ res'[Current(q)].state \in Dispatched
          /\ res'[Current(q)].acct = res[Current(q)].acct
          /\ UNCHANGED retryVars
      BY <1>1, <1>11, <2>1 DEF MarksSent, SetRow, Goto, InFlight, Dispatched
    <2> QED BY <1>4, <2>1, <2>2, GoodMoved DEF retryVars
  <1>12. ASSUME at[q] \in InFlight, NEW state, NEW used \in BOOLEAN,
                SetRow(Current(q), state, used), Retries(q) \/ GivesUp(q),
                UNCHANGED <<tries, account>>
         PROVE  Good(q)'
    <2>1. /\ at[q] \in {"mark"} \cup InFlight /\ Current(q) \in Attempts
      BY <1>5, <1>12
    <2>2. res'[Current(q)].acct = res[Current(q)].acct
      BY <1>1, <1>12, <2>1 DEF SetRow
    <2>3. \/ at'[q] = "done"
          \/ at'[q] = "select" /\ excluded'[q] = excluded[q] \cup {account[q]}
      BY <1>1, <1>12 DEF Retries, GivesUp, Goto
    <2> QED BY <1>4, <1>12, <2>1, <2>2, <2>3, GoodMoved
  <1>13. CASE Succeeds(q)
    BY <1>12, <1>13 DEF Succeeds, SettlesAs, InFlight
  <1>14. CASE Fails(q)
    BY <1>12, <1>14 DEF Fails, SettlesAs, InFlight
  <1>15. CASE Releases(q)
    BY <1>12, <1>15 DEF Releases, SettlesAs, InFlight
  <1>16. CASE TurnsUncertain(q)
    BY <1>12, <1>16 DEF TurnsUncertain, InFlight
  <1> QED BY <1>6, <1>7, <1>8, <1>9, <1>10, <1>11, <1>13, <1>14, <1>15, <1>16
          DEF Dispatch


\* A reconciliation expires only what is not dispatched.
LEMMA GoodReconciled ==
    ASSUME IInv, NEW x \in Attempts, Expires(x) \/ GrowsUncertain(x),
           NEW q \in Requests
    PROVE  Good(q)'
  <1>1. /\ at' = at /\ tries' = tries /\ account' = account /\ excluded' = excluded
        /\ Current(q)' = Current(q) /\ Good(q)
    BY GoodBefore DEF Expires, GrowsUncertain, retryVars, Current
  <1>2. res \in [Attempts -> Rows]
    BY DEF IInv, TypeOK
  <1>3. \A y \in Attempts :
          /\ res'[y].acct = res[y].acct
          /\ res'[y].state = "none" <=> res[y].state = "none"
          /\ res[y].state = "RESERVED" => res'[y].state \in {"RESERVED", "EXPIRED"}
          /\ res[y].state = "EXPIRED" => res'[y].state = "EXPIRED"
          /\ res[y].state \in Dispatched => res'[y].state \in Dispatched
    BY <1>2 DEF Expires, GrowsUncertain, SetRow, Dispatched
  <1>4. \A n \in 1..MaxAttempts : <<q, n>> \in Attempts
    BY DEF Attempts
  <1>5. RoutesOf(q)'
    BY <1>1, <1>3, <1>4 DEF Good, RoutesOf
  <1>6. Distinct(q)'
    BY <1>1, <1>3, <1>4 DEF Good, Distinct
  <1>7. FlowOf(q)'
    <2>1. at[q] \in {"reserve", "mark"} \cup InFlight => Current(q) \in Attempts
      BY CurrentAttempt
    <2> QED BY <1>1, <1>3, <2>1 DEF Good, FlowOf, InFlight
  <1> QED BY <1>5, <1>6, <1>7 DEF Good

LEMMA GoodInv ==
    ASSUME IInv, [Next]_vars, NEW q \in Requests
    PROVE  Good(q)'
  <1>1. ASSUME NEW p \in Requests, Dispatch(p) PROVE Good(q)'
    BY <1>1, GoodOwn, GoodOthers
  <1>2. ASSUME Midnight \/ UNCHANGED vars PROVE Good(q)'
    BY <1>2, GoodUntouched DEF Midnight, vars, tableVars, retryVars
  <1> QED BY <1>1, <1>2, GoodReconciled DEF Next

-----------------------------------------------------------------------------
(* The invariant *)

LEMMA InitInv == Init => IInv
  <1> SUFFICES ASSUME Init PROVE IInv
    OBVIOUS
  <1>1. /\ today = 1 /\ res = [x \in Attempts |-> NoRow] /\ received = {}
        /\ windows = [a \in Accounts |-> {}]
        /\ reserved = [a \in Accounts |-> [d \in Days |-> 0]]
        /\ consumed = [a \in Accounts |-> [d \in Days |-> 0]]
        /\ at = [q \in Requests |-> "select"] /\ tries = [q \in Requests |-> 0]
        /\ account = [q \in Requests |-> NoAccount]
        /\ excluded = [q \in Requests |-> {}]
    BY DEF Init
  <1>2. 1 \in Days
    BY NumbersAssumption DEF Days
  <1>3. TypeOK
    <2>1. NoRow \in Rows /\ 0 \in 0..MaxAttempts
      BY <1>2, NumbersAssumption DEF NoRow, Rows
    <2> QED BY <1>1, <1>2, <2>1 DEF TypeOK, Points
  <1>4. RowsOK
    BY <1>1 DEF RowsOK, NoRow, Live
  <1>5. \A x \in Attempts : res[x] = NoRow
    BY <1>1
  <1>6. \A q \in Requests : \A n \in 1..MaxAttempts : <<q, n>> \in Attempts
    BY DEF Attempts
  <1>7. FlowOK
    BY <1>1 DEF FlowOK, FlowOf, InFlight
  <1>8. RoutesOK /\ NoCandidateTwice
    BY <1>5, <1>6 DEF RoutesOK, RoutesOf, NoCandidateTwice, NoRow
  <1>9. \A a \in Accounts, d \in Days :
          /\ Cardinality(LiveOf(a, d)) = 0 /\ Cardinality(UsedOf(a, d)) = 0
          /\ reserved[a][d] = 0 /\ consumed[a][d] = 0
    <2>1. \A a \in Accounts, d \in Days : LiveOf(a, d) = {} /\ UsedOf(a, d) = {}
      BY <1>5 DEF LiveOf, UsedOf, NoRow, Live
    <2> QED BY <1>1, <2>1, FS_EmptySet
  <1>10. LedgerOK
    BY <1>2, <1>9, NumbersAssumption
       DEF LedgerOK, CountersAreExact, LimitHolds, NothingIsLeaked
  <1> QED BY <1>3, <1>4, <1>7, <1>8, <1>10 DEF IInv

LEMMA NextInv == IInv /\ [Next]_vars => IInv'
  <1> SUFFICES ASSUME IInv, [Next]_vars PROVE IInv'
    OBVIOUS
  <1>1. TypeOK' /\ RowsOK' /\ LedgerOK'
    BY TypeInv, RowsInv, LedgerInv
  <1>2. FlowOK' /\ RoutesOK' /\ NoCandidateTwice'
    BY GoodInv DEF Good, FlowOK, RoutesOK, NoCandidateTwice, Distinct
  <1> QED BY <1>1, <1>2 DEF IInv

\* The invariant holds of every reachable state.
THEOREM Invariance == Spec => []IInv
  <1> QED BY InitInv, NextInv, PTL DEF Spec

\* Tables and dispatches hold what the types say.
THEOREM TypeCorrect == Spec => []TypeOK
  <1>1. IInv => TypeOK
    BY DEF IInv
  <1> QED BY <1>1, Invariance, PTL

\* settle_reservation and reconcile_reservations keep the counters of
\* quota_runtime equal to the reservations until the first midnight.
THEOREM Exactness == Spec => []CountersAreExact
  <1>1. IInv => CountersAreExact
    BY DEF IInv, LedgerOK
  <1> QED BY <1>1, Invariance, PTL

\* reserve_quota keeps the pending and made requests of the day within the
\* daily limit, whatever dies and whatever is reconciled.
THEOREM Limits == Spec => []LimitHolds
  <1>1. IInv => LimitHolds
    BY DEF IInv, LedgerOK
  <1> QED BY <1>1, Invariance, PTL

\* No day keeps a slot reserved that no live reservation of the day holds, and
\* no consumed request is left uncharged.
THEOREM NoLeak == Spec => []NothingIsLeaked
  <1>1. IInv => NothingIsLeaked
    BY DEF IInv, LedgerOK
  <1> QED BY <1>1, Invariance, PTL

\* The three together: the ledger of the quotas holds.
THEOREM Quota == Spec => []QuotaHolds
  <1>1. IInv => QuotaHolds
    BY DEF IInv, LedgerOK, QuotaHolds
  <1> QED BY <1>1, Invariance, PTL

\* What reconcile_reservations expires was never sent and never will be.
THEOREM Expiry == Spec => []ExpiredWasNotSent
  <1>1. IInv => ExpiredWasNotSent
    BY DEF IInv, TypeOK, RowsOK, ExpiredWasNotSent
  <1> QED BY <1>1, Invariance, PTL

\* record_failure keeps a dispatch from returning to an account.
THEOREM NoRepeat == Spec => []NoCandidateTwice
  <1>1. IInv => NoCandidateTwice
    BY DEF IInv
  <1> QED BY <1>1, Invariance, PTL

\* A reservation is settled, released or expired once.
THEOREM Settlement == Spec => SettledIsFinal
  <1>1. IInv /\ [Next]_vars => FinalStays
    <2> SUFFICES ASSUME IInv, [Next]_vars PROVE FinalStays
      OBVIOUS
    <2>1. Effect /\ res \in [Attempts -> Rows]
      BY StepEffect DEF IInv, TypeOK
    <2>2. CASE Untouched
      BY <2>2 DEF Untouched, tableVars, FinalStays
    <2>3. ASSUME NEW q \in Requests, Reserves(q) /\ Placed(Current(q), account[q])
          PROVE  FinalStays
      BY <2>1, <2>3 DEF Placed, FinalStays, Final
    <2>4. ASSUME NEW x \in Attempts, NEW state, NEW used, IsLive(x),
                 SetRow(x, state, used)
          PROVE  FinalStays
      BY <2>1, <2>4 DEF SetRow, IsLive, FinalStays, Final, Live
    <2> QED BY <2>1, <2>2, <2>3, <2>4 DEF Effect, Relabelled, SettlesAs
  <1>2. IInv /\ [Next]_vars => [FinalStays]_vars
    BY <1>1
  <1> QED BY <1>2, Invariance, PTL DEF Spec, SettledIsFinal
-----------------------------------------------------------------------------
(* How a dispatch ends *)

\* At a settlement, a release or an uncertain mark the row is live: the
\* statement, which has that as its predicate, finds it.
SettlementFindsRow ==
    \A q \in Requests :
        at[q] \in {"settle", "release", "uncertain"} => IsLive(Current(q))

PointRank(q) ==
    IF at[q] = "reserve" THEN 7
    ELSE IF at[q] = "mark" THEN 6
    ELSE IF at[q] = "send" THEN 5
    ELSE IF at[q] = "sent" THEN 4
    ELSE IF at[q] \in {"settle", "release", "uncertain"} THEN 3
    ELSE 2

\* What a dispatch has before it: its attempts, and the rest of this one
DispatchRank(q) ==
    IF at[q] = "done" THEN 0 ELSE 8 * (MaxAttempts - tries[q]) + PointRank(q)

\* Its own steps bring a dispatch nearer to its end, no other's set it back.
DispatchesNearEnd ==
    \A q \in Requests :
        /\ DispatchRank(q)' \in Nat
        /\ DispatchRank(q)' <= DispatchRank(q)
        /\ Dispatch(q) => DispatchRank(q)' < DispatchRank(q)

\* tries and points of one step of a dispatch
LEMMA PointsMove ==
  ASSUME IInv, NEW q \in Requests, Dispatch(q)
  PROVE  /\ at[q] # "done"
         /\ \A p \in Requests \ {q} : at'[p] = at[p] /\ tries'[p] = tries[p]
         /\ \/ at'[q] = "done"
            \/ /\ at[q] = "select" /\ at'[q] = "reserve"
               /\ tries[q] < MaxAttempts /\ tries'[q] = tries[q] + 1
            \/ /\ tries'[q] = tries[q]
               /\ \/ at[q] = "reserve" /\ at'[q] = "mark"
                  \/ at[q] = "mark" /\ at'[q] = "send"
                  \/ at[q] = "send" /\ at'[q] \in {"sent", "release", "uncertain"}
                  \/ at[q] = "sent" /\ at'[q] \in {"settle", "release"}
                  \/ /\ at[q] \in {"settle", "release", "uncertain"}
                     /\ at'[q] = "select"
  <1>1. at \in [Requests -> Points] /\ tries \in [Requests -> 0..MaxAttempts]
    BY DEF IInv, TypeOK
  <1> USE DEF Goto, retryVars
  <1>2. CASE Selects(q)
    BY <1>1, <1>2 DEF Selects
  <1>3. CASE Exhausts(q) \/ QuotaIsExceeded(q) \/ Aborts(q)
    BY <1>1, <1>3 DEF Exhausts, QuotaIsExceeded, Aborts
  <1>4. CASE Reserves(q)
    BY <1>1, <1>4 DEF Reserves
  <1>5. CASE MarksDispatching(q)
    BY <1>1, <1>5 DEF MarksDispatching
  <1>6. CASE Sends(q)
    BY <1>1, <1>6 DEF Sends
  <1>7. CASE MarksSent(q)
    BY <1>1, <1>7 DEF MarksSent
  <1>8. CASE Succeeds(q) \/ Fails(q) \/ Releases(q) \/ TurnsUncertain(q)
    BY <1>1, <1>8 DEF Succeeds, Fails, Releases, TurnsUncertain, Retries, GivesUp
  <1> QED
    BY <1>2, <1>3, <1>4, <1>5, <1>6, <1>7, <1>8 DEF Dispatch

LEMMA AttemptsLeft ==
  ASSUME NEW n \in 0..MaxAttempts
  PROVE  8 * (MaxAttempts - n) \in Nat
  <1>1. MaxAttempts \in Nat /\ n \in Nat /\ n <= MaxAttempts
    BY NumbersAssumption
  <1>2. MaxAttempts - n \in Nat
    BY <1>1
  <1> QED BY <1>2

LEMMA RankIsNat ==
  ASSUME IInv', NEW q \in Requests
  PROVE  DispatchRank(q)' \in Nat
  <1>1. tries'[q] \in 0..MaxAttempts
    BY DEF IInv, TypeOK
  <1>2. 8 * (MaxAttempts - tries'[q]) \in Nat
    BY <1>1, AttemptsLeft
  <1>3. PointRank(q)' \in Nat
    BY DEF PointRank
  <1> HIDE DEF PointRank
  <1> QED BY <1>2, <1>3 DEF DispatchRank

LEMMA OwnStepsNearEnd ==
  ASSUME IInv, NEW q \in Requests, Dispatch(q)
  PROVE  DispatchRank(q)' < DispatchRank(q)
  <1>1. tries[q] \in 0..MaxAttempts /\ MaxAttempts \in Nat
    BY NumbersAssumption DEF IInv, TypeOK
  <1>2. 8 * (MaxAttempts - tries[q]) \in Nat
    BY <1>1, AttemptsLeft
  <1>3. CASE at'[q] = "done"
    BY <1>2, <1>3, PointsMove DEF DispatchRank, PointRank
  <1>4. CASE at'[q] # "done"
    BY <1>1, <1>4, PointsMove DEF DispatchRank, PointRank
  <1> QED BY <1>3, <1>4

LEMMA NextNearsEnd ==
  IInv /\ [Next]_vars => [DispatchesNearEnd]_vars
  <1> SUFFICES ASSUME IInv, Next, NEW q \in Requests
               PROVE  /\ DispatchRank(q)' \in Nat
                      /\ DispatchRank(q)' <= DispatchRank(q)
                      /\ Dispatch(q) => DispatchRank(q)' < DispatchRank(q)
    BY DEF DispatchesNearEnd
  <1>1. DispatchRank(q)' \in Nat
    BY NextInv, RankIsNat
  <1>2. DispatchRank(q) \in Nat
    <2>1. 8 * (MaxAttempts - tries[q]) \in Nat
      BY AttemptsLeft DEF IInv, TypeOK
    <2>2. PointRank(q) \in Nat
      BY DEF PointRank
    <2> HIDE DEF PointRank
    <2> QED BY <2>1, <2>2 DEF DispatchRank
  <1>3. CASE Dispatch(q)
    <2>1. DispatchRank(q)' < DispatchRank(q)
      BY <1>3, OwnStepsNearEnd
    <2> HIDE DEF DispatchRank
    <2> QED BY <1>1, <1>2, <2>1
  <1>4. CASE ~Dispatch(q)
    <2>1. at'[q] = at[q] /\ tries'[q] = tries[q]
      <3>1. ASSUME NEW p \in Requests, Dispatch(p), p # q
            PROVE  at'[q] = at[q] /\ tries'[q] = tries[q]
        BY <3>1, PointsMove
      <3>2. ASSUME \/ \E x \in Attempts : Expires(x) \/ GrowsUncertain(x)
                   \/ Midnight
            PROVE  UNCHANGED <<at, tries>>
        BY <3>2 DEF Expires, GrowsUncertain, Midnight, retryVars
      <3> QED BY <1>4, <3>1, <3>2 DEF Next
    <2>2. DispatchRank(q)' = DispatchRank(q)
      BY <2>1 DEF DispatchRank, PointRank
    <2> HIDE DEF DispatchRank
    <2> QED BY <1>1, <1>2, <1>4, <2>2
  <1> QED BY <1>3, <1>4

\* A dispatch cannot go on for ever and is never in the way of itself: each of
\* its steps uses up an attempt or a part of one, whatever other dispatches and
\* reconciliations do, and the row it settles, releases or marks is live
\* (KeyRouter.dispatch, settle_reservation, mark_uncertain).
THEOREM DispatchesEnd ==
  Spec => []SettlementFindsRow /\ [][DispatchesNearEnd]_vars
  <1>1. IInv => SettlementFindsRow
    BY DEF IInv, FlowOK, FlowOf, InFlight, Dispatched, SettlementFindsRow,
           IsLive, Live
  <1> QED BY <1>1, NextNearsEnd, Invariance, PTL DEF Spec
=============================================================================
