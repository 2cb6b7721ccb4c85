---------------------- MODULE RunBindingsAnswersProofs ----------------------
(***************************************************************************)
(* Theorems about the answers RunBindings gives, its audit events, and the *)
(* atomic ledger it implements; for any constants, like those of           *)
(* RunBindingsProofs, whose invariant BudgetInv they rest on.              *)
(*                                                                         *)
(* A claim decides under its row lock and answers some steps later, so the *)
(* invariant AnswersInv keeps what the decision was: a claim about to      *)
(* insert has seen its executor and its window (ClaimsTimely), a           *)
(* registration about to insert still has the current version pinned       *)
(* (PinsHold), and each answer rests on a stored attempt (GrantsRecorded)  *)
(* whose retry window lies inside the binding (AttemptsWithin).            *)
(***************************************************************************)
EXTENDS RunBindingsProofs

-----------------------------------------------------------------------------
(* The inductive invariant.                                                *)

\* A request carries a time that has been, and a registration is valid then.
RequestsTimed ==
  /\ clock <= Horizon
  /\ \A q \in DOMAIN requests :
       /\ requests[q].now <= clock
       /\ requests[q].op.kind = "register" =>
            ValidBindingRequest(requests[q].op, requests[q].now)

\* A claim about to insert has seen the bound executor and an open window.
ClaimsTimely ==
  \A q \in DOMAIN seen :
    requests[q].phase = "inserting" =>
      /\ requests[q].op.kind = "claim"
      /\ seen[q].request.executor = requests[q].op.executor
      /\ InWindow(seen[q], requests[q].now)

\* What a registration pinned FOR SHARE is current and active.
PinsHold ==
  \A q \in DOMAIN pinned :
    /\ credentials[requests[q].op.credential].state = "active"
    /\ credentials[requests[q].op.credential].version = pinned[q]

\* run_bindings is a table: nothing but its rows.
RowsTable == bindings \in [DOMAIN bindings -> BindingRow]

\* A binding is stored under the run it was registered for.
RowsKeyed == \A run \in DOMAIN bindings : bindings[run].request.run = run

\* An attempt cannot be replayed past the end of its binding.
AttemptsWithin ==
  \A a \in DOMAIN attempts :
    attempts[a].expiresAt <= bindings[attempts[a].run].request.expiresAt

\* An answer repeats the attempt stored under its identifier.
GrantsRecorded ==
  \A g \in granted :
    /\ g.claim.attempt \in DOMAIN attempts
    /\ attempts[g.claim.attempt].run = g.claim.run
    /\ attempts[g.claim.attempt].executor = g.claim.executor
    /\ attempts[g.claim.attempt].stamp = g.claim.stamp
    /\ attempts[g.claim.attempt].expiresAt = g.until

\* An answer was given inside the window, to the executor and from the version
\* of its binding.
GrantsBound ==
  \A g \in granted :
    /\ g.claim.executor = bindings[g.claim.run].request.executor
    /\ g.version = bindings[g.claim.run].version
    /\ InWindow(bindings[g.claim.run], g.now)
    /\ g.now < g.until

FlightInv == RequestsTimed /\ ClaimsTimely /\ PinsHold

AnswersInv ==
  /\ BudgetInv
  /\ FlightInv
  /\ RowsTable /\ RowsKeyed /\ AttemptsWithin
  /\ GrantsRecorded /\ GrantsBound

-----------------------------------------------------------------------------
(* What a step changes.                                                    *)

\* A request is left as it is, with its locks, unless the step is its own.
LEMMA RequestWriters ==
  ASSUME BudgetInv, [Next]_vars, NEW q \in DOMAIN requests'
  PROVE  \/ /\ q \in DOMAIN requests /\ requests'[q] = requests[q]
            /\ q \in DOMAIN seen' <=> q \in DOMAIN seen
            /\ q \in DOMAIN pinned' <=> q \in DOMAIN pinned
            /\ q \in DOMAIN seen => seen'[q] = seen[q]
            /\ q \in DOMAIN pinned => pinned'[q] = pinned[q]
         \/ \E op \in Operations : Issue(q, op)
         \/ RegisterPin(q) \/ LockRow(q) \/ AttemptUnknown(q)
<1> DEFINE Kept == /\ q \in DOMAIN requests /\ requests'[q] = requests[q]
                   /\ q \in DOMAIN seen' <=> q \in DOMAIN seen
                   /\ q \in DOMAIN pinned' <=> q \in DOMAIN pinned
                   /\ q \in DOMAIN seen => seen'[q] = seen[q]
                   /\ q \in DOMAIN pinned => pinned'[q] = pinned[q]
<1>1. ASSUME UNCHANGED <<requests, seen, pinned>>
      PROVE  Kept
  BY <1>1
<1>2. ASSUME NEW p \in Requests, Finish(p)
      PROVE  Kept
  BY <1>2 DEF Finish, Without
<1>3. ASSUME NEW p \in Requests, NEW op \in Operations, Issue(p, op), p # q
      PROVE  Kept
  BY <1>3 DEF Issue, With, locks
<1>4. ASSUME NEW p \in Requests, RegisterPin(p) \/ LockRow(p) \/ AttemptUnknown(p), p # q
      PROVE  Kept
  BY <1>4 DEF RegisterPin, LockRow, AttemptUnknown, Advance, With, locks
<1> HIDE DEF Kept
<1>5. ASSUME NEW p \in Requests, Abort(p) \/ Step(p)
      PROVE  Finish(p) \/ RegisterPin(p) \/ LockRow(p) \/ AttemptUnknown(p)
  BY <1>5 DEF Abort, Step, Refuse, RegisterConflict, RegisterReplay, RegisterNotFound,
     RegisterCollision, RegisterCommit, BindingNotFound, CancelNoEffect, CancelCommit,
     ClaimRefused, ClaimExpires, ClaimReplay, AttemptConflict, ClaimExhausted,
     InsertRefused, ClaimCommit
<1>6. ASSUME \/ Tick \/ UNCHANGED vars
             \/ \E c \in Credentials, state \in {"active", "retired"} : UpdateCredential(c, state)
      PROVE  Kept
  BY <1>1, <1>6 DEF Tick, UpdateCredential, vars, locks
<1>7. Kept \/ (\E op \in Operations : Issue(q, op))
        \/ RegisterPin(q) \/ LockRow(q) \/ AttemptUnknown(q)
  BY <1>2, <1>3, <1>4, <1>5, <1>6 DEF Next
<1> QED
  BY <1>7 DEF Kept

\* Only the commits of registrations, cancels and claims write the tables of
\* bindings and attempts and append transitions.
LEMMA TableWriters ==
  ASSUME [Next]_vars
  PROVE  \/ UNCHANGED <<bindings, attempts, events>>
         \/ \E q \in Requests :
              \/ RegisterCommit(q) \/ CancelCommit(q) \/ ClaimExpires(q)
              \/ ClaimExhausted(q) \/ ClaimCommit(q)
BY DEF Next, Step, vars, tables, Tick, UpdateCredential, Issue, Abort, Refuse,
   RegisterConflict, RegisterReplay, RegisterNotFound, RegisterPin, RegisterCollision,
   BindingNotFound, LockRow, CancelNoEffect, ClaimRefused, ClaimReplay,
   AttemptConflict, AttemptUnknown, InsertRefused

\* Only claims answer with plaintext.
LEMMA GrantWriters ==
  ASSUME [Next]_vars, NEW g \in granted' \ granted
  PROVE  \E q \in Requests : ClaimReplay(q) \/ ClaimCommit(q)
BY DEF Next, Step, vars, answers, Tick, UpdateCredential, Issue, Abort, Refuse,
   RegisterConflict, RegisterReplay, RegisterNotFound, RegisterPin, RegisterCollision,
   RegisterCommit, BindingNotFound, LockRow, CancelNoEffect, CancelCommit,
   ClaimRefused, ClaimExpires, AttemptConflict, ClaimExhausted, AttemptUnknown,
   InsertRefused

\* A stored attempt is never changed.
LEMMA AttemptsStand ==
  ASSUME [Next]_vars, NEW a \in DOMAIN attempts
  PROVE  a \in DOMAIN attempts' /\ attempts'[a] = attempts[a]
<1>1. ASSUME NEW q \in Requests, ClaimCommit(q)
      PROVE  a \in DOMAIN attempts' /\ attempts'[a] = attempts[a]
  BY <1>1 DEF ClaimCommit, With
<1>2. ASSUME NEW q \in Requests, RegisterCommit(q) \/ CancelCommit(q) \/ ClaimExpires(q) \/ ClaimExhausted(q)
      PROVE  attempts' = attempts
  BY <1>2 DEF RegisterCommit, CancelCommit, ClaimExpires, ClaimExhausted
<1> QED
  BY <1>1, <1>2, TableWriters

\* An answer once given is never taken back.
LEMMA GrantsStand ==
  ASSUME [Next]_vars
  PROVE  granted \subseteq granted'
BY DEF Next, Step, vars, answers, Tick, UpdateCredential, Issue, Abort, Refuse,
   RegisterConflict, RegisterReplay, RegisterNotFound, RegisterPin, RegisterCollision,
   RegisterCommit, BindingNotFound, LockRow, CancelNoEffect, CancelCommit,
   ClaimRefused, ClaimExpires, AttemptConflict, ClaimExhausted, AttemptUnknown,
   InsertRefused, ClaimReplay, ClaimCommit

-----------------------------------------------------------------------------
(* The invariant is inductive: requests in flight.                         *)

\* A step moves the clock by Tick only, and never past Horizon.
LEMMA ClockSteps ==
  ASSUME BudgetInv, clock <= Horizon, [Next]_vars
  PROVE  clock <= clock' /\ clock' <= Horizon
<1>1. clock \in Nat
  BY DEF BudgetInv, TypeInv, TypeOK, TablesOK
<1>2. CASE Tick
  BY <1>1, <1>2, BoundAssumption DEF Tick
<1>3. CASE UNCHANGED clock
  BY <1>1, <1>3
<1>4. Tick \/ UNCHANGED clock
  BY DEF Next, Step, vars, UpdateCredential, Issue, Abort, Refuse,
     RegisterConflict, RegisterReplay, RegisterNotFound, RegisterPin, RegisterCollision,
     RegisterCommit, BindingNotFound, LockRow, CancelNoEffect, CancelCommit,
     ClaimRefused, ClaimExpires, AttemptConflict, ClaimExhausted, AttemptUnknown,
     InsertRefused, ClaimReplay, ClaimCommit
<1> QED
  BY <1>2, <1>3, <1>4

\* RequestsTimed is kept: Issue reads the clock and validates (RegisterBinding).
LEMMA TimedStep ==
  ASSUME BudgetInv, RequestsTimed, [Next]_vars
  PROVE  RequestsTimed'
<1>1. clock <= clock' /\ clock' <= Horizon
  BY ClockSteps DEF RequestsTimed
<1>2. /\ clock \in Nat /\ clock' \in Nat
      /\ \A q \in DOMAIN requests : requests[q] \in Request
  BY TypeStep DEF BudgetInv, TypeInv, TypeOK, TablesOK, FlightOK
<1>3. ASSUME NEW q \in DOMAIN requests'
      PROVE  /\ requests'[q].now <= clock'
             /\ requests'[q].op.kind = "register" =>
                  ValidBindingRequest(requests'[q].op, requests'[q].now)
  <2>1. ASSUME q \in DOMAIN requests, requests'[q].op = requests[q].op,
               requests'[q].now = requests[q].now
        PROVE  /\ requests'[q].now <= clock'
               /\ requests'[q].op.kind = "register" =>
                    ValidBindingRequest(requests'[q].op, requests'[q].now)
    <3>1. requests[q].now \in Nat /\ requests[q].now <= clock
      BY <1>2, <2>1 DEF RequestsTimed, Request
    <3> QED
      BY <1>1, <1>2, <2>1, <3>1 DEF RequestsTimed
  <2>2. ASSUME NEW op \in Operations, Issue(q, op)
        PROVE  /\ requests'[q].now <= clock'
               /\ requests'[q].op.kind = "register" =>
                    ValidBindingRequest(requests'[q].op, requests'[q].now)
    BY <1>2, <2>2 DEF Issue, With
  <2>3. CASE RegisterPin(q) \/ LockRow(q) \/ AttemptUnknown(q)
    <3>1. q \in DOMAIN requests /\ \E phase : Advance(q, phase)
      BY <2>3 DEF RegisterPin, LockRow, AttemptUnknown, Validated, InFlight
    <3>2. requests'[q].op = requests[q].op /\ requests'[q].now = requests[q].now
      BY <1>2, <3>1 DEF Advance, Request
    <3> QED
      BY <2>1, <3>1, <3>2
  <2> QED
    BY <2>1, <2>2, <2>3, RequestWriters
<1> QED
  BY <1>1, <1>3 DEF RequestsTimed

\* ClaimsTimely is kept: AttemptUnknown comes after the checks of validate, and
\* what a request has seen does not change while it holds the row.
LEMMA TimelyStep ==
  ASSUME BudgetInv, ClaimsTimely, [Next]_vars
  PROVE  ClaimsTimely'
<1>1. TypeInv' /\ TypeInv
  BY TypeStep DEF BudgetInv
<1> SUFFICES ASSUME NEW q \in DOMAIN seen', requests'[q].phase = "inserting"
             PROVE  /\ requests'[q].op.kind = "claim"
                    /\ seen'[q].request.executor = requests'[q].op.executor
                    /\ InWindow(seen'[q], requests'[q].now)
  BY DEF ClaimsTimely
<1>2. q \in DOMAIN requests'
  BY <1>1 DEF TypeInv, TypeOK, FlightOK
<1>3. CASE /\ q \in DOMAIN requests /\ requests'[q] = requests[q]
           /\ q \in DOMAIN seen /\ seen'[q] = seen[q]
  BY <1>3 DEF ClaimsTimely
<1>4. ASSUME NEW op \in Operations, Issue(q, op)
      PROVE  FALSE
  BY <1>4 DEF Issue, With
<1>5. CASE RegisterPin(q)
  BY <1>1, <1>5 DEF RegisterPin, InFlight, TypeInv, LocksMatch
<1>6. CASE LockRow(q)
  <2>1. requests'[q].phase = "locked"
    BY <1>1, <1>6 DEF LockRow, InFlight, Advance, TypeInv, TypeOK, FlightOK, Request
  <2> QED
    BY <2>1
<1>7. CASE AttemptUnknown(q)
  <2>1. /\ q \in DOMAIN requests /\ requests[q] \in Request
        /\ requests' = [requests EXCEPT ![q].phase = "inserting"]
        /\ seen' = seen
    BY <1>1, <1>7 DEF AttemptUnknown, Validated, InFlight, Advance, locks, TypeInv, TypeOK, FlightOK
  <2>2. requests'[q].op = requests[q].op /\ requests'[q].now = requests[q].now
    BY <2>1 DEF Request
  <2> QED
    BY <1>7, <2>1, <2>2 DEF AttemptUnknown, Validated, InFlight, Presentable, Op, Now
<1> QED
  BY <1>2, <1>3, <1>4, <1>5, <1>6, <1>7, RequestWriters

\* PinsHold is kept: an update of a credential waits for the pins on it.
LEMMA PinsStep ==
  ASSUME BudgetInv, PinsHold, [Next]_vars
  PROVE  PinsHold'
<1>1. TypeInv' /\ TypeInv
  BY TypeStep DEF BudgetInv
<1> SUFFICES ASSUME NEW q \in DOMAIN pinned'
             PROVE  /\ credentials'[requests'[q].op.credential].state = "active"
                    /\ credentials'[requests'[q].op.credential].version = pinned'[q]
  BY DEF PinsHold
<1>2. q \in DOMAIN requests'
  BY <1>1 DEF TypeInv, TypeOK, FlightOK
<1>3. ASSUME NEW c \in Credentials, NEW state \in {"active", "retired"}, UpdateCredential(c, state)
      PROVE  /\ credentials'[requests'[q].op.credential].state = "active"
             /\ credentials'[requests'[q].op.credential].version = pinned'[q]
  <2>1. q \in DOMAIN pinned /\ pinned' = pinned /\ requests' = requests
    BY <1>3 DEF UpdateCredential, locks
  <2>2. requests[q].op.credential # c
    BY <1>3, <2>1 DEF UpdateCredential, CredentialFree, Op
  <2>3. credentials'[requests[q].op.credential] = credentials[requests[q].op.credential]
    BY <1>3, <2>2 DEF UpdateCredential
  <2> QED
    BY <2>1, <2>3 DEF PinsHold
<1>4. CASE UNCHANGED credentials
  <2>1. CASE /\ requests'[q] = requests[q]
             /\ q \in DOMAIN pinned /\ pinned'[q] = pinned[q]
    BY <1>4, <2>1 DEF PinsHold
  <2>2. ASSUME NEW op \in Operations, Issue(q, op)
        PROVE  FALSE
    BY <1>1, <2>2 DEF Issue, locks, TypeInv, TypeOK, FlightOK
  <2>3. CASE RegisterPin(q)
    <3>1. requests'[q].op = requests[q].op
      BY <1>1, <2>3 DEF RegisterPin, InFlight, Advance, TypeInv, TypeOK, FlightOK, Request
    <3>2. pinned'[q] = credentials[requests[q].op.credential].version
      BY <2>3 DEF RegisterPin, With, Op
    <3> QED
      BY <1>4, <2>3, <3>1, <3>2 DEF RegisterPin, Op
  <2>4. CASE LockRow(q) \/ AttemptUnknown(q)
    BY <1>1, <2>4 DEF LockRow, AttemptUnknown, Validated, InFlight, locks, TypeInv, LocksMatch
  <2> QED
    BY <1>2, <2>1, <2>2, <2>3, <2>4, RequestWriters
<1>5. \/ UNCHANGED credentials
      \/ \E c \in Credentials, state \in {"active", "retired"} : UpdateCredential(c, state)
  BY DEF Next, Step, vars, tables, Tick, Issue, Abort, Refuse,
     RegisterConflict, RegisterReplay, RegisterNotFound, RegisterPin, RegisterCollision,
     RegisterCommit, BindingNotFound, LockRow, CancelNoEffect, CancelCommit,
     ClaimRefused, ClaimExpires, AttemptConflict, ClaimExhausted, AttemptUnknown,
     InsertRefused, ClaimReplay, ClaimCommit
<1> QED
  BY <1>3, <1>4, <1>5

-----------------------------------------------------------------------------
(* The invariant is inductive: tables and answers.                         *)

\* What a claim that commits or replays holds: its row, as the table has it,
\* the bound executor and a time inside the window.
LEMMA ClaimFacts ==
  ASSUME BudgetInv, ClaimsTimely, NEW q, Validated(q) \/ ClaimCommit(q)
  PROVE  /\ q \in DOMAIN requests /\ q \in DOMAIN seen
         /\ Op(q) \in Claim /\ Op(q) \in Operations /\ Op(q).kind = "claim"
         /\ Now(q) \in Nat
         /\ seen[q] \in BindingRow
         /\ Op(q).run \in DOMAIN bindings /\ seen[q] = bindings[Op(q).run]
         /\ seen[q].request.executor = Op(q).executor
         /\ InWindow(seen[q], Now(q))
         /\ seen[q].request.expiresAt \in Nat
<1>1. /\ q \in DOMAIN requests /\ q \in DOMAIN seen
      /\ Op(q) \in Operations /\ Op(q).kind = "claim" /\ Op(q) \in Claim
      /\ Now(q) \in Nat /\ seen[q] \in BindingRow
  BY InFlightFacts, OperationKinds DEF BudgetInv, Validated, ClaimCommit
<1>2. Op(q).run \in DOMAIN bindings /\ seen[q] = bindings[Op(q).run]
  BY <1>1 DEF BudgetInv, LocksInv, RowsHeld, Op
<1>3. seen[q].request.executor = Op(q).executor /\ InWindow(seen[q], Now(q))
  <2>1. CASE Validated(q)
    BY <2>1 DEF Validated, Presentable
  <2>2. CASE ClaimCommit(q)
    BY <1>1, <2>2 DEF ClaimCommit, InFlight, ClaimsTimely, Op, Now
  <2> QED
    BY <2>1, <2>2
<1>4. seen[q].request.expiresAt \in Nat
  BY <1>1 DEF BindingRow, Registration
<1> QED
  BY <1>1, <1>2, <1>3, <1>4

\* The retry window of an attempt made inside the binding's window is open
\* and ends with the binding at the latest.
LEMMA AttemptExpiryWithin ==
  ASSUME NEW b, NEW now \in Nat, b.request.expiresAt \in Nat, InWindow(b, now)
  PROVE  AttemptExpiry(b, now) <= b.request.expiresAt /\ now < AttemptExpiry(b, now)
BY PolicyAssumption DEF AttemptExpiry, InWindow

\* RowsTable is kept: each write inserts or updates one row.
LEMMA TableStep ==
  ASSUME BudgetInv, RowsTable, [Next]_vars
  PROVE  RowsTable'
<1>1. \A run \in DOMAIN bindings' : bindings'[run] \in BindingRow
  BY TypeStep DEF BudgetInv, TypeInv, TypeOK, TablesOK
<1>2. ASSUME NEW q \in Requests,
             \/ RegisterCommit(q) \/ CancelCommit(q) \/ ClaimExpires(q)
             \/ ClaimExhausted(q) \/ ClaimCommit(q)
      PROVE  bindings' = [run \in DOMAIN bindings' |-> bindings'[run]]
  BY <1>2 DEF RegisterCommit, CancelCommit, ClaimExpires, ClaimExhausted, ClaimCommit, With
<1> QED
  BY <1>1, <1>2, RowWriters DEF RowsTable

\* RowsKeyed is kept: a registration inserts the row of its own run.
LEMMA KeyedStep ==
  ASSUME BudgetInv, RowsKeyed, [Next]_vars
  PROVE  RowsKeyed'
<1> SUFFICES ASSUME NEW run \in DOMAIN bindings'
             PROVE  bindings'[run].request.run = run
  BY DEF RowsKeyed
<1>1. CASE run \in DOMAIN bindings
  BY <1>1, RowsStand DEF RowsKeyed
<1>2. ASSUME NEW q \in Requests, RegisterCommit(q), run \notin DOMAIN bindings
      PROVE  bindings'[run].request.run = run
  BY <1>2 DEF RegisterCommit, With, NewBinding
<1>3. ASSUME NEW q \in Requests, CancelCommit(q) \/ ClaimExpires(q) \/ ClaimExhausted(q) \/ ClaimCommit(q)
      PROVE  run \in DOMAIN bindings
  BY <1>3 DEF CancelCommit, ClaimExpires, ClaimExhausted, ClaimCommit
<1> QED
  BY <1>1, <1>2, <1>3, RowWriters

\* AttemptsWithin is kept: a new attempt is cut at the end of its binding,
\* which no step moves.
LEMMA WithinStep ==
  ASSUME BudgetInv, ClaimsTimely, AttemptsWithin, [Next]_vars
  PROVE  AttemptsWithin'
<1> SUFFICES ASSUME NEW a \in DOMAIN attempts'
             PROVE  attempts'[a].expiresAt <= bindings'[attempts'[a].run].request.expiresAt
  BY DEF AttemptsWithin
<1>1. CASE a \in DOMAIN attempts
  <2>1. attempts'[a] = attempts[a] /\ attempts[a].run \in DOMAIN bindings
    BY <1>1, AttemptsStand DEF BudgetInv, AttemptsStored
  <2> QED
    BY <1>1, <2>1, RowsStand DEF AttemptsWithin
<1>2. ASSUME NEW q \in Requests, ClaimCommit(q), a \notin DOMAIN attempts
      PROVE  attempts'[a].expiresAt <= bindings'[attempts'[a].run].request.expiresAt
  <2>1. attempts'[a] = NewAttempt(seen[q], Op(q), Now(q))
    BY <1>2 DEF ClaimCommit, With
  <2>2. attempts'[a].run = Op(q).run /\ attempts'[a].expiresAt = AttemptExpiry(seen[q], Now(q))
    BY <2>1 DEF NewAttempt
  <2>3. /\ Op(q).run \in DOMAIN bindings /\ seen[q] = bindings[Op(q).run]
        /\ AttemptExpiry(seen[q], Now(q)) <= seen[q].request.expiresAt
    BY <1>2, ClaimFacts, AttemptExpiryWithin
  <2> QED
    BY <2>2, <2>3, RowsStand
<1>3. ASSUME NEW q \in Requests, RegisterCommit(q) \/ CancelCommit(q) \/ ClaimExpires(q) \/ ClaimExhausted(q)
      PROVE  attempts' = attempts
  BY <1>3 DEF RegisterCommit, CancelCommit, ClaimExpires, ClaimExhausted
<1> QED
  BY <1>1, <1>2, <1>3, TableWriters

\* The fields of the answers a step adds, against the attempt they rest on.
LEMMA NewGrants ==
  ASSUME BudgetInv, ClaimsTimely, [Next]_vars, NEW g \in granted' \ granted
  PROVE  \E q \in Requests :
           /\ Validated(q) \/ ClaimCommit(q)
           /\ g.claim = Op(q) /\ g.now = Now(q) /\ g.version = seen[q].version
           /\ Op(q).attempt \in DOMAIN attempts'
           /\ attempts'[Op(q).attempt].run = Op(q).run
           /\ attempts'[Op(q).attempt].executor = Op(q).executor
           /\ attempts'[Op(q).attempt].stamp = Op(q).stamp
           /\ attempts'[Op(q).attempt].expiresAt = g.until
           /\ g.now < g.until
<1>1. PICK q \in Requests : ClaimReplay(q) \/ ClaimCommit(q)
  BY GrantWriters
<1>2. CASE ClaimReplay(q)
  <2>1. g = Grant(seen[q], Op(q), Now(q), attempts[Op(q).attempt].expiresAt)
    BY <1>2 DEF ClaimReplay
  <2>2. attempts' = attempts
    BY <1>2 DEF ClaimReplay, tables
  <2> QED
    BY <1>2, <2>1, <2>2 DEF ClaimReplay, Replayable, Grant
<1>3. CASE ClaimCommit(q)
  <2>1. /\ g = Grant(seen[q], Op(q), Now(q), NewAttempt(seen[q], Op(q), Now(q)).expiresAt)
        /\ attempts' = With(attempts, Op(q).attempt, NewAttempt(seen[q], Op(q), Now(q)))
    BY <1>3 DEF ClaimCommit
  <2>2. /\ Op(q).attempt \in DOMAIN attempts'
        /\ attempts'[Op(q).attempt] = NewAttempt(seen[q], Op(q), Now(q))
    BY <2>1 DEF With
  <2>3. Now(q) < AttemptExpiry(seen[q], Now(q))
    BY <1>3, ClaimFacts, AttemptExpiryWithin
  <2> QED
    BY <1>3, <2>1, <2>2, <2>3 DEF NewAttempt, Grant
<1> QED
  BY <1>1, <1>2, <1>3

\* GrantsRecorded is kept: an answer comes with its attempt or repeats it.
LEMMA RecordedStep ==
  ASSUME BudgetInv, ClaimsTimely, GrantsRecorded, [Next]_vars
  PROVE  GrantsRecorded'
<1> SUFFICES ASSUME NEW g \in granted'
             PROVE  /\ g.claim.attempt \in DOMAIN attempts'
                    /\ attempts'[g.claim.attempt].run = g.claim.run
                    /\ attempts'[g.claim.attempt].executor = g.claim.executor
                    /\ attempts'[g.claim.attempt].stamp = g.claim.stamp
                    /\ attempts'[g.claim.attempt].expiresAt = g.until
  BY DEF GrantsRecorded
<1>1. CASE g \in granted
  BY <1>1, AttemptsStand DEF GrantsRecorded
<1>2. CASE g \notin granted
  BY <1>2, NewGrants
<1> QED
  BY <1>1, <1>2

\* GrantsBound is kept: the row a claim holds is the stored one, and no step
\* changes what the answer was checked against.
LEMMA BoundStep ==
  ASSUME BudgetInv, ClaimsTimely, GrantsRecorded, GrantsBound, [Next]_vars
  PROVE  GrantsBound'
<1> SUFFICES ASSUME NEW g \in granted'
             PROVE  /\ g.claim.executor = bindings'[g.claim.run].request.executor
                    /\ g.version = bindings'[g.claim.run].version
                    /\ InWindow(bindings'[g.claim.run], g.now)
                    /\ g.now < g.until
  BY DEF GrantsBound
<1>1. /\ g.claim.run \in DOMAIN bindings
      /\ g.claim.executor = bindings[g.claim.run].request.executor
      /\ g.version = bindings[g.claim.run].version
      /\ InWindow(bindings[g.claim.run], g.now)
      /\ g.now < g.until
  <2>1. CASE g \in granted
    BY <2>1 DEF GrantsBound, GrantsRecorded, BudgetInv, AttemptsStored
  <2>2. CASE g \notin granted
    <3>1. PICK q \in Requests :
            /\ Validated(q) \/ ClaimCommit(q)
            /\ g.claim = Op(q) /\ g.now = Now(q) /\ g.version = seen[q].version
            /\ g.now < g.until
      BY <2>2, NewGrants
    <3> QED
      BY <3>1, ClaimFacts
  <2> QED
    BY <2>1, <2>2
<1> QED
  BY <1>1, RowsStand DEF InWindow

\* AnswersInv holds initially.
LEMMA AnswersInit ==
  ASSUME Init
  PROVE  AnswersInv
<1>1. /\ DOMAIN attempts = {} /\ DOMAIN bindings = {} /\ DOMAIN seen = {}
      /\ DOMAIN pinned = {} /\ DOMAIN requests = {} /\ granted = {} /\ clock = 0
  BY DEF Init, EmptyTable
<1>2. RequestsTimed
  BY <1>1, BoundAssumption DEF RequestsTimed
<1>3. ClaimsTimely /\ PinsHold /\ RowsKeyed /\ AttemptsWithin
  BY <1>1 DEF ClaimsTimely, PinsHold, RowsKeyed, AttemptsWithin
<1>4. RowsTable
  BY <1>1 DEF RowsTable, Init, EmptyTable
<1>5. GrantsRecorded /\ GrantsBound
  BY <1>1 DEF GrantsRecorded, GrantsBound
<1> QED
  BY <1>2, <1>3, <1>4, <1>5, BudgetInit DEF AnswersInv, FlightInv

\* Every reachable state satisfies AnswersInv.
LEMMA AnswersInductive == Spec => []AnswersInv
<1>1. Init => AnswersInv
  BY AnswersInit
<1>2. AnswersInv /\ [Next]_vars => AnswersInv'
  BY BudgetStep, TimedStep, TimelyStep, PinsStep, TableStep, KeyedStep, WithinStep, RecordedStep, BoundStep
     DEF AnswersInv, FlightInv
<1> QED
  BY <1>1, <1>2, PTL DEF Spec

-----------------------------------------------------------------------------
(* What an executor is told.                                               *)

\* Every plaintext answer ever given, however its claim interleaved with
\* others, honours the binding as it is stored now and rests on an attempt
\* stored for that run (ClaimResolution, Resolve).
THEOREM GrantsCorrect == Spec => []GrantsHonourBinding
<1>1. ASSUME AnswersInv
      PROVE  GrantsHonourBinding
  <2> SUFFICES ASSUME NEW g \in granted
               PROVE  /\ g.claim.run \in DOMAIN bindings
                      /\ LET b == bindings[g.claim.run] IN
                         /\ g.claim.executor = b.request.executor
                         /\ g.version = b.version
                         /\ InWindow(b, g.now)
                         /\ g.now < g.until /\ g.until <= b.request.expiresAt
                      /\ g.claim.attempt \in AttemptsOf(g.claim.run)
    BY DEF GrantsHonourBinding
  <2>1. /\ g.claim.attempt \in DOMAIN attempts
        /\ attempts[g.claim.attempt].run = g.claim.run
        /\ attempts[g.claim.attempt].expiresAt = g.until
    BY <1>1 DEF AnswersInv, GrantsRecorded
  <2>2. g.claim.run \in DOMAIN bindings /\ g.until <= bindings[g.claim.run].request.expiresAt
    BY <1>1, <2>1 DEF AnswersInv, BudgetInv, AttemptsStored, AttemptsWithin
  <2> QED
    BY <1>1, <2>1, <2>2 DEF AnswersInv, GrantsBound, AttemptsOf
<1> QED
  BY <1>1, AnswersInductive, PTL

\* Two answers under one attempt identifier are the same answer, also when
\* claims of two runs raced for it (the primary key of resolution_attempts).
THEOREM AttemptsAgree == Spec => []AttemptAnswersAgree
<1>1. ASSUME AnswersInv
      PROVE  AttemptAnswersAgree
  <2> SUFFICES ASSUME NEW g \in granted, NEW h \in granted, g.claim.attempt = h.claim.attempt
               PROVE  g.claim = h.claim /\ g.version = h.version /\ g.until = h.until
    BY DEF AttemptAnswersAgree
  <2>1. /\ g.claim.run = h.claim.run /\ g.claim.executor = h.claim.executor
        /\ g.claim.stamp = h.claim.stamp /\ g.until = h.until
    BY <1>1 DEF AnswersInv, GrantsRecorded
  <2>2. g.claim \in Claim /\ h.claim \in Claim
    BY <1>1 DEF AnswersInv, BudgetInv, TypeInv, TypeOK, HistoryOK, GrantRecord
  <2>3. g.claim = h.claim
    BY <2>1, <2>2 DEF Claim
  <2> QED
    BY <1>1, <2>1, <2>3 DEF AnswersInv, GrantsBound
<1> QED
  BY <1>1, AnswersInductive, PTL

-----------------------------------------------------------------------------
(* What a scheduler is told.                                               *)

\* A step that acknowledges a registration leaves it stored as it was asked.
LEMMA AcknowledgedStep ==
  ASSUME AnswersInv, AcknowledgedRegistrationsStand, [Next]_vars
  PROVE  AcknowledgedRegistrationsStand'
<1>0. BudgetInv
  BY DEF AnswersInv
<1> SUFFICES ASSUME NEW r \in acked'
             PROVE  r.run \in DOMAIN bindings' /\ bindings'[r.run].request = r
  BY DEF AcknowledgedRegistrationsStand
<1>1. CASE r.run \in DOMAIN bindings /\ bindings[r.run].request = r
  BY <1>0, <1>1, RowsStand
<1>2. ASSUME NEW q \in Requests, RegisterReplay(q), r = Op(q)
      PROVE  r.run \in DOMAIN bindings /\ bindings[r.run].request = r
  <2>1. PICK run \in DOMAIN bindings : bindings[run].request = r
    BY <1>2 DEF RegisterReplay, SameKey
  <2> QED
    BY <2>1 DEF AnswersInv, RowsKeyed
<1>3. ASSUME NEW q \in Requests, RegisterCommit(q), r = Op(q)
      PROVE  r.run \in DOMAIN bindings' /\ bindings'[r.run].request = r
  BY <1>3 DEF RegisterCommit, With, NewBinding
<1>4. \/ r \in acked
      \/ \E q \in Requests : (RegisterReplay(q) \/ RegisterCommit(q)) /\ r = Op(q)
  BY DEF Next, Step, vars, answers, Tick, UpdateCredential, Issue, Abort, Refuse,
     RegisterConflict, RegisterReplay, RegisterNotFound, RegisterPin, RegisterCollision,
     RegisterCommit, BindingNotFound, LockRow, CancelNoEffect, CancelCommit,
     ClaimRefused, ClaimExpires, AttemptConflict, ClaimExhausted, AttemptUnknown,
     InsertRefused, ClaimReplay, ClaimCommit
<1> QED
  BY <1>1, <1>2, <1>3, <1>4 DEF AcknowledgedRegistrationsStand

\* A registration answered with success, by its commit or by a replay of its
\* key, is stored as it was asked and stays so (RegisterBinding).
THEOREM RegistrationsStand == Spec => []AcknowledgedRegistrationsStand
<1>1. Init => AcknowledgedRegistrationsStand
  BY DEF Init, AcknowledgedRegistrationsStand
<1>2. AnswersInv /\ AcknowledgedRegistrationsStand /\ [Next]_vars => AcknowledgedRegistrationsStand'
  BY AcknowledgedStep
<1> QED
  BY <1>1, <1>2, AnswersInductive, PTL DEF Spec

\* A step that inserts a binding stores the version and the state of the
\* credential as they are at that step: the pin was held until the commit.
LEMMA SnapshotStep ==
  ASSUME AnswersInv, [Next]_vars, NEW run \in DOMAIN bindings' \ DOMAIN bindings
  PROVE  LET b == bindings'[run]
             c == credentials[b.request.credential]
         IN c.state = "active" /\ b.version = c.version
<1>1. ASSUME NEW q \in Requests, CancelCommit(q) \/ ClaimExpires(q) \/ ClaimExhausted(q) \/ ClaimCommit(q)
      PROVE  DOMAIN bindings' = DOMAIN bindings
  BY <1>1 DEF CancelCommit, ClaimExpires, ClaimExhausted, ClaimCommit
<1>2. PICK q \in Requests : RegisterCommit(q)
  BY <1>1, RowWriters DEF AnswersInv
<1>3. bindings'[run] = NewBinding(Op(q), pinned[q], Now(q))
  BY <1>2 DEF RegisterCommit, With
<1>4. q \in DOMAIN pinned
  BY <1>2 DEF RegisterCommit, InFlight, AnswersInv, BudgetInv, TypeInv, LocksMatch
<1> QED
  BY <1>3, <1>4 DEF NewBinding, Op, AnswersInv, FlightInv, PinsHold

\* No update or retirement of a credential slips between the snapshot of a
\* registration and its commit (SELECT ... FOR SHARE in RegisterBinding).
THEOREM SnapshotCorrect == Spec => SnapshotIsCurrent
<1>1. AnswersInv /\ [Next]_vars
        => [\A run \in DOMAIN bindings' \ DOMAIN bindings :
              LET b == bindings'[run]
                  c == credentials[b.request.credential]
              IN c.state = "active" /\ b.version = c.version]_vars
  BY SnapshotStep
<1> QED
  BY <1>1, AnswersInductive, PTL DEF Spec, SnapshotIsCurrent

-----------------------------------------------------------------------------
(* The audit spool and the tables.                                         *)

\* The events of one run say what its row says.
RunAudited(run) ==
  LET stored == run \in DOMAIN bindings
      b == bindings[run]
  IN /\ events[run]["registered"] = IF stored THEN 1 ELSE 0
     /\ events[run]["resolved"] = IF stored THEN b.count ELSE 0
     /\ events[run]["canceled"] = IF stored /\ b.state = "canceled" THEN 1 ELSE 0
     /\ events[run]["expired"] = IF stored /\ b.state = "expired" THEN 1 ELSE 0

\* appendAudit counts one event of one run and leaves the others alone.
LEMMA AuditEffect ==
  ASSUME events \in [Runs -> [EventKinds -> Nat]],
         NEW run \in Runs, NEW kind \in EventKinds, Audit(run, kind)
  PROVE  /\ events'[run][kind] = events[run][kind] + 1
         /\ \A k \in EventKinds \ {kind} : events'[run][k] = events[run][k]
         /\ \A r \in Runs \ {run} : events'[r] = events[r]
BY DEF Audit

\* A write to the row of one run, with its event, keeps the others audited.
LEMMA OthersAudited ==
  ASSUME NEW run, NEW r, r # run, RunAudited(r),
         r \in DOMAIN bindings' <=> r \in DOMAIN bindings,
         r \in DOMAIN bindings => bindings'[r] = bindings[r],
         events'[r] = events[r]
  PROVE  RunAudited(r)'
BY DEF RunAudited

\* The row of the run an event is about, before and after the step: each
\* commit appends exactly the event of the transition it stores.
LEMMA AuditStep ==
  ASSUME BudgetInv, NEW q \in Requests,
         \/ RegisterCommit(q) \/ CancelCommit(q) \/ ClaimExpires(q) \/ ClaimCommit(q),
         NEW r \in Runs, RunAudited(r)
  PROVE  RunAudited(r)'
<1> DEFINE run == Op(q).run
<1>1. events \in [Runs -> [EventKinds -> Nat]]
  BY DEF BudgetInv, TypeInv, TypeOK, HistoryOK
<1>2. /\ run \in Runs
      /\ ~RegisterCommit(q) =>
           q \in DOMAIN seen /\ seen[q] \in BindingRow
           /\ run \in DOMAIN bindings /\ seen[q] = bindings[run]
  <2>1. run \in Runs /\ (~RegisterCommit(q) => q \in DOMAIN seen /\ seen[q] \in BindingRow)
    BY InFlightFacts, OperationKinds DEF BudgetInv, RegisterCommit, CancelCommit, ClaimExpires, ClaimCommit
  <2> QED
    BY <2>1 DEF BudgetInv, LocksInv, RowsHeld, Op
<1>3. PICK kind \in EventKinds :
        /\ Audit(run, kind)
        /\ RegisterCommit(q) => kind = "registered"
        /\ CancelCommit(q) => kind = "canceled"
        /\ ClaimExpires(q) => kind = "expired"
        /\ ClaimCommit(q) => kind = "resolved"
  BY DEF RegisterCommit, CancelCommit, ClaimExpires, ClaimCommit, EventKinds, InFlight
<1>4. /\ events'[run][kind] = events[run][kind] + 1
      /\ \A k \in EventKinds \ {kind} : events'[run][k] = events[run][k]
      /\ \A x \in Runs \ {run} : events'[x] = events[x]
  BY <1>1, <1>2, <1>3, AuditEffect
<1>5. CASE r # run
  <2>1. /\ r \in DOMAIN bindings' <=> r \in DOMAIN bindings
        /\ r \in DOMAIN bindings => bindings'[r] = bindings[r]
    BY <1>5 DEF RegisterCommit, CancelCommit, ClaimExpires, ClaimCommit, With
  <2> QED
    BY <1>4, <1>5, <2>1, OthersAudited
<1>6. CASE r = run /\ RegisterCommit(q)
  <2>1. run \notin DOMAIN bindings
    BY <1>6 DEF RegisterCommit, Collides
  <2>2. /\ run \in DOMAIN bindings' /\ bindings'[run].count = 0
        /\ bindings'[run].state \notin {"canceled", "expired"}
    BY <1>6 DEF RegisterCommit, With, NewBinding
  <2> QED
    BY <1>3, <1>4, <1>6, <2>1, <2>2 DEF RunAudited, EventKinds
<1>7. CASE r = run /\ CancelCommit(q)
  <2>1. /\ run \in DOMAIN bindings' /\ bindings'[run].count = bindings[run].count
        /\ bindings'[run].state = "canceled"
    BY <1>2, <1>7 DEF CancelCommit, InFlight, RegisterCommit, BindingRow
  <2>2. run \in DOMAIN bindings /\ bindings[run].state \notin {"canceled", "expired"}
    BY <1>2, <1>7 DEF CancelCommit, InFlight, RegisterCommit, Terminal
  <2> QED
    BY <1>3, <1>4, <1>7, <2>1, <2>2 DEF RunAudited, EventKinds
<1>8. CASE r = run /\ ClaimExpires(q)
  <2>1. /\ run \in DOMAIN bindings' /\ bindings'[run].count = bindings[run].count
        /\ bindings'[run].state = "expired"
    BY <1>2, <1>8 DEF ClaimExpires, InFlight, RegisterCommit, BindingRow
  <2>2. run \in DOMAIN bindings /\ bindings[run].state \notin {"canceled", "expired"}
    BY <1>2, <1>8 DEF ClaimExpires, InFlight, RegisterCommit, Presentable
  <2> QED
    BY <1>3, <1>4, <1>8, <2>1, <2>2 DEF RunAudited, EventKinds
<1>9. CASE r = run /\ ClaimCommit(q)
  <2>1. /\ run \in DOMAIN bindings /\ seen[q] = bindings[run] /\ seen[q] \in BindingRow
        /\ bindings[run].state \notin {"canceled", "expired"}
    BY <1>2, <1>9 DEF ClaimCommit, InFlight, RegisterCommit, BudgetInv, LocksInv,
       ClaimsAdmitted, Admitted, Terminal
  <2>2. bindings'[run] = AfterClaim(bindings[run]) /\ run \in DOMAIN bindings'
    BY <1>9, <2>1 DEF ClaimCommit
  <2>3. AfterClaim(bindings[run]).state \notin {"canceled", "expired"}
    BY <2>1 DEF AfterClaim, BindingRow
  <2>4. bindings'[run].count = bindings[run].count + 1 /\ bindings[run].count \in Nat
    BY <2>1, <2>2, AfterClaimType DEF BindingRow
  <2> QED
    BY <1>3, <1>4, <1>9, <2>1, <2>2, <2>3, <2>4 DEF RunAudited, EventKinds
<1> QED
  BY <1>5, <1>6, <1>7, <1>8, <1>9

\* A claim that finds the limit reached finds the exhaustion stored, so it
\* writes nothing new and its event is never appended (ClaimResolution).
LEMMA ExhaustedIsStored ==
  ASSUME BudgetInv, RowsTable, NEW q \in Requests, ClaimExhausted(q)
  PROVE  UNCHANGED <<bindings, events>>
<1>1. q \in DOMAIN seen /\ seen[q] \in BindingRow
  BY InFlightFacts DEF BudgetInv, ClaimExhausted, Validated
<1>2. Op(q).run \in DOMAIN bindings /\ seen[q] = bindings[Op(q).run]
  BY <1>1 DEF BudgetInv, LocksInv, RowsHeld, Op
<1>3. seen[q].state = "exhausted"
  <2>1. /\ seen[q].count <= seen[q].request.max
        /\ seen[q].state = "exhausted" <=> seen[q].count = seen[q].request.max
    BY <1>2 DEF BudgetInv, BudgetExact
  <2>2. seen[q].count \in Nat /\ seen[q].request.max \in Nat
    BY <1>1 DEF BindingRow, Registration
  <2> QED
    BY <2>1, <2>2 DEF ClaimExhausted, AtLimit
<1>4. bindings' = [bindings EXCEPT ![Op(q).run] = [@ EXCEPT !.state = "exhausted"]]
  BY DEF ClaimExhausted
<1>5. [bindings[Op(q).run] EXCEPT !.state = "exhausted"] = bindings[Op(q).run]
  BY <1>1, <1>2, <1>3 DEF BindingRow
<1>6. bindings = [x \in DOMAIN bindings |-> bindings[x]]
  BY DEF RowsTable
<1> QED
  BY <1>2, <1>3, <1>4, <1>5, <1>6 DEF ClaimExhausted

\* After every commit the audit spool and the tables agree (appendAudit in the
\* transactions of RegisterBinding, CancelBinding and ClaimResolution).
THEOREM AuditCorrect == Spec => []AuditMatchesState
<1>0. AuditMatchesState <=> \A run \in Runs : RunAudited(run)
  BY DEF AuditMatchesState, RunAudited
<1>1. Init => AuditMatchesState
  BY DEF Init, AuditMatchesState, EmptyTable, NoEvents, EventKinds
<1>2. ASSUME AnswersInv, AuditMatchesState, [Next]_vars
      PROVE  AuditMatchesState'
  <2>0. BudgetInv /\ RowsTable
    BY <1>2 DEF AnswersInv
  <2>1. CASE UNCHANGED <<bindings, events>>
    BY <1>2, <2>1 DEF AuditMatchesState
  <2>2. ASSUME NEW q \in Requests,
               RegisterCommit(q) \/ CancelCommit(q) \/ ClaimExpires(q) \/ ClaimCommit(q)
        PROVE  AuditMatchesState'
    <3>1. \A run \in Runs : RunAudited(run)'
      BY <1>0, <1>2, <2>0, <2>2, AuditStep
    <3> QED
      BY <3>1 DEF AuditMatchesState, RunAudited
  <2> QED
    BY <1>2, <2>0, <2>1, <2>2, ExhaustedIsStored, TableWriters
<1> QED
  BY <1>1, <1>2, AnswersInductive, PTL DEF Spec

-----------------------------------------------------------------------------
(* Refinement: each operation takes effect in one step of the ledger.      *)

\* The time of a request is one of the ledger's.
LEMMA RequestTimes ==
  ASSUME BudgetInv, RequestsTimed, NEW q \in DOMAIN requests
  PROVE  Now(q) \in Ledger!Times
<1>1. requests[q] \in Request /\ clock \in Nat
  BY DEF BudgetInv, TypeInv, TypeOK, TablesOK, FlightOK
<1>2. requests[q].now \in Nat /\ requests[q].now <= clock /\ clock <= Horizon
  BY <1>1 DEF Request, RequestsTimed
<1> QED
  BY <1>1, <1>2, BoundAssumption DEF Ledger!Times, Now

\* The commit of a registration is a Register step: the version pinned is the
\* current one, and the request is valid at the time it carries.
LEMMA RegisterRefines ==
  ASSUME AnswersInv, NEW q \in Requests, RegisterCommit(q)
  PROVE  Ledger!Step
<1>1. /\ q \in DOMAIN requests /\ q \in DOMAIN pinned
      /\ Op(q) \in Registrations /\ Op(q).kind = "register"
  BY InFlightFacts, OperationKinds
     DEF AnswersInv, BudgetInv, TypeInv, LocksMatch, RegisterCommit, InFlight, Op
<1>2. ValidBindingRequest(Op(q), Now(q)) /\ Now(q) \in Ledger!Times
  BY <1>1, RequestTimes DEF AnswersInv, FlightInv, RequestsTimed, Op, Now
<1>3. /\ credentials[Op(q).credential].state = "active"
      /\ credentials[Op(q).credential].version = pinned[q]
  BY <1>1 DEF AnswersInv, FlightInv, PinsHold, Op
<1>4. /\ ~Collides(bindings, Op(q))
      /\ bindings' = With(bindings, Op(q).run, NewBinding(Op(q), pinned[q], Now(q)))
      /\ UNCHANGED <<credentials, attempts, granted>>
  BY DEF RegisterCommit
<1>5. Ledger!Register(Op(q), Now(q))
  BY <1>2, <1>3, <1>4
     DEF Ledger!Register, Ledger!ValidBindingRequest, ValidBindingRequest,
         Ledger!Collides, Collides, Ledger!With, With, Ledger!NewBinding, NewBinding
<1> QED
  BY <1>1, <1>2, <1>5 DEF Ledger!Step

\* The commit of a cancel is a CancelBinding step: the row seen is the stored
\* one.
LEMMA CancelRefines ==
  ASSUME AnswersInv, NEW q \in Requests, CancelCommit(q)
  PROVE  Ledger!Step
<1>1. q \in DOMAIN seen /\ Op(q) \in Operations /\ Op(q).kind = "cancel"
  BY InFlightFacts DEF AnswersInv, BudgetInv, CancelCommit
<1>2. Op(q).run \in DOMAIN bindings /\ seen[q] = bindings[Op(q).run]
  BY <1>1 DEF AnswersInv, BudgetInv, LocksInv, RowsHeld, Op
<1>3. Op(q) \in Cancels
  BY <1>1, RequestAssumption DEF Operations, Registration, Claim
<1>4. Ledger!CancelBinding(Op(q))
  BY <1>2 DEF CancelCommit, answers, Ledger!CancelBinding, Ledger!Terminal, Terminal
<1> QED
  BY <1>3, <1>4 DEF Ledger!Step

\* The claims that write or answer are Expire, Replay and Resolve steps.
LEMMA ClaimRefines ==
  ASSUME AnswersInv, NEW q \in Requests,
         ClaimExpires(q) \/ ClaimReplay(q) \/ ClaimCommit(q)
  PROVE  Ledger!Step
<1>1. /\ q \in DOMAIN requests /\ q \in DOMAIN seen
      /\ Op(q) \in Operations /\ Op(q).kind = "claim"
  BY InFlightFacts DEF AnswersInv, BudgetInv, ClaimExpires, ClaimReplay, Validated, ClaimCommit
<1>2. Op(q).run \in DOMAIN bindings /\ seen[q] = bindings[Op(q).run]
  BY <1>1 DEF AnswersInv, BudgetInv, LocksInv, RowsHeld, Op
<1>3. Op(q) \in Claims /\ Now(q) \in Ledger!Times
  BY <1>1, RequestAssumption, RequestTimes DEF Operations, Registration, Cancel, AnswersInv, FlightInv
<1>4. CASE ClaimExpires(q)
  <2>1. Ledger!Expire(Op(q), Now(q))
    BY <1>2, <1>4 DEF ClaimExpires, answers, Ledger!Expire, Ledger!Presentable, Presentable
  <2> QED
    BY <1>3, <2>1 DEF Ledger!Step
<1>5. CASE ClaimReplay(q)
  <2>1. Ledger!Replay(Op(q), Now(q))
    BY <1>2, <1>5
       DEF ClaimReplay, Validated, tables, Ledger!Replay, Ledger!Claimable,
           Ledger!Presentable, Presentable, Ledger!InWindow, InWindow,
           Ledger!Replayable, Replayable, Ledger!Grant, Grant
  <2> QED
    BY <1>3, <2>1 DEF Ledger!Step
<1>6. CASE ClaimCommit(q)
  <2>1. Admitted(seen[q])
    BY <1>1, <1>6 DEF AnswersInv, BudgetInv, LocksInv, ClaimsAdmitted, ClaimCommit, InFlight
  <2>2. Ledger!Claimable(Op(q), Now(q)) /\ ~Ledger!AtLimit(bindings[Op(q).run])
    <3>1. seen[q].request.executor = Op(q).executor /\ InWindow(seen[q], Now(q))
      BY <1>6, ClaimFacts DEF AnswersInv, FlightInv
    <3> QED
      BY <1>2, <2>1, <3>1
         DEF Admitted, Ledger!Claimable, Ledger!Presentable, Ledger!InWindow, InWindow,
             Terminal, Ledger!AtLimit, AtLimit
  <2>3. /\ Op(q).attempt \notin DOMAIN attempts
        /\ LET row == NewAttempt(bindings[Op(q).run], Op(q), Now(q)) IN
           /\ attempts' = With(attempts, Op(q).attempt, row)
           /\ granted' = granted \cup {Grant(bindings[Op(q).run], Op(q), Now(q), row.expiresAt)}
        /\ bindings' = [bindings EXCEPT ![Op(q).run] = AfterClaim(@)]
        /\ UNCHANGED credentials
    BY <1>2, <1>6 DEF ClaimCommit
  <2>4. Ledger!Resolve(Op(q), Now(q))
    BY <2>2, <2>3
       DEF Ledger!Resolve, Ledger!NewAttempt, NewAttempt, Ledger!AttemptExpiry, AttemptExpiry,
           Ledger!With, With, Ledger!Grant, Grant, Ledger!AfterClaim, AfterClaim
  <2> QED
    BY <1>3, <2>4 DEF Ledger!Step
<1> QED
  BY <1>4, <1>5, <1>6

\* Every step of RunBindings is a step of the ledger or leaves it alone.
LEMMA LedgerStep ==
  ASSUME AnswersInv, [Next]_vars
  PROVE  [Ledger!Next]_(Ledger!vars)
<1>1. ASSUME NEW c \in Credentials, NEW state \in {"active", "retired"}, UpdateCredential(c, state)
      PROVE  Ledger!Step
  <2>1. Ledger!Update(c, state)
    BY <1>1 DEF UpdateCredential, answers, Ledger!Update
  <2> QED
    BY <2>1 DEF Ledger!Step
<1>2. ASSUME NEW q \in Requests, ClaimExhausted(q)
      PROVE  UNCHANGED Ledger!vars
  BY <1>2, ExhaustedIsStored DEF AnswersInv, ClaimExhausted, answers, Ledger!vars
<1>3. \/ UNCHANGED Ledger!vars
      \/ \E c \in Credentials, state \in {"active", "retired"} : UpdateCredential(c, state)
      \/ \E q \in Requests :
           \/ RegisterCommit(q) \/ CancelCommit(q) \/ ClaimExpires(q)
           \/ ClaimReplay(q) \/ ClaimExhausted(q) \/ ClaimCommit(q)
  BY DEF Ledger!vars, Next, Step, vars, tables, answers, Tick, Issue, Abort, Refuse,
     RegisterConflict, RegisterReplay, RegisterNotFound, RegisterPin, RegisterCollision,
     BindingNotFound, LockRow, CancelNoEffect, ClaimRefused,
     AttemptConflict, AttemptUnknown, InsertRefused
<1> QED
  BY <1>1, <1>2, <1>3, RegisterRefines, CancelRefines, ClaimRefines DEF Ledger!Next

\* The row locks, advisory locks and unique constraints of PostgreSQL make
\* each operation atomic: the backend of postgres_resolution.go implements the
\* one-step ledger of backend_resolution.go.
THEOREM LedgerRefinement == Spec => ImplementsLedger
<1>1. Init => Ledger!Init
  BY DEF Init, Ledger!Init, EmptyTable, Ledger!EmptyTable
<1>2. AnswersInv /\ [Next]_vars => [Ledger!Next]_(Ledger!vars)
  BY LedgerStep
<1> QED
  BY <1>1, <1>2, AnswersInductive, PTL DEF Spec, ImplementsLedger, Ledger!Spec

=============================================================================
