------------------------- MODULE RunBindingsProofs -------------------------
(***************************************************************************)
(* Theorems about RunBindings, for any number of requests, runs, attempts  *)
(* and credentials, any policy and an unbounded clock.                     *)
(*                                                                         *)
(* Neither TypeOK nor BudgetExact is inductive.  A transaction acts on     *)
(* what it read under lock, so both need that every request past its lock  *)
(* has one (LocksMatch); BudgetExact also needs that what it read is still *)
(* what the table holds (RowsHeld), because no two requests hold a row     *)
(* (RowsExclusive).  The action properties RevocationWins and              *)
(* TerminalIsFinal follow from the same invariant, because a claim that    *)
(* goes on to insert has seen a live row (ClaimsAdmitted).                 *)
(***************************************************************************)
EXTENDS RunBindings, FiniteSetTheorems, TLAPS

-----------------------------------------------------------------------------
(* The inductive invariant.                                                *)

\* A request holds a binding row or a credential exactly in the phases after
\* the statement that locks it.
LocksMatch ==
  \A q \in DOMAIN requests :
    /\ q \in DOMAIN pinned <=>
         requests[q].op.kind = "register" /\ requests[q].phase = "inserting"
    /\ q \in DOMAIN seen <=>
         requests[q].op.kind # "register" /\ requests[q].phase # "issued"
    /\ requests[q].op.kind = "register" => requests[q].op.max # 0

TypeInv == TypeOK /\ LocksMatch

\* What a request read under its row lock is what the table holds.
RowsHeld ==
  \A q \in DOMAIN seen :
    /\ requests[q].op.run \in DOMAIN bindings
    /\ seen[q] = bindings[requests[q].op.run]

\* No two requests hold the same row.
RowsExclusive ==
  \A p, q \in DOMAIN seen : requests[p].op.run = requests[q].op.run => p = q

\* A claim about to insert its attempt has seen a live row below its limit.
Admitted(b) == ~AtLimit(b) /\ b.state \notin Terminal

ClaimsAdmitted ==
  \A q \in DOMAIN seen : requests[q].phase = "inserting" => Admitted(seen[q])

\* Attempts are finitely many and belong to stored bindings.
AttemptsStored ==
  /\ IsFiniteSet(DOMAIN attempts)
  /\ \A a \in DOMAIN attempts : attempts[a].run \in DOMAIN bindings

LocksInv == RowsHeld /\ RowsExclusive /\ ClaimsAdmitted

BudgetInv == TypeInv /\ LocksInv /\ AttemptsStored /\ BudgetExact

-----------------------------------------------------------------------------
(* Operations and tables.                                                  *)

\* The kind of an operation tells its request type; every one names a run.
LEMMA OperationKinds ==
  ASSUME NEW op \in Operations
  PROVE  /\ op.kind = "register" => op \in Registration /\ op \in Registrations
         /\ op.kind = "cancel" => op \in Cancel
         /\ op.kind = "claim" => op \in Claim
         /\ op.run \in Runs
         /\ op.kind \in {"register", "cancel", "claim"}
BY RequestAssumption DEF Operations, Registration, Cancel, Claim

\* Ending a transaction removes the request together with its locks.
LEMMA FinishFlight ==
  ASSUME FlightOK, LocksMatch, NEW q, Finish(q)
  PROVE  FlightOK' /\ LocksMatch'
BY DEF FlightOK, LocksMatch, Finish, Without

\* An early return keeps the types (the deferred Rollback).
LEMMA RefuseType ==
  ASSUME TypeInv, NEW q, Refuse(q)
  PROVE  TypeInv'
<1>1. FlightOK' /\ LocksMatch'
  BY FinishFlight DEF TypeInv, TypeOK, Refuse
<1>2. TablesOK' /\ HistoryOK'
  BY DEF TypeInv, TypeOK, Refuse, TablesOK, HistoryOK, tables, answers
<1> QED
  BY <1>1, <1>2 DEF TypeInv, TypeOK

\* What the phase of a request in flight says about its locks.
LEMMA InFlightFacts ==
  ASSUME TypeInv, NEW q, NEW kind, NEW phase, InFlight(q, kind, phase)
  PROVE  /\ q \in DOMAIN requests
         /\ Op(q) \in Operations
         /\ Op(q).kind = kind
         /\ Now(q) \in Nat
         /\ kind = "register" /\ phase = "inserting" => pinned[q] \in Nat /\ Op(q).max # 0
         /\ kind # "register" /\ phase # "issued" => q \in DOMAIN seen /\ seen[q] \in BindingRow
BY DEF TypeInv, TypeOK, FlightOK, LocksMatch, InFlight, Op, Now, Request

\* appendAudit keeps the event counts natural numbers.
LEMMA AuditType ==
  ASSUME events \in [Runs -> [EventKinds -> Nat]],
         NEW run \in Runs, NEW kind \in EventKinds, Audit(run, kind)
  PROVE  events' \in [Runs -> [EventKinds -> Nat]]
BY DEF Audit

-----------------------------------------------------------------------------
(* TypeInv is inductive: the actions that do not end with Refuse.          *)

\* Issue keeps TypeInv: validBindingRequest leaves max_resolutions nonzero.
LEMMA IssueType ==
  ASSUME TypeInv, NEW q \in Requests, NEW op \in Operations, Issue(q, op)
  PROVE  TypeInv'
<1>1. TablesOK' /\ HistoryOK'
  BY DEF TypeInv, TypeOK, Issue, TablesOK, HistoryOK, tables, answers
<1>2. [phase |-> "issued", op |-> op, now |-> clock] \in Request
  BY DEF TypeInv, TypeOK, TablesOK, Request, Phases
<1>3. FlightOK'
  BY <1>2 DEF TypeInv, TypeOK, Issue, FlightOK, locks, With
<1>4. op.kind = "register" => op.max # 0
  BY OperationKinds DEF Issue, ValidBindingRequest, Registration
<1>5. LocksMatch'
  BY <1>4 DEF TypeInv, TypeOK, Issue, FlightOK, LocksMatch, locks, With
<1> QED
  BY <1>1, <1>3, <1>5 DEF TypeInv, TypeOK

\* RegisterReplay keeps TypeInv.
LEMMA RegisterReplayType ==
  ASSUME TypeInv, NEW q \in Requests, RegisterReplay(q)
  PROVE  TypeInv'
<1>1. FlightOK' /\ LocksMatch'
  BY FinishFlight DEF TypeInv, TypeOK, RegisterReplay
<1>2. Op(q) \in Registrations
  BY InFlightFacts, OperationKinds DEF RegisterReplay
<1>3. TablesOK' /\ HistoryOK'
  BY <1>2 DEF TypeInv, TypeOK, RegisterReplay, TablesOK, HistoryOK, tables
<1> QED
  BY <1>1, <1>3 DEF TypeInv, TypeOK

\* RegisterPin keeps TypeInv: the version pinned is the one of a stored row.
LEMMA RegisterPinType ==
  ASSUME TypeInv, NEW q \in Requests, RegisterPin(q)
  PROVE  TypeInv'
<1>1. TablesOK' /\ HistoryOK'
  BY DEF TypeInv, TypeOK, RegisterPin, TablesOK, HistoryOK, tables, answers
<1>2. Op(q) \in Registration /\ q \in DOMAIN requests
  BY InFlightFacts, OperationKinds DEF RegisterPin
<1>3. credentials[Op(q).credential].version \in Nat
  BY <1>2 DEF TypeInv, TypeOK, TablesOK, CredentialRow, Registration
<1>4. FlightOK'
  BY <1>2, <1>3 DEF TypeInv, TypeOK, RegisterPin, FlightOK, Advance, With, Request, Phases
<1>5. LocksMatch'
  BY <1>2 DEF TypeInv, TypeOK, RegisterPin, InFlight, FlightOK, LocksMatch, Advance, With, Request
<1> QED
  BY <1>1, <1>4, <1>5 DEF TypeInv, TypeOK

\* RegisterCommit keeps TypeInv: the inserted row is a BindingRow.
LEMMA RegisterCommitType ==
  ASSUME TypeInv, NEW q \in Requests, RegisterCommit(q)
  PROVE  TypeInv'
<1>1. FlightOK' /\ LocksMatch'
  BY FinishFlight DEF TypeInv, TypeOK, RegisterCommit
<1>2. /\ Op(q) \in Registration /\ Op(q) \in Registrations /\ Op(q).run \in Runs
      /\ pinned[q] \in Nat /\ Now(q) \in Nat
  BY InFlightFacts, OperationKinds DEF RegisterCommit
<1>3. NewBinding(Op(q), pinned[q], Now(q)) \in BindingRow
  BY <1>2 DEF NewBinding, BindingRow, BindingStates
<1>4. TablesOK'
  BY <1>2, <1>3 DEF TypeInv, TypeOK, RegisterCommit, TablesOK, With
<1>5. HistoryOK'
  BY <1>2, AuditType DEF TypeInv, TypeOK, RegisterCommit, HistoryOK, EventKinds
<1> QED
  BY <1>1, <1>4, <1>5 DEF TypeInv, TypeOK

\* LockRow keeps TypeInv: the row read is a BindingRow.
LEMMA LockRowType ==
  ASSUME TypeInv, NEW q \in Requests, LockRow(q)
  PROVE  TypeInv'
<1>1. TablesOK' /\ HistoryOK'
  BY DEF TypeInv, TypeOK, LockRow, TablesOK, HistoryOK, tables, answers
<1>2. bindings[Op(q).run] \in BindingRow
  BY DEF TypeInv, TypeOK, TablesOK, LockRow
<1>3. FlightOK'
  BY <1>2 DEF TypeInv, TypeOK, LockRow, InFlight, FlightOK, Advance, With, Request, Phases
<1>4. LocksMatch'
  BY DEF TypeInv, TypeOK, LockRow, InFlight, FlightOK, LocksMatch, Advance, With, Request
<1> QED
  BY <1>1, <1>3, <1>4 DEF TypeInv, TypeOK

\* Cancel, expiry and exhaustion write the state of a locked row.
LEMMA StateType ==
  ASSUME TypeInv, NEW run, NEW state \in BindingStates,
         bindings' = [bindings EXCEPT ![run].state = state]
  PROVE  /\ DOMAIN bindings' = DOMAIN bindings
         /\ \A r \in DOMAIN bindings' : bindings'[r] \in BindingRow
BY DEF TypeInv, TypeOK, TablesOK, BindingRow

\* CancelCommit keeps TypeInv.
LEMMA CancelCommitType ==
  ASSUME TypeInv, NEW q \in Requests, CancelCommit(q)
  PROVE  TypeInv'
<1>1. FlightOK' /\ LocksMatch'
  BY FinishFlight DEF TypeInv, TypeOK, CancelCommit
<1>2. Op(q).run \in Runs
  BY InFlightFacts, OperationKinds DEF CancelCommit
<1>3. TablesOK'
  BY StateType DEF TypeInv, TypeOK, TablesOK, CancelCommit, BindingStates
<1>4. HistoryOK'
  BY <1>2, AuditType DEF TypeInv, TypeOK, CancelCommit, HistoryOK, EventKinds, answers
<1> QED
  BY <1>1, <1>3, <1>4 DEF TypeInv, TypeOK

\* ClaimExpires keeps TypeInv.
LEMMA ClaimExpiresType ==
  ASSUME TypeInv, NEW q \in Requests, ClaimExpires(q)
  PROVE  TypeInv'
<1>1. FlightOK' /\ LocksMatch'
  BY FinishFlight DEF TypeInv, TypeOK, ClaimExpires
<1>2. Op(q).run \in Runs
  BY InFlightFacts, OperationKinds DEF ClaimExpires
<1>3. TablesOK'
  BY StateType DEF TypeInv, TypeOK, TablesOK, ClaimExpires, BindingStates
<1>4. HistoryOK'
  BY <1>2, AuditType DEF TypeInv, TypeOK, ClaimExpires, HistoryOK, EventKinds, answers
<1> QED
  BY <1>1, <1>3, <1>4 DEF TypeInv, TypeOK

\* ClaimExhausted keeps TypeInv.
LEMMA ClaimExhaustedType ==
  ASSUME TypeInv, NEW q \in Requests, ClaimExhausted(q)
  PROVE  TypeInv'
<1>1. FlightOK' /\ LocksMatch'
  BY FinishFlight DEF TypeInv, TypeOK, ClaimExhausted
<1>2. Op(q).run \in Runs
  BY InFlightFacts, OperationKinds DEF ClaimExhausted, Validated
<1>3. TablesOK'
  BY StateType DEF TypeInv, TypeOK, TablesOK, ClaimExhausted, BindingStates
<1>4. HistoryOK'
  BY <1>2, AuditType DEF TypeInv, TypeOK, ClaimExhausted, HistoryOK, EventKinds, answers
<1> QED
  BY <1>1, <1>3, <1>4 DEF TypeInv, TypeOK

\* The answer to a claim is a GrantRecord.
LEMMA GrantType ==
  ASSUME NEW b \in BindingRow, NEW c \in Claim, NEW now \in Nat, NEW until \in Nat
  PROVE  Grant(b, c, now, until) \in GrantRecord
BY DEF Grant, GrantRecord, BindingRow

\* ClaimReplay keeps TypeInv.
LEMMA ClaimReplayType ==
  ASSUME TypeInv, NEW q \in Requests, ClaimReplay(q)
  PROVE  TypeInv'
<1>1. FlightOK' /\ LocksMatch'
  BY FinishFlight DEF TypeInv, TypeOK, ClaimReplay
<1>2. Op(q) \in Claim /\ Now(q) \in Nat /\ seen[q] \in BindingRow
  BY InFlightFacts, OperationKinds DEF ClaimReplay, Validated
<1>3. attempts[Op(q).attempt].expiresAt \in Nat
  BY DEF TypeInv, TypeOK, TablesOK, ClaimReplay, AttemptRow
<1>4. TablesOK' /\ HistoryOK'
  BY <1>2, <1>3, GrantType DEF TypeInv, TypeOK, ClaimReplay, TablesOK, HistoryOK, tables
<1> QED
  BY <1>1, <1>4 DEF TypeInv, TypeOK

\* AttemptUnknown keeps TypeInv.
LEMMA AttemptUnknownType ==
  ASSUME TypeInv, NEW q \in Requests, AttemptUnknown(q)
  PROVE  TypeInv'
<1>1. TablesOK' /\ HistoryOK'
  BY DEF TypeInv, TypeOK, AttemptUnknown, TablesOK, HistoryOK, tables, answers
<1>2. FlightOK'
  BY DEF TypeInv, TypeOK, AttemptUnknown, Validated, InFlight, FlightOK, Advance, Request, Phases, locks
<1>3. LocksMatch'
  BY DEF TypeInv, TypeOK, AttemptUnknown, Validated, InFlight, FlightOK, LocksMatch, Advance, Request, locks
<1> QED
  BY <1>1, <1>2, <1>3 DEF TypeInv, TypeOK

\* What AfterClaim changes in a row, and that the result is a BindingRow.
LEMMA AfterClaimType ==
  ASSUME NEW b \in BindingRow
  PROVE  /\ AfterClaim(b) \in BindingRow
         /\ AfterClaim(b).request = b.request
         /\ AfterClaim(b).count = b.count + 1
         /\ AfterClaim(b).state = "exhausted" <=> b.count + 1 = b.request.max
<1> DEFINE s == IF b.count + 1 = b.request.max THEN "exhausted" ELSE "active"
           c == [b EXCEPT !.count = b.count + 1]
<1>1. s \in BindingStates
  BY DEF BindingStates
<1>2. c \in BindingRow /\ c.request = b.request /\ c.count = b.count + 1
  BY DEF BindingRow
<1>3. AfterClaim(b) = [c EXCEPT !.state = s]
  BY Zenon DEF AfterClaim
<1> HIDE DEF s, c
<1>4. /\ [c EXCEPT !.state = s] \in BindingRow
      /\ [c EXCEPT !.state = s].request = c.request
      /\ [c EXCEPT !.state = s].count = c.count
      /\ [c EXCEPT !.state = s].state = s
  BY <1>1, <1>2 DEF BindingRow
<1>5. s = "exhausted" <=> b.count + 1 = b.request.max
  BY DEF s
<1> QED
  BY <1>2, <1>3, <1>4, <1>5

\* ClaimCommit keeps TypeInv: attempt, grant and row are well formed.
LEMMA ClaimCommitType ==
  ASSUME TypeInv, NEW q \in Requests, ClaimCommit(q)
  PROVE  TypeInv'
<1> DEFINE row == NewAttempt(seen[q], Op(q), Now(q))
<1>1. FlightOK' /\ LocksMatch'
  BY FinishFlight DEF TypeInv, TypeOK, ClaimCommit
<1>2. Op(q) \in Claim /\ Now(q) \in Nat /\ seen[q] \in BindingRow /\ Op(q).run \in Runs
  BY InFlightFacts, OperationKinds DEF ClaimCommit
<1>3. row \in AttemptRow
  BY <1>2, PolicyAssumption DEF NewAttempt, AttemptExpiry, AttemptRow, Claim, BindingRow, Registration
<1>4. AfterClaim(seen[q]) \in BindingRow
  BY <1>2, AfterClaimType
<1>5. TablesOK'
  BY <1>2, <1>3, <1>4 DEF TypeInv, TypeOK, TablesOK, ClaimCommit, With, Claim
<1>6. Grant(seen[q], Op(q), Now(q), row.expiresAt) \in GrantRecord
  BY <1>2, <1>3, GrantType DEF AttemptRow
<1>7. HistoryOK'
  BY <1>2, <1>6, AuditType DEF TypeInv, TypeOK, ClaimCommit, HistoryOK, EventKinds
<1> QED
  BY <1>1, <1>5, <1>7 DEF TypeInv, TypeOK

\* TypeInv is inductive.
LEMMA TypeStep ==
  ASSUME TypeInv, [Next]_vars
  PROVE  TypeInv'
<1>1. CASE Tick
  BY <1>1 DEF Tick, TypeInv, TypeOK, TablesOK, FlightOK, HistoryOK, LocksMatch, tables, locks, answers
<1>2. ASSUME NEW c \in Credentials, NEW state \in {"active", "retired"}, UpdateCredential(c, state)
      PROVE  TypeInv'
  <2>1. credentials' \in [Credentials -> CredentialRow]
    BY <1>2 DEF UpdateCredential, TypeInv, TypeOK, TablesOK, CredentialRow
  <2> QED
    BY <1>2, <2>1 DEF UpdateCredential, TypeInv, TypeOK, TablesOK, FlightOK, HistoryOK, LocksMatch, locks, answers
<1>3. ASSUME NEW q \in Requests, NEW op \in Operations, Issue(q, op)
      PROVE  TypeInv'
  BY <1>3, IssueType
<1>4. ASSUME NEW q \in Requests, Abort(q)
      PROVE  TypeInv'
  BY <1>4, RefuseType DEF Abort
<1>5. ASSUME NEW q \in Requests, Step(q)
      PROVE  TypeInv'
  <2>1. CASE \/ RegisterConflict(q) \/ RegisterNotFound(q) \/ RegisterCollision(q)
             \/ BindingNotFound(q) \/ CancelNoEffect(q) \/ ClaimRefused(q)
             \/ AttemptConflict(q) \/ InsertRefused(q)
    BY <2>1, RefuseType DEF RegisterConflict, RegisterNotFound, RegisterCollision,
       BindingNotFound, CancelNoEffect, ClaimRefused, AttemptConflict, InsertRefused
  <2>2. CASE RegisterReplay(q) \/ RegisterPin(q) \/ RegisterCommit(q)
    BY <2>2, RegisterReplayType, RegisterPinType, RegisterCommitType
  <2>3. CASE LockRow(q) \/ CancelCommit(q)
    BY <2>3, LockRowType, CancelCommitType
  <2>4. CASE ClaimExpires(q) \/ ClaimReplay(q) \/ ClaimExhausted(q)
    BY <2>4, ClaimExpiresType, ClaimReplayType, ClaimExhaustedType
  <2>5. CASE AttemptUnknown(q) \/ ClaimCommit(q)
    BY <2>5, AttemptUnknownType, ClaimCommitType
  <2> QED
    BY <1>5, <2>1, <2>2, <2>3, <2>4, <2>5 DEF Step
<1>6. CASE UNCHANGED vars
  BY <1>6 DEF vars, TypeInv, TypeOK, TablesOK, FlightOK, HistoryOK, LocksMatch
<1> QED
  BY <1>1, <1>2, <1>3, <1>4, <1>5, <1>6 DEF Next

\* TypeInv holds initially.
LEMMA TypeInit ==
  ASSUME Init
  PROVE  TypeInv
BY DEF Init, EmptyTable, TypeInv, TypeOK, TablesOK, FlightOK, HistoryOK, LocksMatch,
   CredentialRow, NoEvents

\* The tables, the requests and their locks, and the answers always have the
\* shape postgres_resolution.go relies on: in particular a transaction that
\* writes a row or inserts a binding holds the lock it read under.
THEOREM TypeCorrect == Spec => []TypeOK
<1>1. Init => TypeInv
  BY TypeInit
<1>2. TypeInv /\ [Next]_vars => TypeInv'
  BY TypeStep
<1>3. TypeInv => TypeOK
  BY DEF TypeInv
<1> QED
  BY <1>1, <1>2, <1>3, PTL DEF Spec

-----------------------------------------------------------------------------
(* BudgetInv is inductive.  First what a step does to the locks.           *)

\* Ending a transaction that wrote no row keeps what the others have read.
LEMMA FinishLocks ==
  ASSUME TypeInv, LocksInv, NEW q, Finish(q), UNCHANGED bindings
  PROVE  LocksInv'
BY DEF TypeInv, TypeOK, FlightOK, LocksInv, RowsHeld, RowsExclusive, ClaimsAdmitted,
   Finish, Without

\* A request that moves on within its transaction keeps the lock facts.
LEMMA AdvanceLocks ==
  ASSUME TypeInv, LocksInv, NEW q \in DOMAIN requests, NEW phase, Advance(q, phase),
         phase = "inserting" /\ q \in DOMAIN seen => Admitted(seen[q]),
         UNCHANGED <<bindings, seen>>
  PROVE  LocksInv'
<1>1. /\ DOMAIN requests' = DOMAIN requests
      /\ \A p \in DOMAIN requests : requests'[p].op = requests[p].op
      /\ \A p \in DOMAIN requests \ {q} : requests'[p] = requests[p]
      /\ requests'[q].phase = phase
  BY DEF TypeInv, TypeOK, FlightOK, Advance, Request
<1>2. DOMAIN seen \subseteq DOMAIN requests
  BY DEF TypeInv, TypeOK, FlightOK
<1>3. RowsHeld' /\ RowsExclusive'
  BY <1>1, <1>2 DEF LocksInv, RowsHeld, RowsExclusive
<1>4. ClaimsAdmitted'
  BY <1>1, <1>2 DEF LocksInv, ClaimsAdmitted
<1> QED
  BY <1>3, <1>4 DEF LocksInv

\* A write to the row a finishing request holds disturbs no other holder.
LEMMA WriteLocks ==
  ASSUME TypeInv, LocksInv, NEW q \in DOMAIN seen, Finish(q), NEW row,
         bindings' = [bindings EXCEPT ![Op(q).run] = row]
  PROVE  LocksInv'
<1>1. /\ DOMAIN seen' = DOMAIN seen \ {q}
      /\ \A p \in DOMAIN seen' : p \in DOMAIN requests /\ requests'[p] = requests[p] /\ seen'[p] = seen[p]
  BY DEF TypeInv, TypeOK, FlightOK, Finish, Without
<1>2. \A p \in DOMAIN seen' : requests[p].op.run # Op(q).run
  BY <1>1 DEF LocksInv, RowsExclusive, Op
<1>3. RowsHeld'
  BY <1>1, <1>2 DEF LocksInv, RowsHeld
<1>4. RowsExclusive' /\ ClaimsAdmitted'
  BY <1>1 DEF LocksInv, RowsExclusive, ClaimsAdmitted
<1> QED
  BY <1>3, <1>4 DEF LocksInv

\* A step that changes neither bindings nor attempts keeps the budget.
LEMMA SameTables ==
  ASSUME AttemptsStored, BudgetExact, UNCHANGED <<bindings, attempts>>
  PROVE  AttemptsStored' /\ BudgetExact'
BY DEF AttemptsStored, BudgetExact, AttemptsOf

\* A transaction that ends without a write keeps the budget.
LEMMA RefuseBudget ==
  ASSUME BudgetInv, NEW q, Finish(q), UNCHANGED <<bindings, attempts>>
  PROVE  LocksInv' /\ AttemptsStored' /\ BudgetExact'
BY FinishLocks, SameTables DEF BudgetInv

\* Issue keeps the budget: a new request holds no row.
LEMMA IssueBudget ==
  ASSUME BudgetInv, NEW q, NEW op, Issue(q, op)
  PROVE  LocksInv' /\ AttemptsStored' /\ BudgetExact'
<1>1. UNCHANGED <<bindings, attempts, seen>>
  BY DEF Issue, tables, locks
<1>2. \A p \in DOMAIN seen : requests'[p] = requests[p]
  BY DEF BudgetInv, TypeInv, TypeOK, FlightOK, Issue, With
<1>3. LocksInv'
  BY <1>1, <1>2 DEF BudgetInv, LocksInv, RowsHeld, RowsExclusive, ClaimsAdmitted
<1> QED
  BY <1>1, <1>3, SameTables DEF BudgetInv

\* LockRow keeps the budget: the row is free and is read as it is stored.
LEMMA LockRowBudget ==
  ASSUME BudgetInv, NEW q, LockRow(q)
  PROVE  LocksInv' /\ AttemptsStored' /\ BudgetExact'
<1>1. UNCHANGED <<bindings, attempts>>
  BY DEF LockRow, tables
<1>2. q \in DOMAIN requests /\ DOMAIN seen \subseteq DOMAIN requests
  BY DEF BudgetInv, TypeInv, TypeOK, FlightOK, LockRow, InFlight
<1>3. /\ DOMAIN requests' = DOMAIN requests
      /\ \A p \in DOMAIN requests : requests'[p].op = requests[p].op
      /\ \A p \in DOMAIN requests \ {q} : requests'[p] = requests[p]
      /\ requests'[q].phase = "locked"
  BY <1>2 DEF BudgetInv, TypeInv, TypeOK, FlightOK, LockRow, Advance, Request
<1>4. /\ DOMAIN seen' = DOMAIN seen \cup {q}
      /\ seen'[q] = bindings[requests[q].op.run]
      /\ \A p \in DOMAIN seen \ {q} : seen'[p] = seen[p]
  BY DEF LockRow, With, Op
<1>5. /\ requests[q].op.run \in DOMAIN bindings
      /\ \A p \in DOMAIN seen \ {q} : requests[p].op.run # requests[q].op.run
  BY DEF LockRow, RowFree, Op
<1>6. RowsHeld'
  BY <1>1, <1>2, <1>3, <1>4, <1>5 DEF BudgetInv, LocksInv, RowsHeld
<1>7. RowsExclusive'
  BY <1>2, <1>3, <1>4, <1>5 DEF BudgetInv, LocksInv, RowsExclusive
<1>8. ClaimsAdmitted'
  BY <1>2, <1>3, <1>4 DEF BudgetInv, LocksInv, ClaimsAdmitted
<1> QED
  BY <1>1, <1>6, <1>7, <1>8, SameTables DEF BudgetInv, LocksInv

\* RegisterPin keeps the budget.
LEMMA RegisterPinBudget ==
  ASSUME BudgetInv, NEW q, RegisterPin(q)
  PROVE  LocksInv' /\ AttemptsStored' /\ BudgetExact'
<1>1. q \in DOMAIN requests /\ q \notin DOMAIN seen
  BY DEF BudgetInv, TypeInv, LocksMatch, RegisterPin, InFlight
<1>2. UNCHANGED <<bindings, attempts, seen>> /\ Advance(q, "inserting")
  BY DEF RegisterPin, tables
<1> QED
  BY <1>1, <1>2, AdvanceLocks, SameTables DEF BudgetInv

\* AttemptUnknown keeps the budget and admits the claim.
LEMMA AttemptUnknownBudget ==
  ASSUME BudgetInv, NEW q, AttemptUnknown(q)
  PROVE  LocksInv' /\ AttemptsStored' /\ BudgetExact'
<1>1. q \in DOMAIN requests
  BY DEF AttemptUnknown, Validated, InFlight
<1>2. UNCHANGED <<bindings, attempts, seen>> /\ Advance(q, "inserting")
  BY DEF AttemptUnknown, tables, locks
<1>3. Admitted(seen[q])
  BY DEF AttemptUnknown, Validated, Presentable, AtLimit, Admitted, Terminal
<1> QED
  BY <1>1, <1>2, <1>3, AdvanceLocks, SameTables DEF BudgetInv

\* A new binding starts with no attempt, because attempts belong to bindings.
LEMMA RegisterCommitBudget ==
  ASSUME BudgetInv, NEW q, RegisterCommit(q)
  PROVE  LocksInv' /\ AttemptsStored' /\ BudgetExact'
<1> DEFINE run == Op(q).run
           row == NewBinding(Op(q), pinned[q], Now(q))
<1>1. /\ run \notin DOMAIN bindings
      /\ bindings' = With(bindings, run, row)
      /\ attempts' = attempts
      /\ Finish(q)
  BY DEF RegisterCommit, Collides
<1>2. /\ DOMAIN bindings' = DOMAIN bindings \cup {run}
      /\ bindings'[run] = row
      /\ \A r \in DOMAIN bindings : bindings'[r] = bindings[r]
  BY <1>1 DEF With
<1>3. /\ DOMAIN seen' = DOMAIN seen \ {q}
      /\ \A p \in DOMAIN seen' : p \in DOMAIN requests /\ requests'[p] = requests[p] /\ seen'[p] = seen[p]
  BY <1>1 DEF BudgetInv, TypeInv, TypeOK, FlightOK, Finish, Without
<1>4. RowsHeld'
  BY <1>2, <1>3 DEF BudgetInv, LocksInv, RowsHeld
<1>5. RowsExclusive' /\ ClaimsAdmitted'
  BY <1>3 DEF BudgetInv, LocksInv, RowsExclusive, ClaimsAdmitted
<1>6. AttemptsStored'
  BY <1>1, <1>2 DEF BudgetInv, AttemptsStored
<1>7. \A r : AttemptsOf(r)' = AttemptsOf(r)
  BY <1>1 DEF AttemptsOf
<1>8. AttemptsOf(run) = {}
  BY <1>1 DEF BudgetInv, AttemptsStored, AttemptsOf
<1>9. row.count = 0 /\ row.request = Op(q) /\ row.state # "exhausted"
  BY DEF NewBinding
<1>10. Op(q).max \in Nat \ {0}
  BY InFlightFacts, OperationKinds DEF BudgetInv, RegisterCommit, Registration
<1>11. Cardinality(AttemptsOf(run)) = 0
  BY <1>8, FS_EmptySet
<1> HIDE DEF run, row
<1>12. BudgetExact'
  <2> SUFFICES ASSUME NEW r \in DOMAIN bindings'
               PROVE  /\ bindings'[r].count = Cardinality(AttemptsOf(r)')
                      /\ bindings'[r].count <= bindings'[r].request.max
                      /\ bindings'[r].state = "exhausted" <=> bindings'[r].count = bindings'[r].request.max
    BY DEF BudgetExact
  <2>1. CASE r \in DOMAIN bindings
    BY <1>2, <1>7, <2>1 DEF BudgetInv, BudgetExact
  <2>2. CASE r = run
    BY <1>2, <1>7, <1>9, <1>10, <1>11, <2>2
  <2> QED
    BY <1>2, <2>1, <2>2
<1> QED
  BY <1>4, <1>5, <1>6, <1>12 DEF LocksInv

\* Writing a state keeps the budget if it stays exhausted exactly at the limit.
LEMMA StateBudget ==
  ASSUME BudgetInv, NEW q \in DOMAIN seen, Finish(q), NEW state \in BindingStates,
         bindings' = [bindings EXCEPT ![Op(q).run].state = state],
         UNCHANGED attempts,
         state = "exhausted" <=> seen[q].state = "exhausted"
  PROVE  LocksInv' /\ AttemptsStored' /\ BudgetExact'
<1>1. LocksInv'
  <2>1. bindings' = [bindings EXCEPT ![Op(q).run] = [bindings[Op(q).run] EXCEPT !.state = state]]
    OBVIOUS
  <2> QED
    BY <2>1, WriteLocks DEF BudgetInv
<1>2. Op(q).run \in DOMAIN bindings /\ seen[q] = bindings[Op(q).run]
  BY DEF BudgetInv, LocksInv, RowsHeld, Op
<1>3. \A r \in DOMAIN bindings : bindings[r] \in BindingRow
  BY DEF BudgetInv, TypeInv, TypeOK, TablesOK
<1>4. /\ DOMAIN bindings' = DOMAIN bindings
      /\ \A r \in DOMAIN bindings :
           /\ bindings'[r].count = bindings[r].count
           /\ bindings'[r].request = bindings[r].request
           /\ bindings'[r].state = "exhausted" <=> bindings[r].state = "exhausted"
  BY <1>2, <1>3 DEF BindingRow
<1>5. AttemptsStored'
  BY <1>4 DEF BudgetInv, AttemptsStored
<1>6. \A r : AttemptsOf(r)' = AttemptsOf(r)
  BY DEF AttemptsOf
<1>7. BudgetExact'
  BY <1>4, <1>6 DEF BudgetInv, BudgetExact
<1> QED
  BY <1>1, <1>5, <1>7

\* Cancel, expiry and exhaustion keep the budget: none of them writes the
\* state of a row at its limit (ClaimResolution, CancelBinding).
LEMMA StateWritesBudget ==
  ASSUME BudgetInv, NEW q, CancelCommit(q) \/ ClaimExpires(q) \/ ClaimExhausted(q)
  PROVE  LocksInv' /\ AttemptsStored' /\ BudgetExact'
<1>1. q \in DOMAIN seen /\ seen[q] \in BindingRow
  BY InFlightFacts DEF BudgetInv, CancelCommit, ClaimExpires, ClaimExhausted, Validated
<1>2. Op(q).run \in DOMAIN bindings /\ seen[q] = bindings[Op(q).run]
  BY <1>1 DEF BudgetInv, LocksInv, RowsHeld, Op
<1>3. CASE CancelCommit(q)
  BY <1>1, <1>3, StateBudget DEF CancelCommit, Terminal, BindingStates
<1>4. CASE ClaimExpires(q)
  BY <1>1, <1>4, StateBudget DEF ClaimExpires, BindingStates
<1>5. CASE ClaimExhausted(q)
  <2>1. seen[q].state = "exhausted"
    <3>1. /\ seen[q].count <= seen[q].request.max
          /\ seen[q].state = "exhausted" <=> seen[q].count = seen[q].request.max
      BY <1>2 DEF BudgetInv, BudgetExact
    <3>2. seen[q].count \in Nat /\ seen[q].request.max \in Nat
      BY <1>1 DEF BindingRow, Registration
    <3>3. seen[q].count >= seen[q].request.max \/ seen[q].state = "exhausted"
      BY <1>5 DEF ClaimExhausted, AtLimit
    <3> QED
      BY <3>1, <3>2, <3>3
  <2> QED
    BY <1>1, <1>5, <2>1, StateBudget DEF ClaimExhausted, BindingStates
<1> QED
  BY <1>3, <1>4, <1>5

\* The claim that counts: one more attempt, one more in the count, and the row
\* becomes exhausted exactly when the two meet the limit.
LEMMA ClaimCommitBudget ==
  ASSUME BudgetInv, NEW q, ClaimCommit(q)
  PROVE  LocksInv' /\ AttemptsStored' /\ BudgetExact'
<1>0. PICK run, a, row : /\ run = Op(q).run
                         /\ a = Op(q).attempt
                         /\ row = NewAttempt(seen[q], Op(q), Now(q))
  OBVIOUS
<1>1. q \in DOMAIN seen /\ seen[q] \in BindingRow
  BY InFlightFacts DEF BudgetInv, ClaimCommit
<1>2. /\ run \in DOMAIN bindings /\ seen[q] = bindings[run]
      /\ Admitted(seen[q])
  BY <1>0, <1>1 DEF BudgetInv, LocksInv, RowsHeld, ClaimsAdmitted, ClaimCommit, InFlight, Op
<1>3. /\ Finish(q)
      /\ bindings' = [bindings EXCEPT ![run] = AfterClaim(seen[q])]
      /\ a \notin DOMAIN attempts
      /\ attempts' = With(attempts, a, row)
  BY <1>0 DEF ClaimCommit
<1>4. LocksInv'
  BY <1>0, <1>1, <1>3, WriteLocks DEF BudgetInv
<1>5. /\ DOMAIN bindings' = DOMAIN bindings
      /\ bindings'[run] = AfterClaim(seen[q])
      /\ \A r \in DOMAIN bindings \ {run} : bindings'[r] = bindings[r]
  BY <1>2, <1>3
<1>6. row.run = run
  BY <1>0 DEF NewAttempt
<1>7. /\ DOMAIN attempts' = DOMAIN attempts \cup {a}
      /\ attempts'[a].run = run
      /\ \A x \in DOMAIN attempts : attempts'[x] = attempts[x]
  BY <1>3, <1>6 DEF With
<1>8. AttemptsStored'
  <2>1. IsFiniteSet(DOMAIN attempts')
    BY <1>7, FS_AddElement DEF BudgetInv, AttemptsStored
  <2> QED
    BY <1>2, <1>5, <1>7, <2>1 DEF BudgetInv, AttemptsStored
<1>9. /\ AttemptsOf(run)' = AttemptsOf(run) \cup {a}
      /\ \A r \in DOMAIN bindings \ {run} : AttemptsOf(r)' = AttemptsOf(r)
      /\ a \notin AttemptsOf(run)
  BY <1>3, <1>7 DEF AttemptsOf
<1>10. IsFiniteSet(AttemptsOf(run))
  BY FS_Subset DEF BudgetInv, AttemptsStored, AttemptsOf
<1>11. Cardinality(AttemptsOf(run)') = Cardinality(AttemptsOf(run)) + 1
  BY <1>9, <1>10, FS_AddElement
<1>12. /\ AfterClaim(seen[q]).request = seen[q].request
       /\ AfterClaim(seen[q]).count = seen[q].count + 1
       /\ AfterClaim(seen[q]).state = "exhausted" <=> seen[q].count + 1 = seen[q].request.max
  BY <1>1, AfterClaimType
<1>13. seen[q].count + 1 <= seen[q].request.max
  <2>1. seen[q].count \in Nat /\ seen[q].request.max \in Nat
    BY <1>1 DEF BindingRow, Registration
  <2> QED
    BY <1>2, <2>1 DEF Admitted, AtLimit
<1>14. BudgetExact'
  <2> SUFFICES ASSUME NEW r \in DOMAIN bindings'
               PROVE  /\ bindings'[r].count = Cardinality(AttemptsOf(r)')
                      /\ bindings'[r].count <= bindings'[r].request.max
                      /\ bindings'[r].state = "exhausted" <=> bindings'[r].count = bindings'[r].request.max
    BY DEF BudgetExact
  <2>1. CASE r = run
    <3>1. bindings[run].count = Cardinality(AttemptsOf(run))
      BY <1>2 DEF BudgetInv, BudgetExact
    <3> QED
      BY <1>2, <1>5, <1>11, <1>12, <1>13, <2>1, <3>1
  <2>2. CASE r # run
    BY <1>5, <1>9, <2>2 DEF BudgetInv, BudgetExact
  <2> QED
    BY <2>1, <2>2
<1> QED
  BY <1>4, <1>8, <1>14

\* BudgetInv is inductive.
LEMMA BudgetStep ==
  ASSUME BudgetInv, [Next]_vars
  PROVE  BudgetInv'
<1>1. TypeInv'
  BY TypeStep DEF BudgetInv
<1>2. LocksInv' /\ AttemptsStored' /\ BudgetExact'
  <2>1. CASE Tick \/ (\E c \in Credentials, state \in {"active", "retired"} : UpdateCredential(c, state))
             \/ UNCHANGED vars
    <3>1. UNCHANGED <<bindings, attempts, requests, seen>>
      BY <2>1 DEF Tick, UpdateCredential, tables, locks, vars
    <3>2. LocksInv'
      BY <3>1 DEF BudgetInv, LocksInv, RowsHeld, RowsExclusive, ClaimsAdmitted
    <3> QED
      BY <3>1, <3>2, SameTables DEF BudgetInv
  <2>2. ASSUME NEW q \in Requests, NEW op \in Operations, Issue(q, op)
        PROVE  LocksInv' /\ AttemptsStored' /\ BudgetExact'
    BY <2>2, IssueBudget
  <2>3. ASSUME NEW q \in Requests,
               \/ Abort(q)
               \/ RegisterConflict(q) \/ RegisterNotFound(q) \/ RegisterCollision(q)
               \/ BindingNotFound(q) \/ CancelNoEffect(q) \/ ClaimRefused(q)
               \/ AttemptConflict(q) \/ InsertRefused(q)
               \/ RegisterReplay(q) \/ ClaimReplay(q)
        PROVE  LocksInv' /\ AttemptsStored' /\ BudgetExact'
    <3>1. Finish(q) /\ UNCHANGED <<bindings, attempts>>
      BY <2>3 DEF Abort, Refuse, RegisterConflict, RegisterNotFound, RegisterCollision,
         BindingNotFound, CancelNoEffect, ClaimRefused, AttemptConflict, InsertRefused,
         RegisterReplay, ClaimReplay, tables
    <3> QED
      BY <3>1, RefuseBudget
  <2>4. ASSUME NEW q \in Requests, RegisterPin(q) \/ RegisterCommit(q) \/ LockRow(q)
        PROVE  LocksInv' /\ AttemptsStored' /\ BudgetExact'
    BY <2>4, RegisterPinBudget, RegisterCommitBudget, LockRowBudget
  <2>5. ASSUME NEW q \in Requests, CancelCommit(q) \/ ClaimExpires(q) \/ ClaimExhausted(q)
        PROVE  LocksInv' /\ AttemptsStored' /\ BudgetExact'
    BY <2>5, StateWritesBudget
  <2>6. ASSUME NEW q \in Requests, AttemptUnknown(q) \/ ClaimCommit(q)
        PROVE  LocksInv' /\ AttemptsStored' /\ BudgetExact'
    BY <2>6, AttemptUnknownBudget, ClaimCommitBudget
  <2> QED
    BY <2>1, <2>2, <2>3, <2>4, <2>5, <2>6 DEF Next, Step
<1> QED
  BY <1>1, <1>2 DEF BudgetInv

\* BudgetInv holds initially.
LEMMA BudgetInit ==
  ASSUME Init
  PROVE  BudgetInv
<1>1. DOMAIN attempts = {} /\ DOMAIN bindings = {} /\ DOMAIN seen = {}
  BY DEF Init, EmptyTable
<1>2. AttemptsStored
  BY <1>1, FS_EmptySet DEF AttemptsStored
<1>3. LocksInv /\ BudgetExact
  BY <1>1 DEF LocksInv, RowsHeld, RowsExclusive, ClaimsAdmitted, BudgetExact
<1> QED
  BY <1>2, <1>3, TypeInit DEF BudgetInv

\* Every reachable state satisfies the inductive invariant.
LEMMA BudgetInductive == Spec => []BudgetInv
<1>1. Init => BudgetInv
  BY BudgetInit
<1>2. BudgetInv /\ [Next]_vars => BudgetInv'
  BY BudgetStep
<1> QED
  BY <1>1, <1>2, PTL DEF Spec

\* However many claims of a run are in flight, resolution_count is the number
\* of attempts stored for it, never exceeds max_resolutions, and the binding
\* is exhausted exactly at the limit (ClaimResolution's row lock).
THEOREM BudgetCorrect == Spec => []BudgetExact
<1>1. BudgetInv => BudgetExact
  BY DEF BudgetInv
<1> QED
  BY <1>1, BudgetInductive, PTL

-----------------------------------------------------------------------------
(* Action properties, from the same invariant.                             *)

\* A step that answers with plaintext found the binding unrevoked: a replay
\* has read the row under lock, a new attempt was admitted under that lock.
LEMMA GrantsUnrevoked ==
  ASSUME BudgetInv, [Next]_vars, NEW g \in granted' \ granted
  PROVE  bindings[g.claim.run].state \notin {"canceled", "expired"}
<1>1. PICK q \in Requests : ClaimReplay(q) \/ ClaimCommit(q)
  BY DEF Next, Step, vars, answers, Tick, UpdateCredential, Issue, Abort, Refuse,
     RegisterConflict, RegisterReplay, RegisterNotFound, RegisterPin, RegisterCollision,
     RegisterCommit, BindingNotFound, LockRow, CancelNoEffect, CancelCommit,
     ClaimRefused, ClaimExpires, AttemptConflict, ClaimExhausted, AttemptUnknown,
     InsertRefused
<1>2. g.claim = Op(q)
  BY <1>1 DEF ClaimReplay, ClaimCommit, Grant
<1>3. q \in DOMAIN seen /\ seen[q] = bindings[Op(q).run]
  BY <1>1, InFlightFacts
     DEF BudgetInv, LocksInv, RowsHeld, ClaimReplay, ClaimCommit, Validated, Op
<1>4. CASE ClaimReplay(q)
  BY <1>2, <1>3, <1>4 DEF ClaimReplay, Validated, Presentable
<1>5. CASE ClaimCommit(q)
  BY <1>2, <1>3, <1>5
     DEF BudgetInv, LocksInv, ClaimsAdmitted, Admitted, Terminal, ClaimCommit, InFlight
<1> QED
  BY <1>1, <1>4, <1>5

\* Once a cancellation or an expiry is committed no claim obtains plaintext,
\* however early it read the clock or opened its transaction (ClaimResolution).
THEOREM RevocationCorrect == Spec => RevocationWins
<1>1. BudgetInv /\ [Next]_vars
        => [\A g \in granted' \ granted :
              bindings[g.claim.run].state \notin {"canceled", "expired"}]_vars
  BY GrantsUnrevoked
<1> QED
  BY <1>1, BudgetInductive, PTL DEF Spec, RevocationWins

\* A step leaves a stored row alone unless it inserts the row of another run or
\* writes the row that its own request holds.
LEMMA RowWriters ==
  ASSUME BudgetInv, [Next]_vars
  PROVE  \/ UNCHANGED bindings
         \/ \E q \in Requests :
              \/ RegisterCommit(q) \/ CancelCommit(q) \/ ClaimExpires(q)
              \/ ClaimExhausted(q) \/ ClaimCommit(q)
BY DEF Next, Step, vars, tables, Tick, UpdateCredential, Issue, Abort, Refuse,
   RegisterConflict, RegisterReplay, RegisterNotFound, RegisterPin, RegisterCollision,
   BindingNotFound, LockRow, CancelNoEffect, ClaimRefused, ClaimReplay,
   AttemptConflict, AttemptUnknown, InsertRefused

\* A step keeps every stored binding, its identity and a terminal state.
LEMMA RowsStand ==
  ASSUME BudgetInv, [Next]_vars, NEW run \in DOMAIN bindings
  PROVE  /\ run \in DOMAIN bindings'
         /\ bindings'[run].request = bindings[run].request
         /\ bindings'[run].version = bindings[run].version
         /\ bindings'[run].count >= bindings[run].count
         /\ bindings[run].state \in Terminal => bindings'[run].state = bindings[run].state
<1>1. bindings[run] \in BindingRow
  BY DEF BudgetInv, TypeInv, TypeOK, TablesOK
<1>2. bindings[run].count \in Nat
  BY <1>1 DEF BindingRow
<1>3. CASE bindings'[run] = bindings[run] /\ run \in DOMAIN bindings'
  BY <1>2, <1>3
<1>4. ASSUME NEW q \in Requests, RegisterCommit(q)
      PROVE  bindings'[run] = bindings[run] /\ run \in DOMAIN bindings'
  BY <1>4 DEF RegisterCommit, Collides, With
<1>5. ASSUME NEW q \in Requests,
             CancelCommit(q) \/ ClaimExpires(q) \/ ClaimExhausted(q) \/ ClaimCommit(q),
             bindings'[run] # bindings[run]
      PROVE  run = Op(q).run /\ q \in DOMAIN seen /\ seen[q] = bindings[run]
  <2>1. run = Op(q).run
    BY <1>5 DEF CancelCommit, ClaimExpires, ClaimExhausted, ClaimCommit
  <2>2. q \in DOMAIN seen
    BY <1>5, InFlightFacts
       DEF BudgetInv, CancelCommit, ClaimExpires, ClaimExhausted, ClaimCommit, Validated
  <2> QED
    BY <2>1, <2>2 DEF BudgetInv, LocksInv, RowsHeld, Op
<1>6. ASSUME NEW q \in Requests, CancelCommit(q) \/ ClaimExpires(q) \/ ClaimExhausted(q),
             bindings'[run] # bindings[run]
      PROVE  bindings[run].state \notin Terminal
  <2>1. seen[q] = bindings[run] /\ run = Op(q).run
    BY <1>5, <1>6
  <2>2. CASE CancelCommit(q)
    BY <2>1, <2>2 DEF CancelCommit
  <2>3. CASE ClaimExpires(q)
    BY <2>1, <2>3 DEF ClaimExpires, Presentable, Terminal
  <2>4. CASE ClaimExhausted(q)
    <3>1. seen[q].state \notin {"canceled", "expired"}
      BY <2>4 DEF ClaimExhausted, Validated, Presentable
    <3>2. bindings' = [bindings EXCEPT ![run].state = "exhausted"]
      BY <2>1, <2>4 DEF ClaimExhausted
    <3>3. bindings[run].state # "exhausted"
      BY <1>1, <1>6, <3>2 DEF BindingRow
    <3> QED
      BY <2>1, <3>1, <3>3 DEF Terminal
  <2> QED
    BY <1>6, <2>2, <2>3, <2>4
<1>7. ASSUME NEW q \in Requests, CancelCommit(q) \/ ClaimExpires(q) \/ ClaimExhausted(q)
      PROVE  /\ run \in DOMAIN bindings'
             /\ bindings'[run].request = bindings[run].request
             /\ bindings'[run].version = bindings[run].version
             /\ bindings'[run].count = bindings[run].count
  BY <1>1, <1>7 DEF CancelCommit, ClaimExpires, ClaimExhausted, BindingRow
<1>8. ASSUME NEW q \in Requests, ClaimCommit(q), bindings'[run] # bindings[run]
      PROVE  /\ run \in DOMAIN bindings'
             /\ bindings'[run].request = bindings[run].request
             /\ bindings'[run].version = bindings[run].version
             /\ bindings'[run].count = bindings[run].count + 1
             /\ bindings[run].state \notin Terminal
  <2>1. run = Op(q).run /\ q \in DOMAIN seen /\ seen[q] = bindings[run]
    BY <1>5, <1>8
  <2>2. bindings' = [bindings EXCEPT ![run] = AfterClaim(bindings[run])]
    BY <1>8, <2>1 DEF ClaimCommit
  <2>3. Admitted(bindings[run])
    BY <1>8, <2>1 DEF BudgetInv, LocksInv, ClaimsAdmitted, ClaimCommit, InFlight
  <2> QED
    BY <1>1, <2>2, <2>3 DEF AfterClaim, BindingRow, Admitted
<1>9. CASE UNCHANGED bindings
  BY <1>3, <1>9
<1>10. ASSUME NEW q \in Requests, ClaimCommit(q)
       PROVE  run \in DOMAIN bindings'
  BY <1>10 DEF ClaimCommit
<1> QED
  BY <1>2, <1>3, <1>4, <1>6, <1>7, <1>8, <1>9, <1>10, RowWriters

\* No step moves a binding out of a terminal state, lowers its count or
\* rewrites its identity: the trigger of 002_run_bindings.sql never fires.
THEOREM TerminalCorrect == Spec => TerminalIsFinal
<1>1. BudgetInv /\ [Next]_vars
        => [\A run \in DOMAIN bindings :
              /\ run \in DOMAIN bindings'
              /\ bindings'[run].request = bindings[run].request
              /\ bindings'[run].version = bindings[run].version
              /\ bindings'[run].count >= bindings[run].count
              /\ bindings[run].state \in Terminal => bindings'[run].state = bindings[run].state]_vars
  BY RowsStand
<1> QED
  BY <1>1, BudgetInductive, PTL DEF Spec, TerminalIsFinal

=============================================================================
