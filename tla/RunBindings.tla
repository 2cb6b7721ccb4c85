---------------------------- MODULE RunBindings ----------------------------
(***************************************************************************)
(* Run bindings in PostgreSQL: credential/postgres_resolution.go driven by *)
(* credential/resolution.go, several requests at a time.                   *)
(*                                                                         *)
(* A request reads the clock in the Manager (Issue) and only then opens    *)
(* its transaction, so the time it uses may be old when it gets its locks. *)
(* Inside the transaction the steps other transactions can observe or      *)
(* disturb are separate actions:                                           *)
(*   - LockRow: SELECT ... FOR UPDATE on the binding, whose content is     *)
(*     kept in seen[q]; the row stays locked until the request finishes;   *)
(*   - RegisterPin: the advisory lock on the key and the FOR SHARE lock on *)
(*     the credential, whose version is kept in pinned[q];                 *)
(*   - the attempt lookup and the INSERT into resolution_attempts, which   *)
(*     the row lock does not protect against claims of another run;        *)
(*   - the commit, together with the writes and the audit appends.         *)
(* Any open transaction may fail instead (Abort): a storage error, a full  *)
(* audit spool, a decryption or injector error, a canceled context or a    *)
(* crash of the process all roll it back.                                  *)
(***************************************************************************)
EXTENDS Binding

CONSTANTS
  Requests,    \* request slots: how many requests are in flight at once
  Horizon,     \* bound: the last instant of the clock
  MaxVersion   \* bound: the last version of a credential

ASSUME BoundAssumption == Horizon \in Nat /\ MaxVersion \in Nat \ {0}

VARIABLES
  clock,        \* the wall clock m.now() reads
  credentials,  \* table credentials: identifier -> [version, state]
  bindings,     \* table run_bindings: run -> BindingRow
  attempts,     \* table resolution_attempts: attempt -> AttemptRow
  requests,     \* requests in flight: slot -> [phase, op, now]
  seen,         \* rows held FOR UPDATE: slot -> the row as it was read
  pinned,       \* credentials held FOR SHARE: slot -> the version read
  granted,      \* the plaintext answers given so far
  acked,        \* registrations answered with success
  events        \* state-transition events in the audit spool, per run

tables == <<credentials, bindings, attempts>>
answers == <<granted, acked>>
locks == <<seen, pinned>>
vars == <<clock, credentials, bindings, attempts, requests, seen, pinned,
          granted, acked, events>>

Operations == Registrations \cup Cancels \cup Claims
Phases == {"issued", "locked", "inserting"}
EventKinds == {"registered", "resolved", "canceled", "expired", "exhausted"}
NoEvents == [k \in EventKinds |-> 0]

Init ==
  /\ clock = 0
  /\ credentials = [c \in Credentials |-> [version |-> 1, state |-> "active"]]
  /\ bindings = EmptyTable
  /\ attempts = EmptyTable
  /\ requests = EmptyTable
  /\ seen = EmptyTable
  /\ pinned = EmptyTable
  /\ granted = {}
  /\ acked = {}
  /\ events = [run \in Runs |-> NoEvents]

-----------------------------------------------------------------------------
(* Helpers.                                                                *)

InFlight(q, kind, phase) ==
  /\ q \in DOMAIN requests
  /\ requests[q].op.kind = kind
  /\ requests[q].phase = phase

Op(q) == requests[q].op
Now(q) == requests[q].now

\* Mutant: a path that forgets Rollback and keeps its row lock.
FinishKeepingRow(q) ==
  /\ requests' = Without(requests, q)
  /\ seen' = seen
  /\ pinned' = Without(pinned, q)

\* Commit or roll back: the answer is sent and every lock released.
Finish(q) ==
  /\ requests' = Without(requests, q)
  /\ seen' = Without(seen, q)
  /\ pinned' = Without(pinned, q)

\* An early return: nothing is written, the deferred Rollback ends the
\* transaction.
Refuse(q) == Finish(q) /\ UNCHANGED <<clock, tables, answers, events>>

Advance(q, phase) == requests' = [requests EXCEPT ![q].phase = phase]

\* appendAudit / appendSuccessfulTransition, in the same transaction.
Audit(run, kind) == events' = [events EXCEPT ![run][kind] = @ + 1]

\* Mutant: SELECT without FOR UPDATE.
RowUnlocked(q, run) == TRUE

\* SELECT ... FOR UPDATE waits until no other transaction holds the row.
RowFree(q, run) == \A p \in DOMAIN seen \ {q} : Op(p).run # run

\* pg_advisory_xact_lock on the idempotency key.
KeyFree(q, key) == \A p \in DOMAIN pinned \ {q} : Op(p).key # key

\* Mutant: the credential is read without FOR SHARE.
CredentialUnlocked(c) == TRUE

\* UPDATE credentials waits for the FOR SHARE locks of registrations.
CredentialFree(c) == \A p \in DOMAIN pinned : Op(p).credential # c

\* The row that used this idempotency key, if any.
SameKey(r) == {run \in DOMAIN bindings : bindings[run].request.key = r.key}

-----------------------------------------------------------------------------
(* The environment: time, and the credential API.                          *)

Tick ==
  /\ clock < Horizon
  /\ clock' = clock + 1
  /\ UNCHANGED <<tables, requests, locks, answers, events>>

UpdateCredential(c, state) ==
  /\ CredentialFree(c)
  /\ credentials[c].state = "active"
  /\ credentials[c].version < MaxVersion
  /\ credentials' = [credentials EXCEPT ![c] = [version |-> @.version + 1, state |-> state]]
  /\ UNCHANGED <<clock, bindings, attempts, requests, locks, answers, events>>

\* Manager.RegisterBinding, CancelBinding and Resolve up to the backend call.
Issue(q, op) ==
  /\ q \notin DOMAIN requests
  /\ op.kind = "register" => ValidBindingRequest(op, clock)
  /\ requests' = With(requests, q, [phase |-> "issued", op |-> op, now |-> clock])
  /\ UNCHANGED <<clock, tables, locks, answers, events>>

\* The transaction fails before its commit and is rolled back.
Abort(q) ==
  /\ q \in DOMAIN requests
  /\ Refuse(q)

-----------------------------------------------------------------------------
(* RegisterBinding.                                                        *)

\* The key was used by another request: ErrBindingConflict.
RegisterConflict(q) ==
  /\ InFlight(q, "register", "issued")
  /\ KeyFree(q, Op(q).key)
  /\ \E run \in SameKey(Op(q)) : bindings[run].request # Op(q)
  /\ Refuse(q)

\* The same request again: the stored binding, and no new transition.
RegisterReplay(q) ==
  /\ InFlight(q, "register", "issued")
  /\ KeyFree(q, Op(q).key)
  /\ \E run \in SameKey(Op(q)) : bindings[run].request = Op(q)
  /\ acked' = acked \cup {Op(q)}
  /\ Finish(q)
  /\ UNCHANGED <<clock, tables, granted, events>>

\* The credential is not active: ErrNotFound.
RegisterNotFound(q) ==
  /\ InFlight(q, "register", "issued")
  /\ KeyFree(q, Op(q).key)
  /\ SameKey(Op(q)) = {}
  /\ credentials[Op(q).credential].state # "active"
  /\ Refuse(q)

RegisterPin(q) ==
  /\ InFlight(q, "register", "issued")
  /\ KeyFree(q, Op(q).key)
  /\ SameKey(Op(q)) = {}
  /\ credentials[Op(q).credential].state = "active"
  /\ pinned' = With(pinned, q, credentials[Op(q).credential].version)
  /\ Advance(q, "inserting")
  /\ UNCHANGED <<clock, tables, seen, answers, events>>

\* The INSERT meets a unique constraint: ErrBindingConflict.
RegisterCollision(q) ==
  /\ InFlight(q, "register", "inserting")
  /\ Collides(bindings, Op(q))
  /\ Refuse(q)

RegisterCommit(q) ==
  /\ InFlight(q, "register", "inserting")
  /\ ~Collides(bindings, Op(q))
  /\ bindings' = With(bindings, Op(q).run, NewBinding(Op(q), pinned[q], Now(q)))
  /\ acked' = acked \cup {Op(q)}
  /\ Audit(Op(q).run, "registered")
  /\ Finish(q)
  /\ UNCHANGED <<clock, credentials, attempts, granted>>

-----------------------------------------------------------------------------
(* The row lock shared by CancelBinding and ClaimResolution.               *)

BindingNotFound(q) ==
  /\ InFlight(q, "cancel", "issued") \/ InFlight(q, "claim", "issued")
  /\ Op(q).run \notin DOMAIN bindings
  /\ Refuse(q)

LockRow(q) ==
  /\ InFlight(q, "cancel", "issued") \/ InFlight(q, "claim", "issued")
  /\ Op(q).run \in DOMAIN bindings
  /\ RowFree(q, Op(q).run)
  /\ seen' = With(seen, q, bindings[Op(q).run])
  /\ Advance(q, "locked")
  /\ UNCHANGED <<clock, tables, pinned, answers, events>>

\* CHECK (updated_at >= created_at): a request older than the row is refused.
ClockBehindRow(q) == Now(q) < seen[q].createdAt

-----------------------------------------------------------------------------
(* CancelBinding.                                                          *)

\* Wrong dispatch, a row already terminal, or the CHECK constraint.
CancelNoEffect(q) ==
  /\ InFlight(q, "cancel", "locked")
  /\ \/ seen[q].request.dispatch # Op(q).dispatch
     \/ seen[q].state \in Terminal
     \/ ClockBehindRow(q)
  /\ Refuse(q)

CancelCommit(q) ==
  /\ InFlight(q, "cancel", "locked")
  /\ seen[q].request.dispatch = Op(q).dispatch
  /\ seen[q].state \notin Terminal
  /\ ~ClockBehindRow(q)
  /\ bindings' = [bindings EXCEPT ![Op(q).run].state = "canceled"]
  /\ Audit(Op(q).run, "canceled")
  /\ Finish(q)
  /\ UNCHANGED <<clock, credentials, attempts, answers>>

-----------------------------------------------------------------------------
(* ClaimResolution.                                                        *)

\* Another executor, a revoked binding, too early, or past the end of an
\* exhausted binding: the transaction ends without a write.
ClaimRefused(q) ==
  /\ InFlight(q, "claim", "locked")
  /\ \/ ~Presentable(seen[q], Op(q))
     \/ Now(q) < seen[q].request.notBefore
     \/ Now(q) >= seen[q].request.expiresAt /\ seen[q].state = "exhausted"
  /\ Refuse(q)

\* The first claim past the end of the window stores the expiry.
ClaimExpires(q) ==
  /\ InFlight(q, "claim", "locked")
  /\ Presentable(seen[q], Op(q))
  /\ Now(q) >= seen[q].request.expiresAt
  /\ seen[q].state # "exhausted"
  /\ bindings' = [bindings EXCEPT ![Op(q).run].state = "expired"]
  /\ Audit(Op(q).run, "expired")
  /\ Finish(q)
  /\ UNCHANGED <<clock, credentials, attempts, answers>>

\* The snapshot allows a claim; validate has decrypted and rendered.
Validated(q) ==
  /\ InFlight(q, "claim", "locked")
  /\ Presentable(seen[q], Op(q))
  /\ InWindow(seen[q], Now(q))

ClaimReplay(q) ==
  /\ Validated(q)
  /\ Op(q).attempt \in DOMAIN attempts
  /\ Replayable(attempts[Op(q).attempt], Op(q), Now(q))
  /\ granted' = granted \cup
       {Grant(seen[q], Op(q), Now(q), attempts[Op(q).attempt].expiresAt)}
  /\ Finish(q)
  /\ UNCHANGED <<clock, tables, acked, events>>

AttemptConflict(q) ==
  /\ Validated(q)
  /\ Op(q).attempt \in DOMAIN attempts
  /\ ~Replayable(attempts[Op(q).attempt], Op(q), Now(q))
  /\ Refuse(q)

\* The limit is reached; a row not yet marked exhausted is marked.
ClaimExhausted(q) ==
  /\ Validated(q)
  /\ Op(q).attempt \notin DOMAIN attempts
  /\ AtLimit(seen[q])
  /\ bindings' = [bindings EXCEPT ![Op(q).run].state = "exhausted"]
  /\ IF seen[q].state = "exhausted"
     THEN UNCHANGED events
     ELSE Audit(Op(q).run, "exhausted")
  /\ Finish(q)
  /\ UNCHANGED <<clock, credentials, attempts, answers>>

AttemptUnknown(q) ==
  /\ Validated(q)
  /\ Op(q).attempt \notin DOMAIN attempts
  /\ ~AtLimit(seen[q])
  /\ Advance(q, "inserting")
  /\ UNCHANGED <<clock, tables, locks, answers, events>>

\* A claim of another run has stored the same attempt meanwhile, or the
\* CHECK constraint refuses the older time.
InsertRefused(q) ==
  /\ InFlight(q, "claim", "inserting")
  /\ Op(q).attempt \in DOMAIN attempts \/ ClockBehindRow(q)
  /\ Refuse(q)

ClaimCommit(q) ==
  /\ InFlight(q, "claim", "inserting")
  /\ Op(q).attempt \notin DOMAIN attempts
  /\ ~ClockBehindRow(q)
  /\ LET row == NewAttempt(seen[q], Op(q), Now(q)) IN
     /\ attempts' = With(attempts, Op(q).attempt, row)
     /\ granted' = granted \cup {Grant(seen[q], Op(q), Now(q), row.expiresAt)}
  /\ bindings' = [bindings EXCEPT ![Op(q).run] = AfterClaim(seen[q])]
  /\ Audit(Op(q).run, "resolved")
  /\ Finish(q)
  /\ UNCHANGED <<clock, credentials, acked>>

-----------------------------------------------------------------------------
\* One step of an open transaction, its failure excepted.
Step(q) ==
  \/ RegisterConflict(q) \/ RegisterReplay(q) \/ RegisterNotFound(q)
  \/ RegisterPin(q) \/ RegisterCollision(q) \/ RegisterCommit(q)
  \/ BindingNotFound(q) \/ LockRow(q)
  \/ CancelNoEffect(q) \/ CancelCommit(q)
  \/ ClaimRefused(q) \/ ClaimExpires(q) \/ ClaimReplay(q)
  \/ AttemptConflict(q) \/ ClaimExhausted(q) \/ AttemptUnknown(q)
  \/ InsertRefused(q) \/ ClaimCommit(q)

Next ==
  \/ Tick
  \/ \E c \in Credentials, state \in {"active", "retired"} : UpdateCredential(c, state)
  \/ \E q \in Requests :
       \/ \E op \in Operations : Issue(q, op)
       \/ Abort(q)
       \/ Step(q)

Spec == Init /\ [][Next]_vars

-----------------------------------------------------------------------------
(* Properties.                                                             *)

Request == [phase : Phases, op : Operations, now : Nat]

TablesOK ==
  /\ clock \in Nat
  /\ credentials \in [Credentials -> CredentialRow]
  /\ DOMAIN bindings \subseteq Runs
  /\ \A run \in DOMAIN bindings : bindings[run] \in BindingRow
  /\ DOMAIN attempts \subseteq Attempts
  /\ \A a \in DOMAIN attempts : attempts[a] \in AttemptRow

FlightOK ==
  /\ DOMAIN requests \subseteq Requests
  /\ \A q \in DOMAIN requests : requests[q] \in Request
  /\ DOMAIN seen \subseteq DOMAIN requests
  /\ \A q \in DOMAIN seen : seen[q] \in BindingRow
  /\ DOMAIN pinned \subseteq DOMAIN requests
  /\ \A q \in DOMAIN pinned : pinned[q] \in Nat

HistoryOK ==
  /\ granted \subseteq GrantRecord
  /\ acked \subseteq Registrations
  /\ events \in [Runs -> [EventKinds -> Nat]]

\* Type invariant: the tables, the requests in flight with the locks they hold
\* and the answers given (postgres_resolution.go's rows and transactions).
TypeOK == TablesOK /\ FlightOK /\ HistoryOK

AttemptsOf(run) == {a \in DOMAIN attempts : attempts[a].run = run}

\* Concurrent claims never lose an update of resolution_count: it is the
\* number of attempts stored for the run, it never exceeds max_resolutions,
\* and a binding at its limit is exhausted (ClaimResolution's row lock).
BudgetExact ==
  \A run \in DOMAIN bindings :
    /\ bindings[run].count = Cardinality(AttemptsOf(run))
    /\ bindings[run].count <= bindings[run].request.max
    /\ bindings[run].state = "exhausted" <=> bindings[run].count = bindings[run].request.max

\* Every plaintext answer went to the bound executor, from the version
\* snapshotted at registration, for a claim timed inside the window, and
\* rests on an attempt stored for that run (ClaimResolution, Resolve).
GrantsHonourBinding ==
  \A g \in granted :
    /\ g.claim.run \in DOMAIN bindings
    /\ LET b == bindings[g.claim.run] IN
       /\ g.claim.executor = b.request.executor
       /\ g.version = b.version
       /\ InWindow(b, g.now)
       /\ g.now < g.until /\ g.until <= b.request.expiresAt
    /\ g.claim.attempt \in AttemptsOf(g.claim.run)

\* An attempt identifier names one resolution: all the answers given under it
\* are for the same request, version and expiry, also when claims of two runs
\* present it at once (the primary key of resolution_attempts).
AttemptAnswersAgree ==
  \A g, h \in granted :
    g.claim.attempt = h.claim.attempt =>
      g.claim = h.claim /\ g.version = h.version /\ g.until = h.until

\* A registration answered with success, by its commit or by a replay of its
\* key, is stored as it was asked and stays so (RegisterBinding, the trigger
\* prevent_run_binding_identity_change).
AcknowledgedRegistrationsStand ==
  \A r \in acked :
    /\ r.run \in DOMAIN bindings
    /\ bindings[r.run].request = r

\* The audit spool and the tables agree after every commit: one registered
\* event per binding, one resolved event per counted resolution, and a
\* canceled or expired event exactly when that state is stored
\* (appendSuccessfulTransition in the transaction of the change).
AuditMatchesState ==
  \A run \in Runs :
    LET stored == run \in DOMAIN bindings
        b == bindings[run]
    IN /\ events[run]["registered"] = IF stored THEN 1 ELSE 0
       /\ events[run]["resolved"] = IF stored THEN b.count ELSE 0
       /\ events[run]["canceled"] = IF stored /\ b.state = "canceled" THEN 1 ELSE 0
       /\ events[run]["expired"] = IF stored /\ b.state = "expired" THEN 1 ELSE 0

\* No step moves a binding out of a terminal state, lowers its count or
\* rewrites its identity: the updates the code sends never meet the trigger
\* of migrations/002_run_bindings.sql.
TerminalIsFinal ==
  [][\A run \in DOMAIN bindings :
       /\ run \in DOMAIN bindings'
       /\ bindings'[run].request = bindings[run].request
       /\ bindings'[run].version = bindings[run].version
       /\ bindings'[run].count >= bindings[run].count
       /\ bindings[run].state \in Terminal => bindings'[run].state = bindings[run].state]_vars

\* Once a cancellation or an expiry is committed no claim, however early it
\* read the clock, obtains plaintext (ClaimResolution re-reads under lock).
RevocationWins ==
  [][\A g \in granted' \ granted :
       bindings[g.claim.run].state \notin {"canceled", "expired"}]_vars

\* At the commit of a registration the snapshotted version is the current
\* version of an active credential: an update or a retirement cannot slip
\* between the snapshot and the commit (SELECT ... FOR SHARE).
SnapshotIsCurrent ==
  [][\A run \in DOMAIN bindings' \ DOMAIN bindings :
       LET b == bindings'[run]
           c == credentials[b.request.credential]
       IN c.state = "active" /\ b.version = c.version]_vars

\* The row locks, advisory locks and unique constraints make each operation
\* atomic: RunBindings implements the one-step ledger.
Ledger == INSTANCE BindingLedger

ImplementsLedger == Ledger!Spec

-----------------------------------------------------------------------------
(* What the documentation says and the code does not do.                   *)

\* docs/service-api.md, "the service atomically verifies: ... current time is
\* within its validity window", at the commit of the claim.
GrantWithinRealWindow ==
  [][\A g \in granted' \ granted : InWindow(bindings[g.claim.run], clock)]_vars

=============================================================================
