# Formal model of the Praetor secrets service

This directory holds TLA+ specifications of the secrets service, the TLC
configurations that check them on small instances, and TLAPS proofs of every
invariant, action property and refinement the passing runs check. `PROJECT.json`
lists components, runs, mutants, the map from definitions to source lines,
findings, hazards and theorems.

## 1. The system

The service stores credentials encrypted under envelope encryption and hands
plaintext to an executor only through a *run binding* that the scheduler
registered for it. PostgreSQL is the only shared state; every service process
(the chart allows several replicas, and a rolling update overlaps two
generations) talks to the same database. Every protected state change appends
to an audit spool in the same transaction; a worker in each process delivers
the spool to a remote, append-only sink.

| Component | State | Operations | What makes it correct |
|---|---|---|---|
| Run bindings (`credential/*resolution.go`) | `run_bindings`, `resolution_attempts` | register, cancel, resolve (claim, replay, expire, exhaust) | a binding is never overspent, revocation wins over a claim in flight, an attempt has one answer |
| Credential store (`credential/manager.go`, `postgres.go`) | `credentials`, `credential_versions`, `credential_idempotency` | create, replace, rename, retire | one credential per key, no lost update, immutable versions |
| Master-key rotation (`credential/*rotation.go`) | `master_key_rotations`, `credential_versions.master_key_id` | start, resume, finalize, rotate one version, key status | no version ever loses its key, progress is truthful, a resumed rotation ends |
| Backup evidence (`credential/*recovery.go`) | `backup_sets` | register, expire, validate recovery | a key a retained backup needs is not reported clear |
| Envelope (`envelope/envelope.go`) | none: a record is data of a version | encrypt, decrypt, rewrap, new data key | a record decrypts for its own context only, before and after any rotation |
| Key files (`masterkey/loader.go`) | the keys of one process | load at start | one current key, at most one previous |
| Audit spool (`audit/spool.go`) | `audit_spool`, `audit_chain_state` | append, read a batch, mark delivered, verify | one authenticated chain, bounded backlog |
| Audit delivery (`audit/delivery.go`) | the batch of a worker | verify, poll, deliver, mark | order, no loss, progress |
| Audit sink (`auditsink/store.go`) | `remote_audit_records` | append | an exact prefix of the chain, replays accepted, a clock set back only delays |
| Transport and recorder (`transport/`, `audit/recorder.go`) | the degraded flag | routes, authorization, completion events, security status | every change accounted for, a healthy status hides nothing |
| Migrations (`ApplyPostgresMigrations`, `ApplyMigration` twice) | `*_schema_migrations`, the schema | lock, check, execute, record | each migration runs once, whoever starts when |
| Service runtimes (`app/`, `auditsink/runtime.go`, `cmd/`) | listeners, goroutines, connection slots, exit status | build, serve, select, drain, exit | serves only on a migrated schema, drains, ends, and its exit status is true |

The components meet in the database: bindings pin a credential version while
the store changes it; rotation rewraps the versions the store inserts; every
transaction of the first three appends to the spool. What is hard is
concurrency between transactions (several per process, several processes),
state read before a lock and used after it, reads made of several statements,
retries of requests whose answer was lost, crashes between the sink's answer
and the mark, key files that differ between processes during a rollout, and the
goroutines of one process that end in any order while it drains.
`PROJECT.json` lists these under `hazards`, each at its line.

## 2. Modules

| Module | Models | Style |
|---|---|---|
| `Binding` | requests, rows and decisions shared by both backends | constants and operators |
| `BindingLedger` | `backend_resolution.go`: one mutex, one step per operation | abstract specification |
| `RunBindings` | `resolution.go` over `postgres_resolution.go` and `002_run_bindings.sql` | several requests in flight |
| `RunBindingsProofs`, `RunBindingsAnswersProofs` | theorems about `RunBindings`: tables and locks; answers, events and the refinement | TLAPS |
| `CredentialRegister` | append-only history of versions | abstract specification |
| `CredentialStore` | `manager.go` over `postgres.go` and `001_credentials.sql` | several requests in flight |
| `Envelope` | `envelope/envelope.go` over a symbolic AEAD | operators, used by `CredentialStore` and `KeyRotation` |
| `KeyRotation` | `rotation.go`, `postgres_rotation.go`, `postgres_recovery.go`, `003`/`004` SQL, `masterkey` | several processes |
| `EnvelopeProofs`, `CredentialStoreProofs`, `KeyRotationProofs` | theorems about the three before | TLAPS |
| `AuditSpool`, `AuditSink` | `audit/spool.go`; `auditsink/store.go` | components |
| `AuditDelivery` | `audit/delivery.go`, composing spool and sink | several workers, unreliable network |
| `AuditStream` | the promise of the pipeline: transactions of any number of events, replicated and acknowledged in order | abstract specification |
| `AuditDeliveryProofs` | theorems about `AuditDelivery` | TLAPS |
| `RequestAudit` | `transport/server.go`, `transport/rotation.go`, `audit/recorder.go` | several requests being served |
| `SchemaMigrations` | the migration runners of both services | several processes starting |
| `ServiceRuntime` | `app/runtime.go`, `auditsink/runtime.go`, both `main.go`; extends `SchemaMigrations` | goroutines and connections of one process |
| `RequestAuditProofs`, `ServiceRuntimeProofs` | theorems about the modules they extend | TLAPS |
| `MC*` | request mixes, key sets and symmetry of the runs | TLC instances |

How state and actions correspond to the code:

* **A table** is a function whose domain is the set of keys present. A *request
  in flight* is an entry of `requests` (or `task`) with the phase its goroutine
  has reached and what it has read so far.
* **Transactions.** PostgreSQL's statements are the atomic steps. Statements
  are joined into one action only where no other transaction can observe or
  change what lies between them. `FOR UPDATE`, `FOR SHARE` and advisory locks
  are guards that look at the other requests; unique indexes and CHECK
  constraints are guards that turn a write into an error; the audit append is
  part of the action that commits.
* **Failure.** `Abort` ends an open transaction at any point without a write: it
  stands for storage errors, a full spool, decryption and injector errors,
  canceled contexts and crashes, which all end in the deferred `Rollback`.
* **Time** is a natural number. A request reads it in `Issue`, before its
  transaction, as `m.now()` is read in `resolution.go`.
* **Digests and MACs** are the content they are computed from. An organization
  is folded into keys and identifiers, because a row of another organization is
  a row that is not found.

`RunBindings`: `RegisterPin` is the advisory lock, the lookup of the key and
the `FOR SHARE` read (`pinned`); `LockRow` is `FOR UPDATE` (`seen`); the
branches of `ClaimResolution` are `ClaimRefused`, `ClaimExpires`,
`ClaimReplay`, `AttemptConflict`, `ClaimExhausted`, `AttemptUnknown`, and after
the insert `InsertRefused` or `ClaimCommit`.

`CredentialStore`: `Prepare` is the read and the build of the next version
outside a transaction, `UpdateCommit` / `UpdateConflict` the
`UPDATE ... WHERE version = expected`. A version holds an `Envelope` record
whose context is the identifier and the version number; `NextRecords` is the
decryption of the record that was read and its encryption for the next version.

`Envelope`: a box opens with the key and the associated data it was sealed with
(`Seal`, `Open`, external). `Encrypt`, `Decrypt`, `Rewrap` and `RotateDataKey`
build and compare the associated data as the code does: both layers carry the
context, only the wrapping carries the master key. An operation returns the set
of its results, empty for an error.

`KeyRotation`: `StartCount` and `StartCommit`; `BatchSelect` (locks), then
`BatchCommit` or `BatchRefused`; `StatusCounts`, `StatusRotation` and
`StatusAnswer` are the three statements of `KeyStatus`. The last loop of
`KeyStatus` does not ask `rows.Err()`, so `ReferencesRead` is all the references
of a key or none of them; `missed` marks the backups that a clear answer left
out for that reason. `Dump` is a snapshot of
the table, `RegisterBackup` comes any time later, and again: an identifier that is
registered keeps its record. `Deploy` restarts
processes with the next key files, under the operator's rule of the
repository's README (finalized, and both fields reported clear).

`AuditSpool`: a transaction appends one event, two (a transition and its
completion), four (recovery validation) or one per row and two (a rotation
batch), holding the chain head from the first append to its end. `txRows` and
`txHead` are that open transaction: `AppendTx` adds to it, counting its own rows
against the limit, and `CommitTx` or `RollbackTx` ends it. Which events come from
which operation is the matter of `RequestAudit`.

`AuditDelivery`: `VerifyRows`/`VerifyHead` and
`PendingRows`/`PendingHead`/`PendingLast` are single statements; `Timeout`
leaves the request in `orphans`, from which it may reach the sink later. Of the
sink's clock only whether it is behind the head's `updated_at` is kept.

`SchemaMigrations`: a runner is a transaction with an advisory lock of its own;
the rows and objects of an open transaction (`work`) vanish when the startup
fails. The database starts with any gapless part of the migrations.

`ServiceRuntime`: one process, `self`, is followed beyond its startup. `main` is
where `Run` is; `routine` and `channel` are its goroutines and `errorsChannel`;
`accept`, `tokens` and `conn` are `limitListener` and its connections. The select
blocks when nothing is ready and chooses when several are. `service` picks the
secrets service (three goroutines, no `done` channel) or the sink. Of `net/http`
what `Shutdown` does is taken from its use and its documentation: it closes the
listener, waits until `Serve` has returned, and only then closes idle connections
and looks at its context.

`RequestAudit`: a request is received, answered once (`Unauthenticated`,
`Forbidden`, `Rejected`, or what the credential service did) and left through
the deferred function of `ServeHTTP` (`Skip`, `Record`, `RecordFails`). The
service is reduced to the events its transaction appends: `Changes` (transition
and completion), `ReplayWithCompletion`, `ReplayWithoutEvent`, `ClaimEnds` (a
transition without completion), `ServiceFails` (nothing). A replay needs an
earlier request that it repeats. A commit may be reported as an error although
it was carried out. `requestOperation` compares prefixes and last segments as
the code does, so a path without a handler may bear the name of an operation.

## 3. What the runs check

| Run | Instance | Properties | Result |
|---|---|---|---|
| `Bindings` | 2 runs, 2 requests in flight, registrations competing for key, dispatch and run, 4 claims, 1 cancel, 3 instants, credential updated and retired, a retry window longer than what is left of the binding | `TypeOK`, `BudgetExact`, `GrantsHonourBinding`, `AttemptAnswersAgree`, `AuditMatchesState`, `AcknowledgedRegistrationsStand`, `TerminalIsFinal`, `RevocationWins`, `SnapshotIsCurrent`, `ImplementsLedger` | holds |
| `BindingsStaleClock` | 1 run | `GrantWithinRealWindow` | violated |
| `Store` | 3 requests, 1 key with two contents, changes of versions 1 and 2 | `CreateOnce`, `ChangesNotLost`, `ImplementsRegister` | holds |
| `RotationKeys` | 2 processes, 2 versions, 1 dump, 2 rotations in turn, batches of 1, keys changed together | `RotationsExclude`, `ReadsAvailable`, `BackupsRestorable`, `NoSplice`, `ProgressTruthful` | holds |
| `RotationProgress` | 2 processes, 2 versions in batches of 1, 1 rotation, keys changed together or process by process, fairness | `TypeOK`, `ProgressMonotone`, `RotationCompletes` | holds |
| `RotationStuck` | rolling update | `ResumeContinues` | violated |
| `RotationMisread` | 1 process, 1 version, 1 dump, keys changed together | `RemovalGated` | violated |
| `AuditReplicas` | 2 workers, 4 events in transactions of 1 to 3, limit 3, batches of 2, 1 damaged row, sink clock set back once | `TypeOK`, `SinkIsPrefix`, `AcknowledgedPrefix`, `PendingBounded`, `ImplementsStream` | holds |
| `AuditProgress` | 1 worker, 3 events, sink clock set back once, fairness | `EveryEventDelivered` | holds |
| `AuditFalseAlarm` | 1 worker | `AlarmMeansDamage` | violated |
| `Requests` | 2 requests at once over 19 routes and 7 refusals, spool of 4 | `ChangesAccountable`, `HealthyMeansRecorded`, `NoDoubleCompletion` | holds |
| `Runtime` | either service; 2 processes, 3 or 1 migrations; 2 connections over 1 slot, fairness | `SlotsExact`, `ServesMigrated`, `MigrationsExclusive`, `ExitTruthful`, `StartupEnds`, `ShutdownEnds`, `SinkStopsInTime` | holds |

`TypeOK` of `CredentialStore`, `RequestAudit` and `ServiceRuntime` states the
domains of their variables; no run lists it, and their proofs establish it.

What they show:

* **Bindings.** `BudgetExact` is the absence of lost updates on
  `resolution_count`. `RevocationWins` says that a claim which read the clock,
  or opened its transaction, before a cancel or expiry still loses to it.
  `AttemptAnswersAgree` covers two runs that present one attempt id, which no
  row lock protects. `ImplementsLedger` is the strongest statement: every
  behaviour of the locking backend is a behaviour of the mutex backend.
* **Store.** `ChangesNotLost` and `ImplementsRegister` say that the optimistic
  read-prepare-write is a compare-and-swap on the whole content, and that what
  every version decrypts to, under its own context, is what was asked for.
* **Rotation.** `rollout` is chosen at the start. The table constraints and
  monotone progress hold for both ways of changing keys. That nothing ever becomes
  undecryptable, and that progress is truthful, is stated for processes that
  change keys together (`recreate`): a process not yet replaced in a rolling
  update still encrypts under the old key, also after finalization and after key
  status has reported it clear, and no code excludes that. `ReadsAvailable` and
  `BackupsRestorable` decrypt the records themselves, so they also check that
  `Rewrap` and `RotateDataKey` compose in any order. `BackupsRestorable` is for
  dumps registered before key status reported their keys clear and not left out of
  that answer: the registration of an older dump afterwards is not protected by
  anything, and `RemovalGated`, the same without the second exception, is violated
  (section 5). `NoSplice`
  mixes the fields of all stored and dumped records. `RotationCompletes` is for
  one rotation per window: a second one that is still active when the previous
  key file is removed cannot be resumed (`rotation.go:91` wants a previous key)
  and blocks new ones until the next window.
* **Audit.** Whatever is lost, late or repeated, the sink is a prefix of the
  committed chain, and the mark never runs ahead of the sink.
* **Runtime.** `MigrationsExclusive` and `ServesMigrated` hold through startups
  that are interrupted anywhere and overlap; `StartupEnds` excludes that they wait
  for each other. `SlotsExact` is the connection limit through failed accepts,
  hangups and drain. `ExitTruthful` says that a clean exit cut no request off and
  that a shutdown drained in time exits clean whatever its canceled goroutines
  returned. That an exit waits for transactions is what `pool.Close` is taken to
  do (`PoolIdle`) and not a property. `ShutdownEnds` is the
  absence of deadlock between `Run`, its goroutines and `errorsChannel`.
  `SinkStopsInTime` says that the sink's `Shutdown` returns once its timeout
  passed even when every slot is taken and no connection ever ends.
* **Requests.** `ChangesAccountable` covers the moments after the commit: a crash,
  a full spool or an unknown outcome cannot leave a change without a completion.
  `HealthyMeansRecorded` bounds what `audit_integrity_healthy` can hide to
  replays that changed nothing. `NoDoubleCompletion` is the agreement between
  the list in `transactionallyAudited` and what the backend really does.

### Bounds

Conflicts between two transactions need two requests, and interleavings of a
writer with two readers three. One run has a budget of two, so that a claim can
leave the binding active or exhaust it; another starts later. `Horizon` gives
the instants before, inside and at the end of a window. One
binding outlasts the retry window of its first claim, so that a late retry
happens; the window of the other is cut at the binding's end.
Two rotations in turn need three keys; two versions make a batch
of one leave one behind. Four events over a limit of three
let a transaction of several events fill the spool or find it full in the middle,
drain it and fill it again. Two requests over a spool of four let a request be
repeated and the second find no room for its events. Two connections over one
slot make `Accept` wait with every slot taken; two migrations in the first runner
and one in the second let a startup fail inside a runner and between two.
`MaxClockSteps`, `MaxVersion`, `MaxRotations`, `MaxRequests`, `MaxEvents`, `MaxCorruptions` and `Horizon` only
cut behaviours short. In every model a state in which all bounds are used up
still has an enabled step (a request can be issued, a process restarted), so
deadlock is checked throughout. Symmetry is used for request slots, processes,
versions, backups and workers, and never in runs with a liveness property.

### Fairness

* `AuditDelivery!FairSpec`: strong fairness of every worker step, because
  crashes interrupt them; the sink answers some of the requests it keeps being
  sent; its clock passes the time of its last update; a failed process is
  restarted (the pod's restart policy).
* `KeyRotation!FairSpec`: the operator keeps calling resume, an open
  transaction ends, and one that is retried is not aborted for ever.
* `ServiceRuntime!FairSpec`: goroutines run, a canceled worker returns, timeouts
  pass, `Shutdown` closes idle connections, and an advisory lock is granted in the
  order of waiting (strong fairness of `Lock`). Nothing is assumed of clients,
  handlers or the database; `ShutdownEnds` names the one condition it needs, that
  connections end.

## 4. Proofs

Every invariant, action property and refinement that a passing run checks is
also a theorem, for every value of the constants: any number of requests,
processes, workers, versions, connections, and any bound. The proofs of a
component extend its module. Each has one inductive invariant, checked by TLC
before it was proved, one lemma per action, and a short theorem per property.

| Module | Inductive invariant | Theorems |
|---|---|---|
| `RunBindingsProofs` | `BudgetInv` | `TypeCorrect`, `BudgetCorrect`, `RevocationCorrect`, `TerminalCorrect` |
| `RunBindingsAnswersProofs` | `AnswersInv` | `GrantsCorrect`, `AttemptsAgree`, `RegistrationsStand`, `SnapshotCorrect`, `AuditCorrect`, `LedgerRefinement` |
| `EnvelopeProofs` | none: operators | `DecryptEncrypted`, `RewrapEncrypted`, `RotateEncrypted`, `DecryptKeepsContext` |
| `CredentialStoreProofs` | `StoreInv` | `StoreInvariant`, `TypeCorrect`, `CreatedOnce`, `ChangesKept`, `RegisterRefinement` |
| `KeyRotationProofs` | `KeyInv` | `KeyInvariant`, `TypeCorrect`, `RotationsCorrect`, `ReadsCorrect`, `BackupsCorrect`, `ProgressCorrect`, `SpliceImpossible`, `ProgressForward` |
| `AuditDeliveryProofs` | `DeliveryInv` | `TypeCorrect`, `SinkCorrect`, `AcknowledgedCorrect`, `PendingCorrect`, `StreamRefinement` |
| `RequestAuditProofs` | `AuditInv` | `AuditInvariant`, `TypeCorrect`, `AllChangesAccountable`, `HealthyCorrect`, `CompletedOnce` |
| `ServiceRuntimeProofs` | `RuntimeInv` | `RuntimeInvariant`, `TypeCorrect`, `StartsCannotRace`, `MigratedBeforeServing`, `SlotsCorrect`, `ExitStatusCorrect` |

Why the invariants are what they are:

* **`BudgetInv`.** `BudgetExact` is not inductive: `ClaimCommit` writes
  `seen[q].count + 1`, a value read some steps before. The invariant adds that a
  request past its locking statement holds the lock (`LocksMatch`), that what it
  read is what the table holds (`RowsHeld`) because no two requests hold one row
  (`RowsExclusive`), that a claim about to insert saw a live row below its limit
  (`ClaimsAdmitted`), and that attempts are finitely many and belong to stored
  bindings (`AttemptsStored`), so that a new binding starts with none. The action
  properties follow: a step that answers with plaintext found its row unrevoked
  under lock, and only the request that holds a row writes it.
* **`AnswersInv`.** A claim decides under its lock and answers later. The
  invariant keeps the decision: a claim about to insert saw its executor and an
  open window (`ClaimsTimely`), a registration about to insert still has the
  current version pinned (`PinsHold`), an answer repeats a stored attempt
  (`GrantsRecorded`) that ends with its binding (`AttemptsWithin`). For
  `LedgerRefinement` the step that commits is the step of the ledger; every other
  step changes nothing the ledger sees. The time of the ledger's step is the one
  the request read when it was issued, as in the code.
* **`StoreInv`.** A request works on a row it read outside any transaction. That
  row is one of the stored versions (`ReadFits`), versions are never written again
  (`Kept`), so a version number that still matches makes it the newest one. What
  an answer acknowledged is found in the version it names (`AnswerFits`), and
  every record was encrypted for its own version (`VersionFits`), which makes the
  inputs that rename and retire carry over readable. The abstract history is what
  the versions decrypt to.
* **`KeyInv`.** Every stored and dumped record is one that `Encrypt` made for its
  version (`TablesInv`); `EnvelopeProofs` says that `Rewrap` and `RotateDataKey`
  keep it so, and `SpliceImpossible` needs nothing else. Rows locked by a batch
  are still under the source key (`TasksInv`). For processes that change keys
  together, a key that has become a previous key is the current key of no process,
  now or later (`Retiring`), so no row comes to refer to it: a count taken by an
  earlier statement, the progress of a rotation and an answer of key status can
  only overstate what is left (`CountsInv`, `KeysInv`, `BackupsInv`).
* **`DeliveryInv`.** The sink stays exact because every record on its way, also
  one given up by its sender, carries the event its row was committed with
  (`Genuine`): `Pending` recomputes the MAC, and MACs never change. Marks stay a
  prefix because a batch leaves out no undelivered row below its last one
  (`BatchesDense`), so its first record is the next to mark or is marked already.
  The rows of the open transaction carry on the chain from the committed head
  (`TxSealed`), so a commit of any number of them is one step of the stream.
* **`AuditInv`.** What the answer of a request says about the events appended by
  its transaction (`EntryFits`): a success that the deferred function skips
  without a completion is a silent replay, any other has its completion. That
  rests on two facts about the interface, proved of the tables themselves: a
  request has at most one handler, and it is audited under that handler's name
  although `requestOperation` compares only prefixes and last segments
  (`HandledNamed`).
* **`RuntimeInv`.** One process holds a runner's lock (`LocksExclusive`), the
  migrations of an open transaction belong to it (`WorkOwned`), and the loop left
  no version behind (`VersionsPassed`, `RunnersPassed`). The slots are counted
  with the one `Accept` has taken (`SlotsInv`), and what `Shutdown` left open is
  remembered until the exit (`DrainInv`).

What the theorems assume. Most assumptions only type the constants
(`RequestAssumption`, `PolicyAssumption`, `BoundAssumption`, `StoreAssumption`,
`KeySetAssumption`, `RotationAssumption`, `DeliveryAssumption`,
`SpoolAssumption`, `SinkAssumption`, `AuditAssumption`, `RuntimeAssumption`).
Two say more:

* `RunnersAssumption`: each service calls at least one runner, and a runner has at
  least one migration, as both `Build` functions and the embedded files have.
* `FreshKeyAssumption`: a key that was mounted as previous is not mounted as
  current in a later deployment; the repository's `README.md:119` describes
  rotation towards a *new* key. Without it the recreate properties cannot be
  shown: an answer of key status that reported a key clear would still stand when
  the key is in use again. `ReadsAvailable`, `BackupsRestorable` and
  `ProgressTruthful` need it; the other theorems of the module do not.

Cryptography enters through `Seal` and `Open` only, as ideal operations.

Only model-checked: the five liveness properties (`EveryEventDelivered`, `RotationCompletes`, `StartupEnds`, `ShutdownEnds`,
`SinkStopsInTime`), because fairness and `ENABLED` are outside the prover's
reach. The counterexamples of section 5 are runs.

## 5. Findings

Four runs end in a counterexample; `findings` quotes the sentence each refutes.

* `BindingsStaleClock`: the time of a claim is read before it waits for the row
  lock, so a claim may be granted after the window has closed.
* `AuditFalseAlarm`: `Verify` and `Pending` compare results of separate
  statements; an append in between ends the worker, and the process, with an
  integrity error.
* `RotationStuck`: a version written under the source key after the rotation
  counted its records lets `processed_records` exceed `total_records`; the batch
  is rolled back, and so is every later one of its size. A batch large enough to
  empty the source key at once succeeds.
* `RotationMisread`: `KeyStatus` does not ask `rows.Err()` after its last loop
  (`postgres_rotation.go:107`; after the first one it does, `:90`). When that read
  fails, no backup seems to need the previous key; the operator removes it, and a
  backup registered in time cannot be restored.

Smaller divergences have no run of their own:

* A repeated create, retire, backup registration, finalize, an update to the same
  name, or a resume of a finalized rotation is answered with success without any
  event: the backend returns before it appends and the transport skips every
  success of these operations (`transport/server.go:90`), while
  `docs/service-api.md:587` says each protected request emits one completion
  event. `HealthyMeansRecorded` is stated with that exception.
* The secrets service does not keep `PRAETOR_SECRETS_SHUTDOWN_TIMEOUT` when every
  connection slot is taken: `Serve` waits for a slot in `limitListener.Accept`
  (`app/runtime.go:313`), `Shutdown` waits for `Serve`, and closing the listener
  does not wake it. `StopsInTime("secrets")` is violated; the sink's listener has
  a `done` channel and satisfies it.
* A signal that arrives before `Run` reaches its select may be reported as the
  error of the canceled worker, and the exit status is 1, while the repository's
  `README.md:96` says the service shuts down gracefully on `SIGTERM`.
* A retry of the attempt that exhausted a binding is answered with plaintext
  (`postgres_resolution.go:213`, expected by `resolution_test.go:157`), while
  `docs/service-api.md:206` says an exhausted binding cannot return plaintext.
  `RevocationWins` is therefore stated for canceled and expired only.
* `run_binding_exhausted` (`docs/service-api.md:609`) is never written: the claim
  that reaches the limit stores the state itself, and the branch that would append
  the event (`postgres_resolution.go:230`) needs a binding at its limit that is not
  yet exhausted. `AuditMatchesState` says nothing of this event.
* A recovery validation writes two completion events, one with its start
  (`postgres_recovery.go:25`, `:80`).
* `Recorder.Record` sets its degraded flag on any failed append, a full spool
  included, and nothing resets it (`recorder.go:63`), while
  `docs/service-api.md:533` calls the status field chain integrity.

## 6. Not modelled

The algorithms of cryptography (AES-GCM, HMAC, TLS), file permissions and wiping,
JSON and header syntax, configuration ranges, schema and injector tables, the
client library (one call, one request, no state), the development bootstrap (run
once, before any process) and the charts. The in-memory backend's rotation is used
by unit tests only. Reads (`Get`, `InspectBinding`, `GetMasterKeyRotation`) change
nothing and appear only as requests of `RequestAudit`. The health listener is
reduced to its readiness checks. Two refusals that write nothing are covered by
`Abort` and not told apart: the credential a `FOR SHARE` re-evaluation no longer
finds, and the CHECK that `updated_at` is not before `created_at`.

Deadlock between requests that wait for each other's locks is not checked: the
statements of a registration or a claim between which it would arise are joined.
Read from the code, every transaction takes its locks in the same order (advisory
key, credential row, binding row or the unique keys of a new one, attempt, chain
head), batches of a rotation skip locked rows, and no transaction waits for
another lock once it holds the chain head.

## 7. Plan

1. *Done*: every component of section 1 is modelled and its properties checked.
2. *Done*: every invariant, action property and refinement of the runs is proved.
3. Left: which part of the `KeyRotation` guarantees survives a rolling update,
   stated and proved with the condition under which it does; shorter proofs where
   two modules prove the same fact about tables and locks.
