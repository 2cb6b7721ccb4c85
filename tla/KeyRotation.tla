---------------------------- MODULE KeyRotation ----------------------------
(***************************************************************************)
(* Master-key rotation and the retirement of an old key:                   *)
(* credential/rotation.go with credential/postgres_rotation.go, the backup *)
(* evidence of credential/postgres_recovery.go, and the key files each     *)
(* service process loaded when it started (masterkey/loader.go).           *)
(*                                                                         *)
(* Of a row of credential_versions the envelope is kept; every statement   *)
(* writes the column master_key_id from the record it writes.  A version   *)
(* is itself its inputs and its authenticated context.  The draws of two   *)
(* RotateCredential of one version are not told apart.                     *)
(* Every statement that another transaction can come between is an action: *)
(* StartRotation counts and then inserts; RotateBatch locks the rotation   *)
(* and its batch and then rewraps and commits; KeyStatus reads the counts, *)
(* the rotation and the backups one after the other.  The count of rows    *)
(* left, inside RotateBatch and FinalizeRotation, is taken together with   *)
(* their commit: a version inserted between the two has the effect of one  *)
(* inserted just after the commit.  A process works on one operator        *)
(* request at a time; two processes with the same key files stand for two  *)
(* requests of one process.                                                *)
(*                                                                         *)
(* The operator follows README.md: the key sets of KeySets are deployed in *)
(* turn, and a deployment that drops a key waits until its rotation is     *)
(* finalized and key status reported the database and the backups clear of *)
(* it.  The chart's Deployment sets no strategy, so processes are replaced *)
(* one by one (rollout "rolling"); with "recreate" all are stopped before  *)
(* the new ones start.                                                     *)
(***************************************************************************)
EXTENDS Integers, Sequences, FiniteSets, Envelope

CONSTANTS
  MasterKeys,    \* master key identifiers
  Processes,     \* service processes on one database
  Versions,      \* rows that may come to exist in credential_versions
  Backups,       \* backup identifiers
  KeySets,       \* the key files of each deployment: [current, previous]
  BatchSize,     \* the batch_size the operator asks for
  MaxRotations,  \* bound: rotations started
  Rollouts       \* the deployment strategies an installation may have

\* masterkey.Load: one current key, at most one previous key, not the same.
ASSUME KeySetAssumption ==
  /\ KeySets \in Seq([current : MasterKeys, previous : SUBSET MasterKeys])
  /\ KeySets # << >>
  /\ \A g \in DOMAIN KeySets :
       /\ Cardinality(KeySets[g].previous) <= 1
       /\ KeySets[g].current \notin KeySets[g].previous

\* README.md, "mount the new key as the current key": a key that was a
\* previous key does not become the current key again.
ASSUME FreshKeyAssumption ==
  \A g, h \in DOMAIN KeySets : g < h => KeySets[h].current \notin KeySets[g].previous

ASSUME RotationAssumption ==
  /\ BatchSize \in Nat \ {0}
  /\ MaxRotations \in Nat
  /\ Rollouts \subseteq {"rolling", "recreate"}

VARIABLES
  envelopes,  \* credential_versions: version -> envelope record
  rotations,  \* master_key_rotations, in the order of their start
  dumps,      \* the dumps the operator keeps: identifier -> table of envelopes
  backups,    \* backup_sets: identifier -> [keys, expired, late, missed]
  rollout,    \* the deployment strategy of the installation
  deployed,   \* which of KeySets each process has loaded
  task,       \* operator requests in progress: process -> what it holds
  cleared     \* keys that a key status answer reported clear

vars == <<envelopes, rotations, dumps, backups, rollout, deployed, task, cleared>>

States == {"pending", "running", "ready", "finalized"}

Rotation ==
  [source : MasterKeys, target : MasterKeys, state : States,
   total : Nat, processed : Nat]

NoRows == [x \in {} |-> 0]

With(table, k, row) ==
  [x \in DOMAIN table \cup {k} |-> IF x = k THEN row ELSE table[x]]

Without(table, K) == [x \in DOMAIN table \ K |-> table[x]]

Init ==
  /\ envelopes = NoRows
  /\ rotations = << >>
  /\ dumps = NoRows
  /\ backups = NoRows
  /\ rollout \in Rollouts
  /\ deployed = [p \in Processes |-> 1]
  /\ task = NoRows
  /\ cleared = {}

-----------------------------------------------------------------------------
(* What a process knows, and what is locked.                               *)

Current(p) == KeySets[deployed[p]].current
Previous(p) == KeySets[deployed[p]].previous
KeyringOf(g) == {KeySets[g].current} \cup KeySets[g].previous
Keyring(p) == KeyringOf(deployed[p])

Idle(p) == p \notin DOMAIN task
Doing(p, step) == p \in DOMAIN task /\ task[p].step = step
Done(p) == task' = Without(task, {p})

\* SELECT count(*) FROM credential_versions WHERE master_key_id = k.
Referencing(table, k) == {v \in DOMAIN table : table[v].masterKeyId = k}

Active(id) == rotations[id].state # "finalized"
NoneActive == \A id \in DOMAIN rotations : ~Active(id)

Batching(id) == \E p \in DOMAIN task : task[p].step = "batch" /\ task[p].id = id

Rewrapping(p) == Doing(p, "batch") \/ Doing(p, "credential")

\* Mutant: rows are selected without FOR UPDATE.
NoRowLocks == {}

LockedRows == UNION {task[p].rows : p \in {q \in Processes : Rewrapping(q)}}

-----------------------------------------------------------------------------
(* Writes, deployments and failures.                                       *)

\* Create, ReplaceInputs, UpdateMetadata and Retire each insert one version,
\* encrypted under the current key of the process.
Write(p, v) ==
  /\ v \notin DOMAIN envelopes
  /\ envelopes' = With(envelopes, v, Encrypt(v, v, Current(p), <<v, "written">>))
  /\ UNCHANGED <<rotations, dumps, backups, deployed, task, cleared, rollout>>

\* README.md: the rotation is finalized and key status reported both clear.
Removable(k) ==
  /\ k \in cleared
  /\ \E id \in DOMAIN rotations : rotations[id].source = k /\ ~Active(id)

\* Processes P are stopped, losing their open transactions, and started with
\* the key files of the next deployment.
Deploy(P) ==
  /\ P # {}
  /\ \A p \in P, q \in Processes : deployed[p] <= deployed[q]
  /\ \A p \in P :
       /\ deployed[p] < Len(KeySets)
       /\ \A k \in Keyring(p) \ KeyringOf(deployed[p] + 1) : Removable(k)
  /\ deployed' = [p \in Processes |-> IF p \in P THEN deployed[p] + 1 ELSE deployed[p]]
  /\ task' = Without(task, P)
  /\ UNCHANGED <<envelopes, rotations, dumps, backups, cleared, rollout>>

\* A storage or audit error, a canceled request or a crash: rollback.
Abort(p) ==
  /\ ~Idle(p)
  /\ Done(p)
  /\ UNCHANGED <<envelopes, rotations, dumps, backups, deployed, cleared, rollout>>

-----------------------------------------------------------------------------
(* StartRotation.                                                          *)

StartCount(p) ==
  /\ Idle(p)
  /\ Len(rotations) < MaxRotations
  /\ \E source \in Previous(p) :
       task' = With(task, p, [step |-> "start", source |-> source,
                              total |-> Cardinality(Referencing(envelopes, source))])
  /\ UNCHANGED <<envelopes, rotations, dumps, backups, deployed, cleared, rollout>>

NewRotation(source, target, total) ==
  [source |-> source, target |-> target, total |-> total, processed |-> 0,
   state |-> IF total = 0 THEN "ready" ELSE "pending"]

\* The partial unique index lets one rotation be active: ErrRotationConflict.
StartCommit(p) ==
  /\ Doing(p, "start")
  /\ rotations' =
       IF NoneActive
       THEN Append(rotations, NewRotation(task[p].source, Current(p), task[p].total))
       ELSE rotations
  /\ Done(p)
  /\ UNCHANGED <<envelopes, dumps, backups, deployed, cleared, rollout>>

-----------------------------------------------------------------------------
(* RotateBatch, by ResumeMasterKeyRotation.                                *)

\* FOR UPDATE on the rotation; the first rows of the source key that are not
\* locked, in an order the model leaves open (FOR UPDATE SKIP LOCKED LIMIT).
BatchSelect(p, id) ==
  /\ Idle(p)
  /\ Previous(p) # {}
  /\ Active(id)
  /\ ~Batching(id)
  /\ LET free == Referencing(envelopes, rotations[id].source) \ LockedRows
         n == IF Cardinality(free) < BatchSize THEN Cardinality(free) ELSE BatchSize
     IN \E rows \in SUBSET free :
          /\ Cardinality(rows) = n
          /\ task' = With(task, p, [step |-> "batch", id |-> id, rows |-> rows])
  /\ UNCHANGED <<envelopes, rotations, dumps, backups, deployed, cleared, rollout>>

\* What the transform of process p makes of a row, if it authenticates.
Transformed(p, v) == Rewrap(envelopes[v], v, Keyring(p), Current(p))

\* The rows of process p, each replaced by the result of its transform.
Rewrapped(p) ==
  [v \in DOMAIN envelopes |->
     IF v \in task[p].rows THEN CHOOSE r \in Transformed(p, v) : TRUE ELSE envelopes[v]]

\* Mutant: the rotation is declared ready when its batch is smaller than asked.
AfterShortBatch(r, n, remaining) ==
  IF n < BatchSize
  THEN [r EXCEPT !.processed = r.total, !.state = "ready"]
  ELSE [r EXCEPT !.processed = @ + n, !.state = "running"]

\* Mutant: progress is recomputed from what is left.
AfterRecount(r, n, remaining) ==
  [r EXCEPT !.processed = r.total - remaining,
            !.state = IF remaining = 0 THEN "ready" ELSE "running"]

\* Mutant: the rotation is ready when it has itself rewrapped every record.
AfterOwnRows(r, n, remaining) ==
  [r EXCEPT !.processed = @ + n,
            !.state = IF r.processed + n = r.total THEN "ready" ELSE "running"]

\* Progress after n rows, with remaining rows of the source key left.
AfterBatch(r, n, remaining) ==
  IF remaining = 0
  THEN [r EXCEPT !.processed = r.total, !.state = "ready"]
  ELSE [r EXCEPT !.processed = @ + n, !.state = "running"]

\* The rotation as the batch of process p leaves it.
BatchResult(p) ==
  LET r == rotations[task[p].id]
  IN AfterBatch(r, Cardinality(task[p].rows),
       Cardinality(Referencing(Rewrapped(p), r.source)))

\* Mutant: the CHECK constraint is missing.
BatchUnchecked(p) == \A v \in task[p].rows : Transformed(p, v) # {}

\* Every row authenticates under a loaded key, and the CHECK constraint
\* processed_records <= total_records holds.
BatchAllowed(p) ==
  /\ \A v \in task[p].rows : Transformed(p, v) # {}
  /\ BatchResult(p).processed <= BatchResult(p).total

\* The rows are rewrapped to the current key of the process.
BatchCommit(p) ==
  /\ Doing(p, "batch")
  /\ BatchAllowed(p)
  /\ envelopes' = Rewrapped(p)
  /\ rotations' = [rotations EXCEPT ![task[p].id] = BatchResult(p)]
  /\ Done(p)
  /\ UNCHANGED <<dumps, backups, deployed, cleared, rollout>>

BatchRefused(p) ==
  /\ Doing(p, "batch")
  /\ ~BatchAllowed(p)
  /\ Done(p)
  /\ UNCHANGED <<envelopes, rotations, dumps, backups, deployed, cleared, rollout>>

-----------------------------------------------------------------------------
(* FinalizeRotation.  The row lock orders it with batches.                 *)

Finalizable(r) == r.state = "ready" /\ Referencing(envelopes, r.source) = {}

Finalize(id) ==
  /\ ~Batching(id)
  /\ Finalizable(rotations[id])
  /\ rotations' = [rotations EXCEPT ![id].state = "finalized"]
  /\ UNCHANGED <<envelopes, dumps, backups, deployed, task, cleared, rollout>>

-----------------------------------------------------------------------------
(* RotateCredential: one version, under a new data key.                    *)

CredentialLock(p, v) ==
  /\ Idle(p)
  /\ v \in DOMAIN envelopes \ LockedRows
  /\ task' = With(task, p, [step |-> "credential", rows |-> {v}])
  /\ UNCHANGED <<envelopes, rotations, dumps, backups, deployed, cleared, rollout>>

CredentialCommit(p) ==
  /\ Doing(p, "credential")
  /\ \E v \in task[p].rows :
       \E r \in RotateDataKey(envelopes[v], v, Keyring(p), Current(p), <<v, "rotated">>) :
         envelopes' = [envelopes EXCEPT ![v] = r]
  /\ Done(p)
  /\ UNCHANGED <<rotations, dumps, backups, deployed, cleared, rollout>>

-----------------------------------------------------------------------------
(* Backup evidence.                                                        *)

\* pg_dump, from one snapshot.
Dump(b) ==
  /\ b \notin DOMAIN dumps \cup DOMAIN backups
  /\ dumps' = With(dumps, b, envelopes)
  /\ UNCHANGED <<envelopes, rotations, backups, deployed, task, cleared, rollout>>

\* The operator registers a dump with the keys its records need, one or two;
\* late: a key status answer had already reported one of them clear.  An
\* identifier that is registered keeps its record, whatever is sent again: the
\* same artifact is answered with it, another one is an ErrBackupConflict.
RegisterBackup(b) ==
  /\ \/ b \in DOMAIN backups /\ UNCHANGED backups
     \/ /\ b \in DOMAIN dumps \ DOMAIN backups
        /\ LET keys == {dumps[b][v].masterKeyId : v \in DOMAIN dumps[b]} IN
           /\ Cardinality(keys) \in 1 .. 2
           /\ backups' = With(backups, b, [keys |-> keys, expired |-> FALSE, missed |-> FALSE,
                                           late |-> keys \cap cleared # {}])
  /\ UNCHANGED <<envelopes, rotations, dumps, deployed, task, cleared, rollout>>

\* The dump is deleted and its registration marked.
ExpireBackup(b) ==
  /\ b \in DOMAIN backups
  /\ backups' = [backups EXCEPT ![b].expired = TRUE]
  /\ dumps' = Without(dumps, {b})
  /\ UNCHANGED <<envelopes, rotations, deployed, task, cleared, rollout>>

\* Recovery validation of a restored table, sampled whole, under a keyring.
ValidateRecovery(table, keyring) ==
  \A v \in DOMAIN table : Decrypt(table[v], v, keyring) # {}

Retained(k) == {b \in DOMAIN backups : ~backups[b].expired /\ k \in backups[b].keys}

-----------------------------------------------------------------------------
(* KeyStatus.                                                              *)

StatusCounts(p) ==
  /\ Idle(p)
  /\ \E k \in Previous(p) :
       task' = With(task, p, [step |-> "statusRotation", key |-> k,
                              clear |-> Referencing(envelopes, k) = {}])
  /\ UNCHANGED <<envelopes, rotations, dumps, backups, deployed, cleared, rollout>>

\* database_references_cleared.
DatabaseClear(counted) == counted /\ NoneActive

StatusRotation(p) ==
  /\ Doing(p, "statusRotation")
  /\ task' = [task EXCEPT ![p] = [step |-> "statusBackups", key |-> @.key,
                                  clear |-> DatabaseClear(@.clear)]]
  /\ UNCHANGED <<envelopes, rotations, dumps, backups, deployed, cleared, rollout>>

\* What the last loop has read of the references to key k: all of them, or
\* none when the read fails before their row, since rows.Err() is not asked.
ReferencesRead(k) == {Retained(k), {}}

\* Mutant: backups are not asked.
BackupsIgnored(references) == TRUE

\* backup_references_cleared.
BackupsClear(references) == references = {}

\* The answer; the operator notes a key both fields report clear.  missed: the
\* answer left out the backup.
StatusAnswer(p) ==
  /\ Doing(p, "statusBackups")
  /\ LET k == task[p].key IN
     \E references \in ReferencesRead(k) :
       \/ /\ task[p].clear /\ BackupsClear(references)
          /\ cleared' = cleared \cup {k}
          /\ backups' = [b \in DOMAIN backups |->
                           [backups[b] EXCEPT !.missed = @ \/ b \in Retained(k) \ references]]
       \/ /\ ~(task[p].clear /\ BackupsClear(references))
          /\ UNCHANGED <<backups, cleared>>
  /\ Done(p)
  /\ UNCHANGED <<envelopes, rotations, dumps, deployed, rollout>>

-----------------------------------------------------------------------------
Operate(p) ==
  \/ StartCount(p) \/ StartCommit(p)
  \/ \E id \in DOMAIN rotations : BatchSelect(p, id)
  \/ BatchCommit(p) \/ BatchRefused(p)
  \/ \E v \in Versions : CredentialLock(p, v)
  \/ CredentialCommit(p)
  \/ StatusCounts(p) \/ StatusRotation(p) \/ StatusAnswer(p)
  \/ Abort(p)

Next ==
  \/ \E p \in Processes, v \in Versions : Write(p, v)
  \/ rollout = "rolling" /\ \E p \in Processes : Deploy({p})
  \/ rollout = "recreate" /\ Deploy(Processes)
  \/ \E p \in Processes : Operate(p)
  \/ \E id \in DOMAIN rotations : Finalize(id)
  \/ \E b \in Backups : Dump(b) \/ RegisterBackup(b) \/ ExpireBackup(b)

Spec == Init /\ [][Next]_vars

\* The operator keeps calling resume on an unfinished rotation; every
\* transaction ends, and one that is retried does not fail for ever.
FairSpec ==
  /\ Spec
  /\ \A p \in Processes :
       /\ SF_vars(\E id \in DOMAIN rotations : BatchSelect(p, id))
       /\ SF_vars(BatchCommit(p))
       /\ \A v \in Versions : SF_vars(CredentialCommit(p) /\ task[p].rows = {v})
       /\ WF_vars(~Idle(p) /\ Operate(p))

-----------------------------------------------------------------------------
(* Properties.                                                             *)

\* Type invariant: rotations keep the CHECK constraints of
\* migrations/003_rotations.sql, and locked rows exist.
TypeOK ==
  /\ DOMAIN envelopes \subseteq Versions
  /\ \A v \in DOMAIN envelopes :
       envelopes[v].masterKeyId \in MasterKeys /\ envelopes[v].context = v
  /\ rotations \in Seq(Rotation)
  /\ \A id \in DOMAIN rotations :
       /\ rotations[id].source # rotations[id].target
       /\ rotations[id].processed <= rotations[id].total
  /\ rollout \in Rollouts
  /\ deployed \in [Processes -> DOMAIN KeySets]
  /\ LockedRows \subseteq DOMAIN envelopes
  /\ cleared \subseteq MasterKeys

\* The partial unique index of migrations/003_rotations.sql and the row locks:
\* one rotation is active at a time, and two transactions never rewrap the
\* same version.
RotationsExclude ==
  /\ \A i, j \in DOMAIN rotations : Active(i) /\ Active(j) => i = j
  /\ \A p, q \in Processes :
       Rewrapping(p) /\ Rewrapping(q) /\ p # q => task[p].rows \cap task[q].rows = {}

\* A rotation keeps its identity, its progress never goes back although rows
\* under the source key may still appear, and a finalized one stays as it is.
ProgressMonotone ==
  [][\A id \in DOMAIN rotations :
       LET r == rotations[id]
           s == rotations'[id]
       IN /\ [s EXCEPT !.state = r.state, !.processed = r.processed] = r
          /\ s.processed >= r.processed
          /\ ~Active(id) => s = r]_vars

\* Without overlap of two deployments, whatever is rewrapped, added or dropped
\* meanwhile, every stored version can be decrypted by every process: removing
\* a key never loses a credential.
ReadsAvailable ==
  rollout = "recreate" =>
  \A p \in Processes, v \in DOMAIN envelopes :
    Decrypt(envelopes[v], v, Keyring(p)) = {v}

\* Without overlap of two deployments, a retained backup whose dump was
\* registered before key status reported its keys clear, and that no answer
\* left out, can be restored: every record of it still decrypts under the keys
\* that are loaded.
BackupsRestorable ==
  rollout = "recreate" =>
  \A b \in DOMAIN backups, p \in Processes :
    \/ backups[b].expired \/ backups[b].late \/ backups[b].missed
    \/ ValidateRecovery(dumps[b], Keyring(p))

\* A record put together from the fields of stored and dumped records, under
\* any context, decrypts to the inputs of that context or not at all; records
\* do not depend on what is in progress, so idle states show it
\* (envelope.go: "prevents copying ciphertext between credentials").
NoSplice ==
  task = NoRows =>
  LET stored == {envelopes[v] : v \in DOMAIN envelopes}
      dumped == UNION {{dumps[b][v] : v \in DOMAIN dumps[b]} : b \in DOMAIN dumps}
  IN \A h, w, c \in stored \cup dumped, k \in MasterKeys, v \in Versions :
       Decrypt([h EXCEPT !.masterKeyId = k, !.context = v, !.ciphertext = c.ciphertext,
                         !.wrappedDataKey = w.wrappedDataKey], v, MasterKeys) \subseteq {v}

\* Without overlap progress never overstates: the rows still under the source
\* key fit in what total_records says is left, so no resume can meet the CHECK
\* constraint, and a ready or finalized rotation has none left.
ProgressTruthful ==
  rollout = "recreate" =>
  \A id \in DOMAIN rotations :
    LET r == rotations[id]
        left == Cardinality(Referencing(envelopes, r.source))
    IN /\ Active(id) => r.processed + left <= r.total
       /\ r.state \in {"ready", "finalized"} => left = 0

\* Without overlap of two deployments, an unfinished rotation that is resumed
\* again and again becomes ready.
RotationCompletes ==
  \A id \in 1 .. MaxRotations :
    (rollout = "recreate" /\ id \in DOMAIN rotations /\ Active(id)) ~>
      (id \in DOMAIN rotations /\ rotations[id].state \in {"ready", "finalized"})

-----------------------------------------------------------------------------
(* What the documents say and the code does not guarantee.                 *)

\* docs/service-api.md, "a later resume continues from records still
\* referencing the source key": a batch that was selected can be committed.
ResumeContinues == \A p \in DOMAIN task : Doing(p, "batch") => BatchAllowed(p)

\* docs/threat-model.md, "gated on proof that no active record or supported
\* backup requires it": with the key removed as README.md tells, a retained
\* backup registered in time is restorable, also when a read of it failed.
RemovalGated ==
  rollout = "recreate" =>
  \A b \in DOMAIN backups, p \in Processes :
    \/ backups[b].expired \/ backups[b].late
    \/ ValidateRecovery(dumps[b], Keyring(p))

=============================================================================
