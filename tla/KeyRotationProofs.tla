------------------------- MODULE KeyRotationProofs -------------------------
(***************************************************************************)
(* Theorems about KeyRotation, for any number of processes, versions,      *)
(* backups, deployments and rotations, and any batch size.                 *)
(*                                                                         *)
(* Every stored and every dumped record is one that Encrypt made for its   *)
(* own version (TablesInv), which is what the associated data protects.    *)
(* The rows a transaction holds are still under the source key of its      *)
(* rotation (TasksInv), because the rows of two transactions are disjoint. *)
(*                                                                         *)
(* Without overlap of two deployments all processes have the same keys     *)
(* (Together).  A key that became a previous key is then the current key   *)
(* of no process, now or later (Retiring): no row comes to refer to it, so *)
(* that a count that was taken, an answer that was given and the progress  *)
(* that was written never become too small.                                *)
(***************************************************************************)
EXTENDS KeyRotation, EnvelopeProofs, FiniteSetTheorems, SequenceTheorems

-----------------------------------------------------------------------------
(* The inductive invariant.                                                *)

Draws(v) == {<<v, "written">>, <<v, "rotated">>}

\* A record that Encrypt made for version v.
IsEnvelope(r, v) == \E k \in MasterKeys, d \in Draws(v) : r = Encrypt(v, v, k, d)

TablesInv ==
  /\ DOMAIN envelopes \subseteq Versions
  /\ IsFiniteSet(DOMAIN envelopes)
  /\ \A v \in DOMAIN envelopes : IsEnvelope(envelopes[v], v)
  /\ \A b \in DOMAIN dumps : \A v \in DOMAIN dumps[b] : IsEnvelope(dumps[b][v], v)

DeployedInv ==
  /\ rollout \in Rollouts
  /\ deployed \in [Processes -> DOMAIN KeySets]
  /\ cleared \subseteq MasterKeys
  /\ rollout = "recreate" => \A p, q \in Processes : deployed[p] = deployed[q]

RotationFits(r) ==
  /\ r \in Rotation
  /\ r.source # r.target
  /\ r.processed <= r.total

RotationsInv ==
  /\ rotations \in Seq(Rotation)
  /\ \A id \in DOMAIN rotations : RotationFits(rotations[id])
  /\ \A i, j \in DOMAIN rotations : Active(i) /\ Active(j) => i = j

StatusSteps == {"statusRotation", "statusBackups"}

\* What a request holds is about the keys of its process, and its rows are
\* those of the rotation it locked.
TaskFits(p) ==
  /\ task[p].step \in {"start", "batch", "credential"} \cup StatusSteps
  /\ task[p].step = "start" => task[p].source \in Previous(p) /\ task[p].total \in Nat
  /\ task[p].step = "batch" =>
       /\ task[p].id \in DOMAIN rotations
       /\ Active(task[p].id)
       /\ task[p].rows \subseteq Referencing(envelopes, rotations[task[p].id].source)
  /\ task[p].step = "credential" => task[p].rows \subseteq DOMAIN envelopes
  /\ task[p].step \in StatusSteps => task[p].key \in Previous(p)

TasksInv ==
  /\ DOMAIN task \subseteq Processes
  /\ \A p \in DOMAIN task : TaskFits(p)
  /\ \A p, q \in DOMAIN task :
       Rewrapping(p) /\ Rewrapping(q) /\ p # q => task[p].rows \cap task[q].rows = {}

\* No process has k as its current key, or will have it.
Retiring(k) ==
  \A p \in Processes : \A g \in DOMAIN KeySets : g >= deployed[p] => KeySets[g].current # k

Left(k) == Cardinality(Referencing(envelopes, k))

\* What a request counted has not grown.
TaskCounts(p) ==
  /\ task[p].step = "start" => Left(task[p].source) <= task[p].total
  /\ task[p].step \in StatusSteps /\ task[p].clear => Referencing(envelopes, task[p].key) = {}

RotationTruthful(r) ==
  /\ Retiring(r.source)
  /\ r.state # "finalized" => r.processed + Left(r.source) <= r.total
  /\ r.state \in {"ready", "finalized"} => Left(r.source) = 0

TruthAt(id) == RotationTruthful(rotations[id])

CountsInv ==
  /\ \A p \in DOMAIN task : TaskCounts(p)
  /\ \A id \in DOMAIN rotations : TruthAt(id)
  /\ \A k \in cleared : Retiring(k) /\ Referencing(envelopes, k) = {}

\* The keys of stored records are loaded, those of dumped ones unless cleared.
KeysInv ==
  /\ \A v \in DOMAIN envelopes, p \in Processes : envelopes[v].masterKeyId \in Keyring(p)
  /\ \A b \in DOMAIN dumps, p \in Processes : \A v \in DOMAIN dumps[b] :
       dumps[b][v].masterKeyId \in Keyring(p) \cup cleared

\* No key of a retained backup was cleared after its registration, unless the
\* answer left the backup out.
BackupFits(b) ==
  /\ DOMAIN backups[b] = {"keys", "expired", "late", "missed"}
  /\ \/ backups[b].expired
     \/ backups[b].late
     \/ backups[b].missed
     \/ /\ b \in DOMAIN dumps
        /\ \A v \in DOMAIN dumps[b] : dumps[b][v].masterKeyId \in backups[b].keys
        /\ backups[b].keys \cap cleared = {}

BackupsInv == \A b \in DOMAIN backups : BackupFits(b)

BaseInv == TablesInv /\ DeployedInv /\ RotationsInv /\ TasksInv

\* The invariant of a deployment that stops all processes first.
RecreateInv == rollout = "recreate" => CountsInv /\ KeysInv /\ BackupsInv

KeyInv == BaseInv /\ RecreateInv

-----------------------------------------------------------------------------
(* Key files, and the keys a process has.                                  *)

\* masterkey.Load: what a deployment's key files hold.
LEMMA KeySetFacts ==
  ASSUME NEW g \in DOMAIN KeySets
  PROVE  /\ g \in Nat \ {0} /\ DOMAIN KeySets = 1 .. Len(KeySets) /\ Len(KeySets) \in Nat
         /\ KeySets[g].current \in MasterKeys /\ KeySets[g].previous \subseteq MasterKeys
         /\ KeySets[g].current \notin KeySets[g].previous
         /\ KeyringOf(g) \subseteq MasterKeys
<1> DEFINE Files == [current : MasterKeys, previous : SUBSET MasterKeys]
<1>1. KeySets \in Seq(Files)
  BY KeySetAssumption
<1> HIDE DEF Files
<1>2. DOMAIN KeySets = 1 .. Len(KeySets) /\ Len(KeySets) \in Nat /\ g \in Nat \ {0}
  BY <1>1
<1>3. KeySets[g] \in Files
  BY <1>1, <1>2
<1>4. KeySets[g].current \in MasterKeys /\ KeySets[g].previous \subseteq MasterKeys
  BY <1>3 DEF Files
<1> QED
  BY <1>2, <1>4, KeySetAssumption DEF KeyringOf

\* The keys a process loaded.
LEMMA ProcessKeys ==
  ASSUME DeployedInv, NEW p \in Processes
  PROVE  /\ deployed[p] \in DOMAIN KeySets
         /\ Current(p) \in MasterKeys /\ Previous(p) \subseteq MasterKeys
         /\ Current(p) \notin Previous(p)
         /\ Keyring(p) \subseteq MasterKeys /\ Current(p) \in Keyring(p)
<1>1. deployed[p] \in DOMAIN KeySets
  BY DEF DeployedInv
<1> QED
  BY <1>1, KeySetFacts DEF Current, Previous, Keyring, KeyringOf

\* A previous key is the current key of no process, now or later.
LEMMA PreviousRetiring ==
  ASSUME DeployedInv, rollout = "recreate", NEW p \in Processes, NEW k \in Previous(p)
  PROVE  Retiring(k)
<1> SUFFICES ASSUME NEW q \in Processes, NEW g \in DOMAIN KeySets, g >= deployed[q]
             PROVE  KeySets[g].current # k
  BY DEF Retiring
<1>1. deployed[q] = deployed[p] /\ deployed[p] \in DOMAIN KeySets
  BY DEF DeployedInv
<1>2. k \in KeySets[deployed[p]].previous
  BY DEF Previous
<1>3. g \in Nat /\ deployed[p] \in Nat
  BY <1>1, KeySetFacts
<1>4. CASE g = deployed[p]
  BY <1>1, <1>2, <1>4, KeySetFacts
<1>5. CASE deployed[p] < g
  BY <1>1, <1>2, <1>5, FreshKeyAssumption
<1> QED
  BY <1>1, <1>3, <1>4, <1>5

\* Deployments only go forward, so a key that is retiring stays so.
LEMMA RetiringKept ==
  ASSUME DeployedInv, DeployedInv', \A p \in Processes : deployed'[p] >= deployed[p],
         NEW k, Retiring(k)
  PROVE  Retiring(k)'
<1> SUFFICES ASSUME NEW p \in Processes, NEW g \in DOMAIN KeySets, g >= deployed'[p]
             PROVE  KeySets[g].current # k
  BY DEF Retiring
<1>1. g \in Nat /\ deployed[p] \in Nat /\ deployed'[p] \in Nat
  BY KeySetFacts DEF DeployedInv
<1> QED
  BY <1>1 DEF Retiring

-----------------------------------------------------------------------------
(* Rows that are written under the current key of a process.               *)

\* The rows R are inserted or rewritten by process p.
Rekeyed(p, R) ==
  /\ DOMAIN envelopes' = DOMAIN envelopes \cup R
  /\ \A v \in R : \E d \in Draws(v) : envelopes'[v] = Encrypt(v, v, Current(p), d)
  /\ \A v \in DOMAIN envelopes \ R : envelopes'[v] = envelopes[v]

\* Rows that a process writes are records of their own versions.
LEMMA RekeyedTables ==
  ASSUME TablesInv, DeployedInv, NEW p \in Processes, NEW R \in SUBSET Versions, IsFiniteSet(R),
         Rekeyed(p, R), UNCHANGED dumps
  PROVE  TablesInv'
<1>1. Current(p) \in MasterKeys
  BY ProcessKeys
<1>2. ASSUME NEW v \in DOMAIN envelopes' PROVE IsEnvelope(envelopes'[v], v)
  <2>1. CASE v \in R
    BY <1>1, <2>1 DEF Rekeyed, IsEnvelope
  <2>2. CASE v \in DOMAIN envelopes \ R
    BY <2>2 DEF Rekeyed, TablesInv
  <2> QED
    BY <2>1, <2>2 DEF Rekeyed
<1>3. DOMAIN envelopes' \subseteq Versions /\ IsFiniteSet(DOMAIN envelopes')
  BY FS_Union DEF Rekeyed, TablesInv
<1> QED
  BY <1>2, <1>3 DEF TablesInv

\* The key a record is under.
LEMMA RekeyedId ==
  ASSUME NEW p, NEW R, Rekeyed(p, R), NEW v \in R
  PROVE  envelopes'[v].masterKeyId = Current(p)
<1>1. PICK d \in Draws(v) : envelopes'[v] = Encrypt(v, v, Current(p), d)
  BY DEF Rekeyed
<1> QED
  BY <1>1, EncryptedParts

\* No other key gains a row, and it loses those that were rewritten.
LEMMA RekeyedReferences ==
  ASSUME NEW p, NEW R, Rekeyed(p, R), NEW k, k # Current(p)
  PROVE  Referencing(envelopes', k) = Referencing(envelopes, k) \ R
<1>1. ASSUME NEW v \in Referencing(envelopes', k) PROVE v \in Referencing(envelopes, k) \ R
  <2>1. v \in DOMAIN envelopes' /\ envelopes'[v].masterKeyId = k
    BY <1>1 DEF Referencing
  <2>2. v \notin R
    BY <2>1, RekeyedId
  <2> QED
    BY <2>1, <2>2 DEF Rekeyed, Referencing
<1>2. ASSUME NEW v \in Referencing(envelopes, k) \ R PROVE v \in Referencing(envelopes', k)
  BY <1>2 DEF Rekeyed, Referencing
<1> QED
  BY <1>1, <1>2

\* The rows of a key can be counted.
LEMMA LeftFacts ==
  ASSUME TablesInv, NEW k
  PROVE  /\ IsFiniteSet(Referencing(envelopes, k)) /\ Left(k) \in Nat
         /\ Left(k) = 0 <=> Referencing(envelopes, k) = {}
         /\ \A S \in SUBSET Referencing(envelopes, k) :
              IsFiniteSet(S) /\ Cardinality(S) \in Nat /\ Cardinality(S) <= Left(k)
<1>1. Referencing(envelopes, k) \subseteq DOMAIN envelopes /\ IsFiniteSet(DOMAIN envelopes)
  BY DEF Referencing, TablesInv
<1>2. IsFiniteSet(Referencing(envelopes, k))
  BY <1>1, FS_Subset
<1> QED
  BY <1>2, FS_Subset, FS_CardinalityType, FS_EmptySet DEF Left

-----------------------------------------------------------------------------
(* What was counted stays right.                                           *)

\* A step after which no retiring key has more rows than before.
Shrinks ==
  \A k : Retiring(k) => Retiring(k)' /\ Referencing(envelopes', k) \subseteq Referencing(envelopes, k)

\* Rows written by a process shrink what is left of the retiring keys.
LEMMA RekeyedShrinks ==
  ASSUME DeployedInv, NEW p \in Processes, NEW R, Rekeyed(p, R), UNCHANGED deployed
  PROVE  Shrinks
<1> SUFFICES ASSUME NEW k, Retiring(k)
             PROVE  Retiring(k)' /\ Referencing(envelopes', k) \subseteq Referencing(envelopes, k)
  BY DEF Shrinks
<1>1. deployed[p] \in DOMAIN KeySets /\ deployed[p] >= deployed[p]
  BY KeySetFacts DEF DeployedInv
<1>2. k # Current(p)
  BY <1>1 DEF Retiring, Current
<1>3. Retiring(k)'
  BY DEF Retiring
<1> QED
  BY <1>2, <1>3, RekeyedReferences

\* A step that writes no row shrinks nothing.
LEMMA SameShrinks ==
  ASSUME DeployedInv, DeployedInv', \A p \in Processes : deployed'[p] >= deployed[p],
         UNCHANGED envelopes
  PROVE  Shrinks
  BY RetiringKept DEF Shrinks

\* The count of rows does not grow.
LEMMA LeftShrinks ==
  ASSUME TablesInv, Shrinks, NEW k, Retiring(k)
  PROVE  /\ Left(k)' \in Nat /\ Left(k)' <= Left(k)
         /\ Left(k) = 0 => Left(k)' = 0
<1>1. Referencing(envelopes', k) \in SUBSET Referencing(envelopes, k)
  BY DEF Shrinks
<1>2. Left(k)' = Cardinality(Referencing(envelopes', k))
  BY DEF Left
<1> QED
  BY <1>1, <1>2, LeftFacts

\* The progress of a rotation that is left alone stays truthful.
LEMMA TruthKept ==
  ASSUME TablesInv, Shrinks, NEW r, RotationFits(r), RotationTruthful(r)
  PROVE  RotationTruthful(r)'
<1>1. Retiring(r.source) /\ Retiring(r.source)'
  BY DEF RotationTruthful, Shrinks
<1>2. /\ Left(r.source)' \in Nat /\ Left(r.source)' <= Left(r.source)
      /\ Left(r.source) = 0 => Left(r.source)' = 0
  BY <1>1, LeftShrinks
<1>3. Left(r.source) \in Nat /\ r.processed \in Nat /\ r.total \in Nat
  BY LeftFacts DEF RotationFits, Rotation
<1> QED
  BY <1>1, <1>2, <1>3 DEF RotationTruthful

\* So does what a request in progress counted.
LEMMA TaskCountsKept ==
  ASSUME TablesInv, DeployedInv, rollout = "recreate", Shrinks, NEW p \in Processes,
         TaskFits(p), TaskCounts(p), task'[p] = task[p]
  PROVE  TaskCounts(p)'
<1>1. PICK t : t = task[p]
  OBVIOUS
<1>2. t.step = "start" => Left(t.source)' <= t.total
  <2> SUFFICES ASSUME t.step = "start" PROVE Left(t.source)' <= t.total
    OBVIOUS
  <2>1. t.source \in Previous(p) /\ t.total \in Nat /\ Left(t.source) <= t.total
    BY <1>1 DEF TaskFits, TaskCounts
  <2>2. Left(t.source)' \in Nat /\ Left(t.source)' <= Left(t.source) /\ Left(t.source) \in Nat
    BY <2>1, PreviousRetiring, LeftShrinks, LeftFacts
  <2> QED
    BY <2>1, <2>2
<1>3. t.step \in StatusSteps /\ t.clear => Referencing(envelopes', t.key) = {}
  <2> SUFFICES ASSUME t.step \in StatusSteps, t.clear PROVE Referencing(envelopes', t.key) = {}
    OBVIOUS
  <2>1. t.key \in Previous(p) /\ Referencing(envelopes, t.key) = {}
    BY <1>1 DEF TaskFits, TaskCounts
  <2> QED
    BY <2>1, PreviousRetiring DEF Shrinks
<1> QED
  BY <1>1, <1>2, <1>3 DEF TaskCounts

\* Counts stay right when requests end, retiring keys lose rows, and the
\* rotations and answers that are new are right.
LEMMA CountsKept ==
  ASSUME BaseInv, rollout = "recreate", CountsInv, Shrinks,
         \A q \in DOMAIN task' : (q \in DOMAIN task /\ task'[q] = task[q]) \/ TaskCounts(q)',
         \A id \in DOMAIN rotations' :
           (id \in DOMAIN rotations /\ rotations'[id] = rotations[id]) \/ TruthAt(id)',
         \A k \in cleared' : k \in cleared \/ (Retiring(k) /\ Referencing(envelopes, k) = {})
  PROVE  CountsInv'
<1>1. TablesInv /\ DeployedInv /\ TasksInv /\ RotationsInv
  BY DEF BaseInv
<1>2. ASSUME NEW q \in DOMAIN task' PROVE TaskCounts(q)'
  <2> SUFFICES ASSUME q \in DOMAIN task, task'[q] = task[q] PROVE TaskCounts(q)'
    BY <1>2
  <2>1. q \in Processes /\ TaskFits(q) /\ TaskCounts(q)
    BY <1>1 DEF TasksInv, CountsInv
  <2> QED
    BY <1>1, <2>1, TaskCountsKept
<1>3. ASSUME NEW id \in DOMAIN rotations' PROVE TruthAt(id)'
  <2> SUFFICES ASSUME id \in DOMAIN rotations, rotations'[id] = rotations[id]
               PROVE  TruthAt(id)'
    BY <1>3
  <2>1. PICK r : r = rotations[id]
    OBVIOUS
  <2>2. RotationFits(r) /\ RotationTruthful(r)
    BY <1>1, <2>1 DEF RotationsInv, CountsInv, TruthAt
  <2>3. RotationTruthful(r)'
    BY <1>1, <2>2, TruthKept
  <2>4. rotations'[id] = r
    BY <2>1
  <2> QED
    BY <2>3, <2>4 DEF TruthAt, RotationTruthful, Retiring, Left
<1>4. ASSUME NEW k \in cleared' PROVE Retiring(k)' /\ Referencing(envelopes', k) = {}
  <2>1. Retiring(k) /\ Referencing(envelopes, k) = {}
    BY <1>4 DEF CountsInv
  <2> QED
    BY <2>1 DEF Shrinks
<1> QED
  BY <1>2, <1>3, <1>4 DEF CountsInv

-----------------------------------------------------------------------------
(* Requests in progress.                                                   *)

\* Requests that go on keep their keys, their rotation and their rows.
LEMMA TasksKept ==
  ASSUME TasksInv, DOMAIN task' \subseteq DOMAIN task,
         \A q \in DOMAIN task' : task'[q] = task[q] /\ deployed'[q] = deployed[q],
         \A q \in DOMAIN task' : Rewrapping(q) =>
           \A v \in task[q].rows : v \in DOMAIN envelopes' /\ envelopes'[v] = envelopes[v],
         \A q \in DOMAIN task' : task[q].step = "batch" =>
           /\ task[q].id \in DOMAIN rotations'
           /\ rotations'[task[q].id].source = rotations[task[q].id].source
           /\ rotations'[task[q].id].state # "finalized"
  PROVE  TasksInv'
<1>1. ASSUME NEW q \in DOMAIN task' PROVE TaskFits(q)'
  <2>1. PICK t : t = task[q]
    OBVIOUS
  <2>2. task'[q] = t /\ deployed'[q] = deployed[q] /\ TaskFits(q) /\ q \in DOMAIN task
    BY <1>1, <2>1 DEF TasksInv
  <2>3. t.step \in {"batch", "credential"} => 
          \A v \in t.rows : v \in DOMAIN envelopes' /\ envelopes'[v] = envelopes[v]
    BY <1>1, <2>1, <2>2 DEF Rewrapping, Doing
  <2>4. t.step = "batch" =>
          /\ t.id \in DOMAIN rotations' /\ rotations'[t.id].state # "finalized"
          /\ t.rows \subseteq Referencing(envelopes', rotations'[t.id].source)
    BY <1>1, <2>1, <2>2, <2>3 DEF TaskFits, Referencing
  <2>5. t.step = "credential" => t.rows \subseteq DOMAIN envelopes'
    BY <2>3
  <2>6. Previous(q)' = Previous(q)
    BY <2>2 DEF Previous
  <2> QED
    BY <2>1, <2>2, <2>4, <2>5, <2>6 DEF TaskFits, Active
<1>2. \A q \in DOMAIN task' : Rewrapping(q)' => Rewrapping(q)
  BY DEF Rewrapping, Doing
<1> QED
  BY <1>1, <1>2 DEF TasksInv

\* A request that starts or goes on fits, and has rows of its own.
LEMMA TaskSet ==
  ASSUME TasksInv, NEW p \in Processes, UNCHANGED <<envelopes, rotations, deployed>>,
         DOMAIN task' = DOMAIN task \cup {p},
         \A q \in DOMAIN task \ {p} : task'[q] = task[q],
         TaskFits(p)',
         Rewrapping(p)' => \A q \in DOMAIN task \ {p} :
                             Rewrapping(q) => task'[p].rows \cap task[q].rows = {}
  PROVE  TasksInv'
<1>1. ASSUME NEW q \in DOMAIN task \ {p} PROVE TaskFits(q)' /\ (Rewrapping(q)' => Rewrapping(q))
  <2>1. task'[q] = task[q] /\ TaskFits(q) /\ q \in DOMAIN task /\ q \in DOMAIN task'
    BY DEF TasksInv
  <2> QED
    BY <2>1 DEF TaskFits, Active, Previous, Rewrapping, Doing
<1>2. \A q \in DOMAIN task' : TaskFits(q)'
  BY <1>1
<1>3. ASSUME NEW q \in DOMAIN task', NEW r \in DOMAIN task', Rewrapping(q)', Rewrapping(r)', q # r
      PROVE  task'[q].rows \cap task'[r].rows = {}
  <2>1. CASE q = p
    BY <1>1, <1>3, <2>1
  <2>2. CASE r = p
    BY <1>1, <1>3, <2>2
  <2>3. CASE q # p /\ r # p
    BY <1>1, <1>3, <2>3 DEF TasksInv
  <2> QED
    BY <2>1, <2>2, <2>3
<1>4. DOMAIN task' \subseteq Processes
  BY DEF TasksInv
<1> QED
  BY <1>2, <1>3, <1>4 DEF TasksInv

\* A step that touches nothing but the requests.
LEMMA TaskStep ==
  ASSUME KeyInv, TasksInv',
         UNCHANGED <<envelopes, rotations, dumps, backups, deployed, cleared, rollout>>,
         rollout = "recreate" =>
           \A q \in DOMAIN task' : (q \in DOMAIN task /\ task'[q] = task[q]) \/ TaskCounts(q)'
  PROVE  KeyInv'
<1>1. TablesInv' /\ DeployedInv' /\ RotationsInv'
  BY DEF KeyInv, BaseInv, TablesInv, DeployedInv, RotationsInv, Active
<1>2. ASSUME rollout = "recreate" PROVE CountsInv' /\ KeysInv' /\ BackupsInv'
  <2>1. CountsInv /\ KeysInv /\ BackupsInv /\ DeployedInv
    BY <1>2 DEF KeyInv, RecreateInv, BaseInv
  <2>2. \A p \in Processes : deployed'[p] >= deployed[p]
    BY <2>1, KeySetFacts DEF DeployedInv
  <2>3. Shrinks
    BY <1>1, <2>1, <2>2, SameShrinks
  <2>4. CountsInv'
    <3>1. BaseInv /\ \A q \in DOMAIN task' : (q \in DOMAIN task /\ task'[q] = task[q]) \/ TaskCounts(q)'
      BY <1>2 DEF KeyInv
    <3>2. \A id \in DOMAIN rotations' :
            (id \in DOMAIN rotations /\ rotations'[id] = rotations[id]) \/ TruthAt(id)'
      OBVIOUS
    <3>3. \A k \in cleared' : k \in cleared \/ (Retiring(k) /\ Referencing(envelopes, k) = {})
      OBVIOUS
    <3> QED
      BY <1>2, <2>1, <2>3, <3>1, <3>2, <3>3, CountsKept
  <2>5. KeysInv' /\ BackupsInv'
    BY <2>1 DEF KeysInv, BackupsInv, BackupFits, Keyring
  <2> QED
    BY <2>4, <2>5
<1> QED
  BY <1>1, <1>2 DEF KeyInv, BaseInv, RecreateInv

\* The other requests go on when one ends.
LEMMA DoneTasks ==
  ASSUME TasksInv, NEW p, Done(p), UNCHANGED <<envelopes, rotations, deployed>>
  PROVE  /\ TasksInv' /\ DOMAIN task' = DOMAIN task \ {p}
         /\ \A q \in DOMAIN task' : q \in DOMAIN task /\ task'[q] = task[q]
<1>1. DOMAIN task' = DOMAIN task \ {p} /\ \A q \in DOMAIN task' : task'[q] = task[q]
  BY DEF Done, Without
<1>2. ASSUME NEW q \in DOMAIN task'
      PROVE  /\ Rewrapping(q) => \A v \in task[q].rows : v \in DOMAIN envelopes'
             /\ task[q].step = "batch" =>
                  task[q].id \in DOMAIN rotations' /\ rotations'[task[q].id].state # "finalized"
  BY <1>1, <1>2 DEF TasksInv, TaskFits, Rewrapping, Doing, Referencing, Active
<1>3. TasksInv'
  BY <1>1, <1>2, TasksKept
<1> QED
  BY <1>1, <1>3

\* A request that ends without writing: Abort, BatchRefused.
LEMMA DoneStep ==
  ASSUME KeyInv, NEW p, Done(p),
         UNCHANGED <<envelopes, rotations, dumps, backups, deployed, cleared, rollout>>
  PROVE  KeyInv'
<1>1. TasksInv' /\ \A q \in DOMAIN task' : q \in DOMAIN task /\ task'[q] = task[q]
  BY DoneTasks DEF KeyInv, BaseInv
<1> QED
  BY <1>1, TaskStep

\* A request of process p starts or goes on, holding t.
LEMMA SetStep ==
  ASSUME KeyInv, NEW p \in Processes, NEW t, task' = With(task, p, t),
         UNCHANGED <<envelopes, rotations, dumps, backups, deployed, cleared, rollout>>,
         TaskFits(p)', rollout = "recreate" => TaskCounts(p)',
         t.step \in {"batch", "credential"} => t.rows \cap LockedRows = {}
  PROVE  KeyInv'
<1>1. /\ DOMAIN task' = DOMAIN task \cup {p} /\ task'[p] = t
      /\ \A q \in DOMAIN task \ {p} : task'[q] = task[q]
  BY DEF With
<1>2. TasksInv
  BY DEF KeyInv, BaseInv
<1>3. ASSUME Rewrapping(p)', NEW q \in DOMAIN task \ {p}, Rewrapping(q)
      PROVE  task'[p].rows \cap task[q].rows = {}
  <2>1. task[q].rows \subseteq LockedRows
    BY <1>2, <1>3 DEF LockedRows, TasksInv
  <2>2. t.step \in {"batch", "credential"}
    BY <1>1, <1>3 DEF Rewrapping, Doing
  <2> QED
    BY <1>1, <2>1, <2>2
<1>4. TasksInv'
  BY <1>1, <1>2, <1>3, TaskSet
<1>5. rollout = "recreate" =>
        \A q \in DOMAIN task' : (q \in DOMAIN task /\ task'[q] = task[q]) \/ TaskCounts(q)'
  BY <1>1
<1> QED
  BY <1>4, <1>5, TaskStep

\* StartRotation counts the rows of the previous key.
LEMMA StartCountStep ==
  ASSUME KeyInv, NEW p \in Processes, StartCount(p)
  PROVE  KeyInv'
<1>1. PICK source \in Previous(p) :
        task' = With(task, p, [step |-> "start", source |-> source,
                               total |-> Cardinality(Referencing(envelopes, source))])
  BY DEF StartCount
<1>2. UNCHANGED <<envelopes, rotations, dumps, backups, deployed, cleared, rollout>>
  BY DEF StartCount
<1>3. PICK t : t = [step |-> "start", source |-> source, total |-> Left(source)]
  OBVIOUS
<1>4. task' = With(task, p, t)
  BY <1>1, <1>3 DEF Left
<1>5. t.step = "start" /\ t.source = source /\ t.total = Left(source) /\ task'[p] = t
  BY <1>3, <1>4 DEF With
<1>6. Left(source) \in Nat /\ Left(source)' = Left(source)
  BY <1>2, LeftFacts DEF KeyInv, BaseInv, Left
<1>7. TaskFits(p)'
  BY <1>2, <1>5, <1>6 DEF TaskFits, StatusSteps, Previous
<1>8. TaskCounts(p)'
  BY <1>2, <1>5, <1>6 DEF TaskCounts, StatusSteps
<1> QED
  BY <1>2, <1>4, <1>5, <1>7, <1>8, SetStep

\* RotateBatch locks the rotation and rows of its source key.
LEMMA BatchSelectStep ==
  ASSUME KeyInv, NEW p \in Processes, NEW id \in DOMAIN rotations, BatchSelect(p, id)
  PROVE  KeyInv'
<1> DEFINE free == Referencing(envelopes, rotations[id].source) \ LockedRows
<1>1. PICK rows \in SUBSET free : task' = With(task, p, [step |-> "batch", id |-> id, rows |-> rows])
  BY DEF BatchSelect
<1>2. /\ UNCHANGED <<envelopes, rotations, dumps, backups, deployed, cleared, rollout>>
      /\ Active(id)
  BY DEF BatchSelect
<1>3. PICK t : t = [step |-> "batch", id |-> id, rows |-> rows]
  OBVIOUS
<1>4. task' = With(task, p, t)
  BY <1>1, <1>3
<1>5. t.step = "batch" /\ t.id = id /\ t.rows = rows /\ task'[p] = t
  BY <1>3, <1>4 DEF With
<1>6. TaskFits(p)'
  BY <1>1, <1>2, <1>5 DEF TaskFits, StatusSteps, Active
<1>7. TaskCounts(p)'
  BY <1>5 DEF TaskCounts, StatusSteps
<1>8. t.rows \cap LockedRows = {}
  BY <1>1, <1>5
<1> QED
  BY <1>2, <1>4, <1>6, <1>7, <1>8, SetStep

\* RotateCredential locks one row.
LEMMA CredentialLockStep ==
  ASSUME KeyInv, NEW p \in Processes, NEW v, CredentialLock(p, v)
  PROVE  KeyInv'
<1>1. /\ UNCHANGED <<envelopes, rotations, dumps, backups, deployed, cleared, rollout>>
      /\ v \in DOMAIN envelopes \ LockedRows
  BY DEF CredentialLock
<1>2. PICK t : t = [step |-> "credential", rows |-> {v}]
  OBVIOUS
<1>3. task' = With(task, p, t)
  BY <1>2 DEF CredentialLock
<1>4. t.step = "credential" /\ t.rows = {v} /\ task'[p] = t
  BY <1>2, <1>3 DEF With
<1>5. TaskFits(p)' /\ TaskCounts(p)'
  BY <1>1, <1>4 DEF TaskFits, TaskCounts, StatusSteps
<1>6. t.rows \cap LockedRows = {}
  BY <1>1, <1>4
<1> QED
  BY <1>1, <1>3, <1>5, <1>6, SetStep

\* KeyStatus reads the counts.
LEMMA StatusCountsStep ==
  ASSUME KeyInv, NEW p \in Processes, StatusCounts(p)
  PROVE  KeyInv'
<1>1. PICK k \in Previous(p) :
        task' = With(task, p, [step |-> "statusRotation", key |-> k,
                               clear |-> Referencing(envelopes, k) = {}])
  BY DEF StatusCounts
<1>2. UNCHANGED <<envelopes, rotations, dumps, backups, deployed, cleared, rollout>>
  BY DEF StatusCounts
<1>3. PICK t : t = [step |-> "statusRotation", key |-> k, clear |-> Referencing(envelopes, k) = {}]
  OBVIOUS
<1>4. task' = With(task, p, t)
  BY <1>1, <1>3
<1>5. /\ t.step = "statusRotation" /\ t.key = k /\ t.clear = (Referencing(envelopes, k) = {})
      /\ task'[p] = t
  BY <1>3, <1>4 DEF With
<1>6. TaskFits(p)'
  BY <1>1, <1>2, <1>5 DEF TaskFits, StatusSteps, Previous
<1>7. TaskCounts(p)'
  BY <1>2, <1>5 DEF TaskCounts, StatusSteps
<1> QED
  BY <1>2, <1>4, <1>5, <1>6, <1>7, SetStep

\* KeyStatus reads the active rotation.
LEMMA StatusRotationStep ==
  ASSUME KeyInv, NEW p \in Processes, StatusRotation(p)
  PROVE  KeyInv'
<1>1. /\ UNCHANGED <<envelopes, rotations, dumps, backups, deployed, cleared, rollout>>
      /\ p \in DOMAIN task /\ task[p].step = "statusRotation"
  BY DEF StatusRotation, Doing
<1>2. PICK t : t = [step |-> "statusBackups", key |-> task[p].key,
                    clear |-> DatabaseClear(task[p].clear)]
  OBVIOUS
<1>3. task' = With(task, p, t)
  <2>1. task' = [task EXCEPT ![p] = t]
    BY <1>2 DEF StatusRotation
  <2> QED
    BY <1>1, <2>1 DEF With
<1>4. /\ t.step = "statusBackups" /\ t.key = task[p].key /\ task'[p] = t
      /\ t.clear => task[p].clear
  BY <1>2, <1>3 DEF With, DatabaseClear
<1>5. TaskFits(p) /\ (rollout = "recreate" => TaskCounts(p))
  BY <1>1 DEF KeyInv, BaseInv, TasksInv, RecreateInv, CountsInv
<1>6. TaskFits(p)'
  BY <1>1, <1>4, <1>5 DEF TaskFits, StatusSteps, Previous
<1>7. rollout = "recreate" => TaskCounts(p)'
  BY <1>1, <1>4, <1>5 DEF TaskCounts, StatusSteps
<1> QED
  BY <1>1, <1>3, <1>4, <1>6, <1>7, SetStep

-----------------------------------------------------------------------------
(* Rotations and key status.                                               *)

\* The answer of KeyStatus, which the operator notes: a backup that is retained
\* and needs a key noted as clear is one the answer left out.
LEMMA StatusAnswerStep ==
  ASSUME KeyInv, NEW p \in Processes, StatusAnswer(p)
  PROVE  KeyInv'
<1>1. /\ UNCHANGED <<envelopes, rotations, dumps, deployed, rollout>> /\ Done(p)
      /\ p \in DOMAIN task /\ task[p].step = "statusBackups"
  BY DEF StatusAnswer, Doing
<1>2. TablesInv /\ DeployedInv /\ RotationsInv /\ TasksInv /\ TaskFits(p)
  BY <1>1 DEF KeyInv, BaseInv, TasksInv
<1>3. PICK k : k = task[p].key
  OBVIOUS
<1>4. k \in Previous(p) /\ k \in MasterKeys
  BY <1>1, <1>2, <1>3, ProcessKeys DEF TaskFits, StatusSteps
<1>5. \/ cleared' = cleared /\ backups' = backups
      \/ /\ cleared' = cleared \cup {k} /\ task[p].clear
         /\ \E references \in ReferencesRead(k) :
              /\ references = {}
              /\ backups' = [b \in DOMAIN backups |->
                   [backups[b] EXCEPT !.missed = @ \/ b \in Retained(k) \ references]]
  BY <1>3 DEF StatusAnswer, BackupsClear
<1>6. TablesInv' /\ DeployedInv' /\ RotationsInv'
  BY <1>1, <1>2, <1>4, <1>5 DEF TablesInv, DeployedInv, RotationsInv, Active
<1>7. /\ TasksInv' /\ \A q \in DOMAIN task' : q \in DOMAIN task /\ task'[q] = task[q]
  BY <1>1, <1>2, DoneTasks
<1>8. ASSUME rollout = "recreate" PROVE CountsInv' /\ KeysInv' /\ BackupsInv'
  <2>1. CountsInv /\ KeysInv /\ BackupsInv /\ BaseInv
    BY <1>8 DEF KeyInv, RecreateInv
  <2>2. \A q \in Processes : deployed'[q] >= deployed[q]
    BY <1>1, <1>2, KeySetFacts DEF DeployedInv
  <2>3. Shrinks
    BY <1>1, <1>2, <1>6, <2>2, SameShrinks
  <2>4. ASSUME NEW j \in cleared' PROVE j \in cleared \/ (Retiring(j) /\ Referencing(envelopes, j) = {})
    <3>1. TaskCounts(p)
      BY <1>1, <2>1 DEF CountsInv
    <3>2. task[p].clear => Referencing(envelopes, k) = {}
      BY <1>1, <1>3, <3>1 DEF TaskCounts, StatusSteps
    <3>3. Retiring(k)
      BY <1>2, <1>4, <1>8, PreviousRetiring
    <3> QED
      BY <1>5, <2>4, <3>2, <3>3
  <2>5. \A id \in DOMAIN rotations' : id \in DOMAIN rotations /\ rotations'[id] = rotations[id]
    BY <1>1
  <2>6. CountsInv'
    BY <1>7, <1>8, <2>1, <2>3, <2>4, <2>5, CountsKept
  <2>7. KeysInv'
    BY <1>1, <1>5, <2>1 DEF KeysInv, Keyring
  <2>8. CASE cleared' = cleared /\ backups' = backups
    <3>1. BackupsInv'
      BY <1>1, <2>1, <2>8 DEF BackupsInv, BackupFits
    <3> QED
      BY <2>6, <2>7, <3>1
  <2>9. CASE /\ cleared' = cleared \cup {k}
             /\ backups' = [b \in DOMAIN backups |->
                  [backups[b] EXCEPT !.missed = @ \/ b \in Retained(k)]]
    <3>1. ASSUME NEW b \in DOMAIN backups' PROVE BackupFits(b)'
      <4>1. b \in DOMAIN backups /\ BackupFits(b)
        BY <2>1, <2>9, <3>1 DEF BackupsInv
      <4>2. backups'[b] = [backups[b] EXCEPT !.missed = @ \/ b \in Retained(k)]
        BY <2>9, <4>1
      <4>3. /\ DOMAIN backups'[b] = {"keys", "expired", "late", "missed"}
            /\ backups'[b].keys = backups[b].keys
            /\ backups'[b].expired = backups[b].expired /\ backups'[b].late = backups[b].late
            /\ backups'[b].missed = (backups[b].missed \/ b \in Retained(k))
        BY <4>1, <4>2 DEF BackupFits
      <4>4. b \in Retained(k) \/ backups[b].expired \/ k \notin backups[b].keys
        BY <4>1 DEF Retained
      <4> QED
        BY <1>1, <2>9, <4>1, <4>3, <4>4 DEF BackupFits
    <3> QED
      BY <2>6, <2>7, <3>1 DEF BackupsInv
  <2> QED
    BY <1>5, <2>8, <2>9
<1> QED
  BY <1>1, <1>6, <1>7, <1>8 DEF KeyInv, BaseInv, RecreateInv

\* A step that writes rows or rotations but neither dumps, backups, key files
\* nor answers.
LEMMA WorkStep ==
  ASSUME KeyInv, UNCHANGED <<dumps, backups, deployed, cleared, rollout>>,
         TablesInv', RotationsInv', TasksInv', rollout = "recreate" => CountsInv' /\ KeysInv'
  PROVE  KeyInv'
<1>1. DeployedInv'
  BY DEF KeyInv, BaseInv, DeployedInv
<1>2. rollout = "recreate" => BackupsInv'
  BY DEF KeyInv, RecreateInv, BackupsInv, BackupFits
<1> QED
  BY <1>1, <1>2 DEF KeyInv, BaseInv, RecreateInv

\* StartRotation inserts a rotation when none is active.
LEMMA StartCommitStep ==
  ASSUME KeyInv, NEW p \in Processes, StartCommit(p)
  PROVE  KeyInv'
<1>1. /\ UNCHANGED <<envelopes, dumps, backups, deployed, cleared, rollout>> /\ Done(p)
      /\ p \in DOMAIN task /\ task[p].step = "start"
  BY DEF StartCommit, Doing
<1>2. TablesInv /\ DeployedInv /\ RotationsInv /\ TasksInv /\ TaskFits(p)
  BY <1>1 DEF KeyInv, BaseInv, TasksInv
<1>3. CASE ~NoneActive
  <2>1. UNCHANGED rotations
    BY <1>3 DEF StartCommit
  <2> QED
    BY <1>1, <2>1, DoneStep
<1>4. CASE NoneActive
  <2>1. PICK r : r = NewRotation(task[p].source, Current(p), task[p].total)
    OBVIOUS
  <2>2. rotations' = Append(rotations, r)
    BY <1>4, <2>1 DEF StartCommit
  <2>3. task[p].source \in Previous(p) /\ task[p].total \in Nat
    BY <1>1, <1>2 DEF TaskFits
  <2>4. /\ r.source = task[p].source /\ r.target = Current(p) /\ r.total = task[p].total
        /\ r.processed = 0 /\ r.state = IF r.total = 0 THEN "ready" ELSE "pending"
        /\ r = [source |-> r.source, target |-> r.target, total |-> r.total,
                processed |-> r.processed, state |-> r.state]
    BY <2>1 DEF NewRotation
  <2>5. /\ r.source \in MasterKeys /\ r.target \in MasterKeys /\ r.source # r.target
    BY <1>2, <2>3, <2>4, ProcessKeys
  <2>6. RotationFits(r)
    <3>1. r.state \in States /\ r.total \in Nat /\ r.processed \in Nat /\ r.processed <= r.total
      BY <2>3, <2>4 DEF States
    <3> QED
      BY <2>4, <2>5, <3>1 DEF RotationFits, Rotation
  <2>7. rotations \in Seq(Rotation) /\ r \in Rotation
    BY <1>2, <2>6 DEF RotationsInv, RotationFits
  <2>8. /\ rotations' \in Seq(Rotation) /\ Len(rotations') = Len(rotations) + 1
        /\ \A i \in 1 .. Len(rotations) : rotations'[i] = rotations[i]
        /\ rotations'[Len(rotations) + 1] = r
    <3> HIDE DEF Rotation
    <3> QED
      BY <2>2, <2>7, AppendProperties
  <2>9. /\ DOMAIN rotations = 1 .. Len(rotations) /\ Len(rotations) \in Nat
        /\ DOMAIN rotations' = 1 .. (Len(rotations) + 1)
    BY <2>7, <2>8
  <2>10. ASSUME NEW id \in DOMAIN rotations'
         PROVE  \/ id \in DOMAIN rotations /\ rotations'[id] = rotations[id]
                \/ id \notin DOMAIN rotations /\ rotations'[id] = r
    BY <2>8, <2>9
  <2>11. RotationsInv'
    <3>1. \A id \in DOMAIN rotations' : RotationFits(rotations'[id])
      BY <1>2, <2>6, <2>10 DEF RotationsInv
    <3>2. \A i, j \in DOMAIN rotations' : Active(i)' /\ Active(j)' => i = j
      <4>1. \A i \in DOMAIN rotations : rotations[i].state = "finalized"
        BY <1>4 DEF NoneActive, Active
      <4>2. \A i \in DOMAIN rotations' : Active(i)' => i = Len(rotations) + 1
        BY <2>9, <2>10, <4>1 DEF Active
      <4> QED
        BY <4>2
    <3> QED
      BY <2>8, <3>1, <3>2 DEF RotationsInv
  <2>12. \A id \in DOMAIN rotations : id \in DOMAIN rotations' /\ rotations'[id] = rotations[id]
    BY <2>8, <2>9
  <2>13. DOMAIN task' = DOMAIN task \ {p} /\ \A q \in DOMAIN task' : q \in DOMAIN task /\ task'[q] = task[q]
    BY <1>1 DEF Done, Without
  <2>14. TasksInv'
    <3>1. ASSUME NEW q \in DOMAIN task'
          PROVE  /\ Rewrapping(q) => \A v \in task[q].rows : v \in DOMAIN envelopes'
                 /\ task[q].step = "batch" =>
                      /\ task[q].id \in DOMAIN rotations'
                      /\ rotations'[task[q].id].source = rotations[task[q].id].source
                      /\ rotations'[task[q].id].state # "finalized"
      BY <1>1, <1>2, <2>12, <2>13, <3>1 DEF TasksInv, TaskFits, Rewrapping, Doing, Referencing, Active
    <3> QED
      BY <1>1, <1>2, <2>13, <3>1, TasksKept
  <2>15. ASSUME rollout = "recreate" PROVE CountsInv' /\ KeysInv'
    <3>1. CountsInv /\ KeysInv /\ BaseInv /\ TaskCounts(p)
      BY <1>1, <2>15 DEF KeyInv, RecreateInv, CountsInv
    <3>2. Shrinks
      <4>1. DeployedInv' /\ \A q \in Processes : deployed'[q] >= deployed[q]
        BY <1>1, <1>2, KeySetFacts DEF DeployedInv
      <4> QED
        BY <1>1, <1>2, <4>1, SameShrinks
    <3>3. RotationTruthful(r)'
      <4>1. Retiring(r.source)
        BY <1>2, <2>3, <2>4, <2>15, PreviousRetiring
      <4>2. Left(r.source) \in Nat /\ Left(r.source) <= r.total /\ r.total \in Nat
        BY <1>1, <1>2, <2>3, <2>4, <3>1, LeftFacts DEF TaskCounts
      <4>3. RotationTruthful(r)
        BY <2>4, <4>1, <4>2 DEF RotationTruthful
      <4> QED
        BY <1>2, <2>6, <3>2, <4>3, TruthKept
    <3>4. ASSUME NEW id \in DOMAIN rotations'
          PROVE  (id \in DOMAIN rotations /\ rotations'[id] = rotations[id]) \/ TruthAt(id)'
      <4>1. CASE rotations'[id] = r
        BY <3>3, <4>1 DEF TruthAt, RotationTruthful, Retiring, Left
      <4> QED
        BY <2>10, <4>1
    <3>5. \A k \in cleared' : k \in cleared
      BY <1>1
    <3>6. CountsInv'
      BY <2>13, <2>15, <3>1, <3>2, <3>4, <3>5, CountsKept
    <3> QED
      BY <1>1, <3>1, <3>6 DEF KeysInv, Keyring
  <2>16. TablesInv'
    BY <1>1, <1>2 DEF TablesInv
  <2> QED
    BY <1>1, <2>11, <2>14, <2>15, <2>16, WorkStep
<1> QED
  BY <1>3, <1>4

\* A rotation is replaced by another that fits; none becomes active.
LEMMA ReplaceRotation ==
  ASSUME RotationsInv, NEW id \in DOMAIN rotations, NEW s, RotationFits(s),
         rotations' = [rotations EXCEPT ![id] = s], s.state # "finalized" => Active(id)
  PROVE  /\ RotationsInv' /\ DOMAIN rotations' = DOMAIN rotations /\ rotations'[id] = s
         /\ \A i \in DOMAIN rotations \ {id} : rotations'[i] = rotations[i]
<1>1. /\ DOMAIN rotations' = DOMAIN rotations /\ rotations'[id] = s
      /\ \A i \in DOMAIN rotations \ {id} : rotations'[i] = rotations[i]
  OBVIOUS
<1>2. rotations' \in Seq(Rotation)
  <2>1. rotations \in Seq(Rotation) /\ s \in Rotation
    BY DEF RotationsInv, RotationFits
  <2> HIDE DEF Rotation
  <2> QED
    BY <2>1
<1>3. \A i \in DOMAIN rotations' : RotationFits(rotations'[i])
  BY <1>1 DEF RotationsInv
<1>4. \A i \in DOMAIN rotations' : Active(i)' => Active(i)
  BY <1>1 DEF Active
<1> QED
  BY <1>1, <1>2, <1>3, <1>4 DEF RotationsInv

\* Counts of rotations after one of them was replaced.
LEMMA ReplaceTruth ==
  ASSUME NEW id \in DOMAIN rotations, NEW s, RotationTruthful(s)', rotations'[id] = s,
         DOMAIN rotations' = DOMAIN rotations,
         \A i \in DOMAIN rotations \ {id} : rotations'[i] = rotations[i]
  PROVE  \A i \in DOMAIN rotations' :
           (i \in DOMAIN rotations /\ rotations'[i] = rotations[i]) \/ TruthAt(i)'
<1>1. TruthAt(id)'
  BY DEF TruthAt, RotationTruthful, Retiring, Left
<1> QED
  BY <1>1

\* FinalizeRotation: no row of the source key is left, no batch is running.
LEMMA FinalizeStep ==
  ASSUME KeyInv, NEW id \in DOMAIN rotations, Finalize(id)
  PROVE  KeyInv'
<1>1. /\ UNCHANGED <<envelopes, dumps, backups, deployed, task, cleared, rollout>>
      /\ ~Batching(id) /\ Finalizable(rotations[id])
  BY DEF Finalize
<1>2. TablesInv /\ DeployedInv /\ RotationsInv /\ TasksInv
  BY DEF KeyInv, BaseInv
<1>3. PICK r : r = rotations[id]
  OBVIOUS
<1>4. PICK s : s = [r EXCEPT !.state = "finalized"]
  OBVIOUS
<1>5. rotations' = [rotations EXCEPT ![id] = s]
  BY <1>3, <1>4 DEF Finalize
<1>6. RotationFits(r)
  BY <1>2, <1>3 DEF RotationsInv
<1>7. /\ s.source = r.source /\ s.target = r.target /\ s.total = r.total
      /\ s.processed = r.processed /\ s.state = "finalized" /\ RotationFits(s)
  BY <1>4, <1>6 DEF RotationFits, Rotation, States
<1>8. /\ RotationsInv' /\ DOMAIN rotations' = DOMAIN rotations /\ rotations'[id] = s
      /\ \A i \in DOMAIN rotations \ {id} : rotations'[i] = rotations[i]
  BY <1>2, <1>5, <1>7, ReplaceRotation
<1>9. TasksInv'
  <2>1. ASSUME NEW q \in DOMAIN task'
        PROVE  /\ Rewrapping(q) => \A v \in task[q].rows : v \in DOMAIN envelopes'
               /\ task[q].step = "batch" =>
                    /\ task[q].id \in DOMAIN rotations'
                    /\ rotations'[task[q].id].source = rotations[task[q].id].source
                    /\ rotations'[task[q].id].state # "finalized"
    <3>1. q \in DOMAIN task /\ TaskFits(q)
      BY <1>1, <1>2 DEF TasksInv
    <3>2. Rewrapping(q) => \A v \in task[q].rows : v \in DOMAIN envelopes'
      BY <1>1, <3>1 DEF TaskFits, Rewrapping, Doing, Referencing
    <3>3. task[q].step = "batch" => task[q].id \in DOMAIN rotations \ {id} /\ Active(task[q].id)
      BY <1>1, <3>1 DEF Batching, TaskFits
    <3>4. task[q].step = "batch" => rotations'[task[q].id] = rotations[task[q].id]
      BY <1>8, <3>3
    <3> QED
      BY <1>8, <3>2, <3>3, <3>4 DEF Active
  <2> QED
    BY <1>1, <1>2, <2>1, TasksKept
<1>10. ASSUME rollout = "recreate" PROVE CountsInv' /\ KeysInv'
  <2>1. CountsInv /\ KeysInv /\ BaseInv
    BY <1>10 DEF KeyInv, RecreateInv
  <2>2. Shrinks
    <3>1. DeployedInv' /\ \A q \in Processes : deployed'[q] >= deployed[q]
      BY <1>1, <1>2, KeySetFacts DEF DeployedInv
    <3> QED
      BY <1>1, <1>2, <3>1, SameShrinks
  <2>3. RotationTruthful(s)
    <3>1. RotationTruthful(r)
      BY <1>3, <2>1 DEF CountsInv, TruthAt
    <3>2. r.state = "ready"
      BY <1>1, <1>3 DEF Finalizable
    <3> QED
      BY <1>7, <3>1, <3>2 DEF RotationTruthful
  <2>4. RotationTruthful(s)'
    BY <1>2, <1>7, <2>2, <2>3, TruthKept
  <2>5. \A i \in DOMAIN rotations' :
          (i \in DOMAIN rotations /\ rotations'[i] = rotations[i]) \/ TruthAt(i)'
    BY <1>8, <2>4, ReplaceTruth
  <2>6. \A q \in DOMAIN task' : q \in DOMAIN task /\ task'[q] = task[q]
    BY <1>1
  <2>7. \A k \in cleared' : k \in cleared
    BY <1>1
  <2>8. CountsInv'
    BY <1>10, <2>1, <2>2, <2>5, <2>6, <2>7, CountsKept
  <2> QED
    BY <1>1, <2>1, <2>8 DEF KeysInv, Keyring
<1>11. TablesInv'
  BY <1>1, <1>2 DEF TablesInv
<1> QED
  BY <1>1, <1>8, <1>9, <1>10, <1>11, WorkStep

-----------------------------------------------------------------------------
(* Rows that are written.                                                  *)

\* Rows written by a process keep every record readable.
LEMMA RekeyedKeys ==
  ASSUME BaseInv, rollout = "recreate", KeysInv, NEW p \in Processes, NEW R, Rekeyed(p, R),
         UNCHANGED <<dumps, deployed, cleared>>
  PROVE  KeysInv'
<1>1. DeployedInv /\ \A q \in Processes : Keyring(q) = Keyring(p) /\ Keyring(q)' = Keyring(q)
  BY DEF BaseInv, DeployedInv, Keyring
<1>2. Current(p) \in Keyring(p)
  BY <1>1, ProcessKeys
<1>3. ASSUME NEW v \in DOMAIN envelopes', NEW q \in Processes
      PROVE  envelopes'[v].masterKeyId \in Keyring(q)'
  <2>1. CASE v \in R
    BY <1>1, <1>2, <2>1, RekeyedId
  <2>2. CASE v \in DOMAIN envelopes \ R
    BY <1>1, <2>2 DEF Rekeyed, KeysInv
  <2> QED
    BY <2>1, <2>2 DEF Rekeyed
<1> QED
  BY <1>1, <1>3 DEF KeysInv

\* A process writes rows that no other request holds, and ends its own.
LEMMA RekeyedStep ==
  ASSUME KeyInv, NEW p \in Processes, NEW R \in SUBSET Versions, IsFiniteSet(R), Rekeyed(p, R),
         UNCHANGED <<dumps, backups, deployed, cleared, rollout>>, RotationsInv',
         \A q \in DOMAIN task' :
           /\ q \in DOMAIN task /\ task'[q] = task[q]
           /\ Rewrapping(q) => task[q].rows \cap R = {}
           /\ task[q].step = "batch" =>
                /\ task[q].id \in DOMAIN rotations'
                /\ rotations'[task[q].id].source = rotations[task[q].id].source
                /\ rotations'[task[q].id].state # "finalized",
         rollout = "recreate" => \A i \in DOMAIN rotations' :
           (i \in DOMAIN rotations /\ rotations'[i] = rotations[i]) \/ TruthAt(i)'
  PROVE  KeyInv'
<1>1. TablesInv /\ DeployedInv /\ TasksInv /\ BaseInv
  BY DEF KeyInv, BaseInv
<1>2. TablesInv'
  BY <1>1, RekeyedTables
<1>3. TasksInv'
  <2>1. ASSUME NEW q \in DOMAIN task', Rewrapping(q), NEW v \in task[q].rows
        PROVE  v \in DOMAIN envelopes' /\ envelopes'[v] = envelopes[v]
    <3>1. q \in DOMAIN task /\ TaskFits(q) /\ v \notin R
      BY <1>1, <2>1 DEF TasksInv
    <3>2. v \in DOMAIN envelopes
      BY <2>1, <3>1 DEF TaskFits, Rewrapping, Doing, Referencing
    <3> QED
      BY <3>1, <3>2 DEF Rekeyed
  <2> QED
    BY <1>1, <2>1, TasksKept
<1>4. rollout = "recreate" => CountsInv' /\ KeysInv'
  <2> SUFFICES ASSUME rollout = "recreate" PROVE CountsInv' /\ KeysInv'
    OBVIOUS
  <2>1. CountsInv /\ KeysInv
    BY DEF KeyInv, RecreateInv
  <2>2. Shrinks
    BY <1>1, RekeyedShrinks
  <2>3. \A k \in cleared' : k \in cleared
    OBVIOUS
  <2>4. CountsInv'
    BY <1>1, <2>1, <2>2, <2>3, CountsKept
  <2> QED
    BY <1>1, <2>1, <2>4, RekeyedKeys
<1> QED
  BY <1>2, <1>3, <1>4, WorkStep

\* The rows that requests hold exist.
LEMMA RowsExist ==
  ASSUME TasksInv, NEW q \in DOMAIN task, Rewrapping(q)
  PROVE  task[q].rows \subseteq DOMAIN envelopes
  BY DEF TasksInv, TaskFits, Rewrapping, Doing, Referencing

\* The rotation of a batch in progress is active.
LEMMA BatchActive ==
  ASSUME TasksInv, NEW q \in DOMAIN task, task[q].step = "batch"
  PROVE  task[q].id \in DOMAIN rotations /\ rotations[task[q].id].state # "finalized"
  BY DEF TasksInv, TaskFits, Active

\* Create, ReplaceInputs, UpdateMetadata and Retire insert a version.
LEMMA WriteStep ==
  ASSUME KeyInv, NEW p \in Processes, NEW v \in Versions, Write(p, v)
  PROVE  KeyInv'
<1>1. /\ UNCHANGED <<rotations, dumps, backups, deployed, task, cleared, rollout>>
      /\ v \notin DOMAIN envelopes
      /\ envelopes' = With(envelopes, v, Encrypt(v, v, Current(p), <<v, "written">>))
  BY DEF Write
<1>2. Rekeyed(p, {v})
  BY <1>1 DEF Rekeyed, With, Draws
<1>3. TasksInv /\ RotationsInv
  BY DEF KeyInv, BaseInv
<1>4. IsFiniteSet({v}) /\ {v} \in SUBSET Versions
  BY FS_Singleton
<1>5. RotationsInv'
  BY <1>1, <1>3 DEF RotationsInv, Active
<1>6. ASSUME NEW q \in DOMAIN task'
      PROVE  /\ q \in DOMAIN task /\ task'[q] = task[q]
             /\ Rewrapping(q) => task[q].rows \cap {v} = {}
             /\ task[q].step = "batch" =>
                  /\ task[q].id \in DOMAIN rotations'
                  /\ rotations'[task[q].id].source = rotations[task[q].id].source
                  /\ rotations'[task[q].id].state # "finalized"
  BY <1>1, <1>3, RowsExist, BatchActive
<1>7. \A i \in DOMAIN rotations' : i \in DOMAIN rotations /\ rotations'[i] = rotations[i]
  BY <1>1
<1> QED
  BY <1>1, <1>2, <1>4, <1>5, <1>6, <1>7, RekeyedStep

\* What a transform finds authentic is a record under a loaded key.
LEMMA Authentic ==
  ASSUME NEW r, NEW expected, NEW keyring, NEW target, NEW draw,
         Rewrap(r, expected, keyring, target) # {} \/
           RotateDataKey(r, expected, keyring, target, draw) # {}
  PROVE  r.masterKeyId \in keyring
<1>1. unwrapDataKey(r, expected, keyring) # {}
  BY DEF Rewrap, RotateDataKey, Decrypt
<1> QED
  BY <1>1 DEF unwrapDataKey

\* The parts of a stored record.
LEMMA StoredRecord ==
  ASSUME TablesInv, NEW v \in DOMAIN envelopes
  PROVE  /\ envelopes[v].masterKeyId \in MasterKeys /\ envelopes[v].context = v
         /\ \E d \in Draws(v) : envelopes[v] = Encrypt(v, v, envelopes[v].masterKeyId, d)
<1>1. PICK k \in MasterKeys, d \in Draws(v) : envelopes[v] = Encrypt(v, v, k, d)
  BY DEF TablesInv, IsEnvelope
<1>2. envelopes[v].masterKeyId = k /\ envelopes[v].context = v
  BY <1>1, EncryptedParts
<1> QED
  BY <1>1, <1>2

\* RotateCredential writes its row under a new data key.
LEMMA CredentialCommitStep ==
  ASSUME KeyInv, NEW p \in Processes, CredentialCommit(p)
  PROVE  KeyInv'
<1>1. /\ UNCHANGED <<rotations, dumps, backups, deployed, cleared, rollout>> /\ Done(p)
      /\ p \in DOMAIN task /\ task[p].step = "credential"
  BY DEF CredentialCommit, Doing
<1>2. TablesInv /\ TasksInv /\ RotationsInv /\ Rewrapping(p)
  BY <1>1 DEF KeyInv, BaseInv, Rewrapping, Doing
<1>3. PICK v \in task[p].rows :
        \E r \in RotateDataKey(envelopes[v], v, Keyring(p), Current(p), <<v, "rotated">>) :
          envelopes' = [envelopes EXCEPT ![v] = r]
  BY DEF CredentialCommit
<1>4. PICK r \in RotateDataKey(envelopes[v], v, Keyring(p), Current(p), <<v, "rotated">>) :
        envelopes' = [envelopes EXCEPT ![v] = r]
  BY <1>3
<1>5. v \in DOMAIN envelopes /\ v \in Versions
  BY <1>1, <1>2, <1>3, RowsExist DEF TablesInv
<1>6. PICK k, d : k = envelopes[v].masterKeyId /\ envelopes[v] = Encrypt(v, v, k, d)
  BY <1>2, <1>5, StoredRecord
<1>7. k \in Keyring(p)
  BY <1>4, <1>6, Authentic
<1>8. r = Encrypt(v, v, Current(p), <<v, "rotated">>)
  BY <1>4, <1>6, <1>7, RotateEncrypted
<1>9. Rekeyed(p, {v})
  BY <1>4, <1>5, <1>8 DEF Rekeyed, Draws
<1>10. RotationsInv'
  BY <1>1, <1>2 DEF RotationsInv, Active
<1>11. ASSUME NEW q \in DOMAIN task'
       PROVE  /\ q \in DOMAIN task /\ task'[q] = task[q]
              /\ Rewrapping(q) => task[q].rows \cap {v} = {}
              /\ task[q].step = "batch" =>
                   /\ task[q].id \in DOMAIN rotations'
                   /\ rotations'[task[q].id].source = rotations[task[q].id].source
                   /\ rotations'[task[q].id].state # "finalized"
  <2>1. q \in DOMAIN task /\ q # p /\ task'[q] = task[q]
    BY <1>1 DEF Done, Without
  <2>2. Rewrapping(q) => task[q].rows \cap task[p].rows = {}
    BY <1>1, <1>2, <2>1 DEF TasksInv
  <2> QED
    BY <1>1, <1>2, <1>3, <2>1, <2>2, BatchActive
<1>12. \A i \in DOMAIN rotations' : i \in DOMAIN rotations /\ rotations'[i] = rotations[i]
  BY <1>1
<1>13. IsFiniteSet({v}) /\ {v} \in SUBSET Versions
  BY <1>5, FS_Singleton
<1> QED
  BY <1>1, <1>9, <1>10, <1>11, <1>12, <1>13, RekeyedStep

\* The progress RotateBatch writes.
LEMMA AfterBatchFields ==
  ASSUME NEW r, RotationFits(r), NEW n \in Nat, NEW remaining
  PROVE  LET s == AfterBatch(r, n, remaining) IN
         /\ s = [source |-> r.source, target |-> r.target, state |-> s.state, total |-> r.total,
                 processed |-> s.processed]
         /\ s.state = IF remaining = 0 THEN "ready" ELSE "running"
         /\ s.processed = IF remaining = 0 THEN r.total ELSE r.processed + n
<1>1. r = [source |-> r.source, target |-> r.target, state |-> r.state, total |-> r.total,
           processed |-> r.processed]
  BY DEF RotationFits, Rotation
<1>2. PICK total, processed : total = r.total /\ processed = r.processed + n
  OBVIOUS
<1>3. CASE remaining = 0
  <2>1. AfterBatch(r, n, remaining) = [r EXCEPT !.processed = total, !.state = "ready"]
    BY <1>2, <1>3 DEF AfterBatch
  <2> QED
    BY <1>1, <1>2, <1>3, <2>1
<1>4. CASE remaining # 0
  <2>1. AfterBatch(r, n, remaining) = [r EXCEPT !.processed = processed, !.state = "running"]
    BY <1>2, <1>4 DEF AfterBatch
  <2> QED
    BY <1>1, <1>2, <1>4, <2>1
<1> QED
  BY <1>3, <1>4

\* BatchCommit rewraps rows that are all under the source key, and writes the
\* progress of the rotation it locked.
LEMMA BatchFacts ==
  ASSUME BaseInv, NEW p \in Processes, BatchCommit(p), NEW id, id = task[p].id,
         NEW rows, rows = task[p].rows, NEW r, r = rotations[id], NEW s, s = BatchResult(p)
  PROVE  /\ p \in DOMAIN task /\ task[p].step = "batch"
         /\ id \in DOMAIN rotations /\ RotationFits(r) /\ r.state # "finalized"
         /\ rows \subseteq Referencing(envelopes, r.source) /\ rows \subseteq Versions
         /\ IsFiniteSet(rows) /\ Cardinality(rows) \in Nat
         /\ Rekeyed(p, rows)
         /\ rotations' = [rotations EXCEPT ![id] = s]
         /\ RotationFits(s) /\ s.source = r.source /\ s.target = r.target /\ s.total = r.total
         /\ s.state = IF Left(r.source)' = 0 THEN "ready" ELSE "running"
         /\ s.processed = IF Left(r.source)' = 0 THEN r.total ELSE r.processed + Cardinality(rows)
<1>1. /\ p \in DOMAIN task /\ task[p].step = "batch" /\ BatchAllowed(p)
      /\ envelopes' = Rewrapped(p)
      /\ rotations' = [rotations EXCEPT ![task[p].id] = BatchResult(p)]
  BY DEF BatchCommit, Doing
<1>2. TablesInv /\ DeployedInv /\ TasksInv /\ RotationsInv
  BY DEF BaseInv
<1>3. id = task[p].id /\ rows = task[p].rows /\ r = rotations[id]
  OBVIOUS
<1>4. /\ id \in DOMAIN rotations /\ r.state # "finalized"
      /\ rows \subseteq Referencing(envelopes, r.source)
  BY <1>1, <1>2, <1>3 DEF TasksInv, TaskFits, Active
<1>5. RotationFits(r)
  BY <1>2, <1>3, <1>4 DEF RotationsInv
<1>6. rows \subseteq DOMAIN envelopes /\ rows \subseteq Versions
  BY <1>2, <1>4 DEF Referencing, TablesInv
<1>7. IsFiniteSet(rows) /\ Cardinality(rows) \in Nat
  BY <1>2, <1>4, LeftFacts
<1>8. ASSUME NEW v \in rows
      PROVE  \E d \in Draws(v) : envelopes'[v] = Encrypt(v, v, Current(p), d)
  <2>1. v \in DOMAIN envelopes
    BY <1>6
  <2>2. PICK k : \E d \in Draws(v) :
                   k = envelopes[v].masterKeyId /\ envelopes[v] = Encrypt(v, v, k, d)
    BY <1>2, <2>1, StoredRecord
  <2> PICK d \in Draws(v) : k = envelopes[v].masterKeyId /\ envelopes[v] = Encrypt(v, v, k, d)
    BY <2>2
  <2>3. Transformed(p, v) # {}
    BY <1>1, <1>3 DEF BatchAllowed
  <2>4. k \in Keyring(p)
    BY <2>2, <2>3, Authentic DEF Transformed
  <2>5. Transformed(p, v) = {Encrypt(v, v, Current(p), d)}
    BY <2>2, <2>4, RewrapEncrypted DEF Transformed
  <2>6. \A S, x : S = {x} => (CHOOSE y \in S : TRUE) = x
    OBVIOUS
  <2>7. envelopes'[v] = CHOOSE y \in Transformed(p, v) : TRUE
    BY <1>1, <1>3, <2>1 DEF Rewrapped
  <2> QED
    BY <2>5, <2>6, <2>7
<1>9. Rekeyed(p, rows)
  <2>1. DOMAIN envelopes' = DOMAIN envelopes \cup rows
    BY <1>1, <1>6 DEF Rewrapped
  <2>2. \A v \in DOMAIN envelopes \ rows : envelopes'[v] = envelopes[v]
    BY <1>1, <1>3 DEF Rewrapped
  <2> QED
    BY <1>8, <2>1, <2>2 DEF Rekeyed
<1>10. s = BatchResult(p)
  OBVIOUS
<1>11. s = AfterBatch(r, Cardinality(rows), Left(r.source)')
  BY <1>1, <1>3, <1>10 DEF BatchResult, Left
<1>12. /\ s = [source |-> r.source, target |-> r.target, state |-> s.state, total |-> r.total,
               processed |-> s.processed]
       /\ s.state = IF Left(r.source)' = 0 THEN "ready" ELSE "running"
       /\ s.processed = IF Left(r.source)' = 0 THEN r.total ELSE r.processed + Cardinality(rows)
  BY <1>5, <1>7, <1>11, AfterBatchFields
<1>13. s.source = r.source /\ s.target = r.target /\ s.total = r.total /\ s.processed <= s.total
  BY <1>1, <1>10, <1>12 DEF BatchAllowed
<1>14. RotationFits(s)
  <2>1. /\ r.source \in MasterKeys /\ r.target \in MasterKeys /\ r.total \in Nat
        /\ r.processed \in Nat /\ r.source # r.target
    BY <1>5 DEF RotationFits, Rotation
  <2>2. s.processed \in Nat /\ s.state \in States
    BY <1>7, <1>12, <2>1 DEF States
  <2> QED
    BY <1>12, <1>13, <2>1, <2>2 DEF RotationFits, Rotation
<1>15. rotations' = [rotations EXCEPT ![id] = s]
  BY <1>1, <1>3, <1>10
<1> QED
  BY <1>1, <1>3, <1>4, <1>5, <1>6, <1>7, <1>9, <1>10, <1>12, <1>13, <1>14, <1>15

\* RotateBatch commits.
LEMMA BatchCommitStep ==
  ASSUME KeyInv, NEW p \in Processes, BatchCommit(p)
  PROVE  KeyInv'
<1>1. /\ UNCHANGED <<dumps, backups, deployed, cleared, rollout>> /\ Done(p)
  BY DEF BatchCommit
<1>2. TablesInv /\ DeployedInv /\ TasksInv /\ RotationsInv /\ BaseInv
  BY DEF KeyInv, BaseInv
<1>3. PICK id, rows, r, s :
        id = task[p].id /\ rows = task[p].rows /\ r = rotations[id] /\ s = BatchResult(p)
  OBVIOUS
<1>4. /\ p \in DOMAIN task /\ task[p].step = "batch"
      /\ id \in DOMAIN rotations /\ RotationFits(r) /\ r.state # "finalized"
      /\ rows \subseteq Referencing(envelopes, r.source) /\ rows \subseteq Versions
      /\ IsFiniteSet(rows) /\ Cardinality(rows) \in Nat
      /\ Rekeyed(p, rows)
      /\ rotations' = [rotations EXCEPT ![id] = s]
      /\ RotationFits(s) /\ s.source = r.source /\ s.total = r.total
  BY <1>2, <1>3, BatchFacts
<1>5. /\ s.state = IF Left(r.source)' = 0 THEN "ready" ELSE "running"
      /\ s.processed = IF Left(r.source)' = 0 THEN r.total ELSE r.processed + Cardinality(rows)
  BY <1>2, <1>3, BatchFacts
<1>6. /\ RotationsInv' /\ DOMAIN rotations' = DOMAIN rotations /\ rotations'[id] = s
      /\ \A i \in DOMAIN rotations \ {id} : rotations'[i] = rotations[i]
  BY <1>2, <1>3, <1>4, ReplaceRotation DEF Active
<1>7. ASSUME NEW q \in DOMAIN task'
      PROVE  /\ q \in DOMAIN task /\ task'[q] = task[q]
             /\ Rewrapping(q) => task[q].rows \cap rows = {}
             /\ task[q].step = "batch" =>
                  /\ task[q].id \in DOMAIN rotations'
                  /\ rotations'[task[q].id].source = rotations[task[q].id].source
                  /\ rotations'[task[q].id].state # "finalized"
  <2>1. q \in DOMAIN task /\ q # p /\ task'[q] = task[q]
    BY <1>1 DEF Done, Without
  <2>2. Rewrapping(q) => task[q].rows \cap rows = {}
    BY <1>2, <1>3, <1>4, <2>1 DEF TasksInv, Rewrapping, Doing
  <2>3. task[q].step = "batch" =>
          task[q].id \in DOMAIN rotations /\ rotations[task[q].id].state # "finalized"
    BY <1>2, <2>1, BatchActive
  <2> QED
    BY <1>3, <1>4, <1>5, <1>6, <2>1, <2>2, <2>3
<1>8. ASSUME rollout = "recreate"
      PROVE  \A i \in DOMAIN rotations' :
               (i \in DOMAIN rotations /\ rotations'[i] = rotations[i]) \/ TruthAt(i)'
  <2>1. RotationTruthful(r)
    BY <1>3, <1>4, <1>8 DEF KeyInv, RecreateInv, CountsInv, TruthAt
  <2>2. Retiring(r.source) /\ r.processed + Left(r.source) <= r.total
    BY <1>4, <2>1 DEF RotationTruthful
  <2>3. Retiring(s.source)'
    BY <1>1, <1>4, <2>2 DEF Retiring
  <2>4. r.source # Current(p)
    <3>1. deployed[p] \in DOMAIN KeySets /\ deployed[p] >= deployed[p]
      BY <1>2, KeySetFacts DEF DeployedInv
    <3> QED
      BY <2>2, <3>1 DEF Retiring, Current
  <2>5. Left(r.source)' = Left(r.source) - Cardinality(rows)
    <3>1. Referencing(envelopes', r.source) = Referencing(envelopes, r.source) \ rows
      BY <1>4, <2>4, RekeyedReferences
    <3>2. Referencing(envelopes, r.source) \cap rows = rows
      BY <1>4
    <3>3. Cardinality(Referencing(envelopes, r.source) \ rows)
            = Cardinality(Referencing(envelopes, r.source)) - Cardinality(rows)
      BY <1>2, <3>2, LeftFacts, FS_Difference
    <3> QED
      BY <3>1, <3>3 DEF Left
  <2>6. /\ Left(r.source) \in Nat /\ r.processed \in Nat /\ r.total \in Nat
    BY <1>2, <1>4, LeftFacts DEF RotationFits, Rotation
  <2>7. Left(s.source)' = Left(r.source)' /\ Left(r.source)' \in Int
    BY <1>4, <2>5, <2>6
  <2>8. RotationTruthful(s)'
    <3>1. s.processed + Left(s.source)' <= s.total
      BY <1>4, <1>5, <2>2, <2>5, <2>6, <2>7
    <3>2. s.state \in {"ready", "finalized"} => Left(s.source)' = 0
      BY <1>5, <2>7
    <3> QED
      BY <2>3, <3>1, <3>2 DEF RotationTruthful
  <2> QED
    BY <1>4, <1>6, <2>8, ReplaceTruth
<1> QED
  BY <1>1, <1>4, <1>6, <1>7, <1>8, RekeyedStep

-----------------------------------------------------------------------------
(* Deployments and backups.                                                *)

\* A deployment drops a key only when no stored record is under it.
LEMMA DeployStep ==
  ASSUME KeyInv, NEW P \in SUBSET Processes, Deploy(P), rollout = "recreate" => P = Processes
  PROVE  KeyInv'
<1>1. /\ UNCHANGED <<envelopes, rotations, dumps, backups, cleared, rollout>>
      /\ task' = Without(task, P)
      /\ deployed' = [p \in Processes |-> IF p \in P THEN deployed[p] + 1 ELSE deployed[p]]
      /\ \A p \in P :
           /\ deployed[p] < Len(KeySets)
           /\ \A k \in Keyring(p) \ KeyringOf(deployed[p] + 1) : Removable(k)
  BY DEF Deploy
<1>2. TablesInv /\ DeployedInv /\ TasksInv /\ RotationsInv
  BY DEF KeyInv, BaseInv
<1>3. ASSUME NEW p \in Processes
      PROVE  /\ deployed'[p] \in DOMAIN KeySets /\ deployed'[p] >= deployed[p]
  <2>1. deployed[p] \in DOMAIN KeySets /\ deployed[p] \in Nat \ {0}
        /\ DOMAIN KeySets = 1 .. Len(KeySets) /\ Len(KeySets) \in Nat
    BY <1>2, KeySetFacts DEF DeployedInv
  <2> QED
    BY <1>1, <2>1
<1>4. DeployedInv'
  <2>1. rollout' \in Rollouts /\ cleared' \subseteq MasterKeys
    BY <1>1, <1>2 DEF DeployedInv
  <2>2. deployed' \in [Processes -> DOMAIN KeySets]
    BY <1>1, <1>3
  <2>3. rollout' = "recreate" => \A p, q \in Processes : deployed'[p] = deployed'[q]
    BY <1>1, <1>2 DEF DeployedInv
  <2> QED
    BY <2>1, <2>2, <2>3 DEF DeployedInv
<1>5. DOMAIN task' = DOMAIN task \ P /\ \A q \in DOMAIN task' : q \in DOMAIN task /\ task'[q] = task[q]
  BY <1>1 DEF Without
<1>6. TasksInv'
  <2>1. \A q \in DOMAIN task' : q \in Processes /\ deployed'[q] = deployed[q]
    BY <1>1, <1>2, <1>5 DEF TasksInv
  <2>2. ASSUME NEW q \in DOMAIN task'
        PROVE  /\ Rewrapping(q) => \A v \in task[q].rows : v \in DOMAIN envelopes'
               /\ task[q].step = "batch" =>
                    task[q].id \in DOMAIN rotations' /\ rotations'[task[q].id].state # "finalized"
    BY <1>1, <1>2, <1>5, RowsExist, BatchActive
  <2> QED
    BY <1>1, <1>2, <1>5, <2>1, <2>2, TasksKept
<1>7. ASSUME rollout = "recreate" PROVE CountsInv' /\ KeysInv' /\ BackupsInv'
  <2>1. CountsInv /\ KeysInv /\ BackupsInv /\ BaseInv /\ P = Processes
    BY <1>7 DEF KeyInv, RecreateInv
  <2>2. Shrinks
    BY <1>1, <1>2, <1>3, <1>4, SameShrinks
  <2>3. \A i \in DOMAIN rotations' : i \in DOMAIN rotations /\ rotations'[i] = rotations[i]
    BY <1>1
  <2>4. \A k \in cleared' : k \in cleared
    BY <1>1
  <2>5. CountsInv'
    BY <1>5, <1>7, <2>1, <2>2, <2>3, <2>4, CountsKept
  <2>6. ASSUME NEW p \in Processes
        PROVE  Keyring(p) \subseteq Keyring(p)' \cup cleared
    <3>1. Keyring(p)' = KeyringOf(deployed[p] + 1)
      BY <1>1, <2>1 DEF Keyring
    <3> QED
      BY <1>1, <2>1, <3>1 DEF Removable
  <2>7. ASSUME NEW v \in DOMAIN envelopes, NEW p \in Processes
        PROVE  envelopes[v].masterKeyId \in Keyring(p)'
    <3>1. envelopes[v].masterKeyId \in Keyring(p) /\ envelopes[v].masterKeyId \notin cleared
      BY <2>1 DEF KeysInv, CountsInv, Referencing
    <3> QED
      BY <2>6, <3>1
  <2>8. KeysInv'
    BY <1>1, <2>1, <2>6, <2>7 DEF KeysInv
  <2> QED
    BY <1>1, <2>1, <2>5, <2>8 DEF BackupsInv, BackupFits
<1>8. TablesInv' /\ RotationsInv'
  BY <1>1, <1>2 DEF TablesInv, RotationsInv, Active
<1> QED
  BY <1>1, <1>4, <1>6, <1>7, <1>8 DEF KeyInv, BaseInv, RecreateInv

\* Dumps and their registration touch no service state.
LEMMA EvidenceStep ==
  ASSUME KeyInv, UNCHANGED <<envelopes, rotations, deployed, task, cleared, rollout>>,
         \A b \in DOMAIN dumps' : \A v \in DOMAIN dumps'[b] : IsEnvelope(dumps'[b][v], v),
         rollout = "recreate" =>
           /\ \A b \in DOMAIN dumps', p \in Processes : \A v \in DOMAIN dumps'[b] :
                dumps'[b][v].masterKeyId \in Keyring(p) \cup cleared
           /\ BackupsInv'
  PROVE  KeyInv'
<1>1. TablesInv' /\ DeployedInv' /\ RotationsInv'
  BY DEF KeyInv, BaseInv, TablesInv, DeployedInv, RotationsInv, Active
<1>2. TasksInv'
  <2>1. TasksInv
    BY DEF KeyInv, BaseInv
  <2>2. ASSUME NEW q \in DOMAIN task'
        PROVE  /\ Rewrapping(q) => \A v \in task[q].rows : v \in DOMAIN envelopes'
               /\ task[q].step = "batch" =>
                    task[q].id \in DOMAIN rotations' /\ rotations'[task[q].id].state # "finalized"
    BY <2>1, RowsExist, BatchActive
  <2> QED
    BY <2>1, <2>2, TasksKept
<1>3. ASSUME rollout = "recreate" PROVE CountsInv' /\ KeysInv'
  <2>1. CountsInv /\ KeysInv /\ BaseInv /\ DeployedInv
    BY <1>3 DEF KeyInv, RecreateInv, BaseInv
  <2>2. Shrinks
    <3>1. \A q \in Processes : deployed'[q] >= deployed[q]
      BY <2>1, KeySetFacts DEF DeployedInv
    <3> QED
      BY <1>1, <2>1, <3>1, SameShrinks
  <2>3. \A i \in DOMAIN rotations' : i \in DOMAIN rotations /\ rotations'[i] = rotations[i]
    OBVIOUS
  <2>4. \A q \in DOMAIN task' : q \in DOMAIN task /\ task'[q] = task[q]
    OBVIOUS
  <2>5. \A k \in cleared' : k \in cleared
    OBVIOUS
  <2>6. CountsInv'
    BY <1>3, <2>1, <2>2, <2>3, <2>4, <2>5, CountsKept
  <2> QED
    BY <1>3, <2>1, <2>6 DEF KeysInv, Keyring
<1> QED
  BY <1>1, <1>2, <1>3 DEF KeyInv, BaseInv, RecreateInv

\* A dump is the table as it is.
LEMMA DumpStep ==
  ASSUME KeyInv, NEW b, Dump(b)
  PROVE  KeyInv'
<1>1. /\ UNCHANGED <<envelopes, rotations, backups, deployed, task, cleared, rollout>>
      /\ b \notin DOMAIN dumps /\ b \notin DOMAIN backups
      /\ DOMAIN dumps' = DOMAIN dumps \cup {b} /\ dumps'[b] = envelopes
      /\ \A c \in DOMAIN dumps : dumps'[c] = dumps[c]
  BY DEF Dump, With
<1>2. TablesInv
  BY DEF KeyInv, BaseInv
<1>3. \A c \in DOMAIN dumps' : \A v \in DOMAIN dumps'[c] : IsEnvelope(dumps'[c][v], v)
  BY <1>1, <1>2 DEF TablesInv
<1>4. ASSUME rollout = "recreate"
      PROVE  /\ \A c \in DOMAIN dumps', p \in Processes : \A v \in DOMAIN dumps'[c] :
                  dumps'[c][v].masterKeyId \in Keyring(p) \cup cleared
             /\ BackupsInv'
  <2>1. KeysInv /\ BackupsInv
    BY <1>4 DEF KeyInv, RecreateInv
  <2>2. ASSUME NEW c \in DOMAIN dumps', NEW p \in Processes, NEW v \in DOMAIN dumps'[c]
        PROVE  dumps'[c][v].masterKeyId \in Keyring(p) \cup cleared
    <3>1. CASE c = b
      BY <1>1, <2>1, <3>1 DEF KeysInv
    <3>2. CASE c \in DOMAIN dumps
      BY <1>1, <2>1, <3>2 DEF KeysInv
    <3> QED
      BY <1>1, <3>1, <3>2
  <2>3. BackupsInv'
    BY <1>1, <2>1 DEF BackupsInv, BackupFits
  <2> QED
    BY <2>2, <2>3
<1> QED
  BY <1>1, <1>3, <1>4, EvidenceStep

\* A registration names the keys of its dump, and is late when one was cleared.
LEMMA RegisterStep ==
  ASSUME KeyInv, NEW b, RegisterBackup(b)
  PROVE  KeyInv'
<1>1. PICK keys : keys = {dumps[b][v].masterKeyId : v \in DOMAIN dumps[b]}
  OBVIOUS
<1>2. UNCHANGED <<envelopes, rotations, dumps, deployed, task, cleared, rollout>>
  BY DEF RegisterBackup
<1> DEFINE row == [keys |-> keys, expired |-> FALSE, missed |-> FALSE, late |-> keys \cap cleared # {}]
<1>3. \/ backups' = backups
      \/ b \in DOMAIN dumps /\ b \notin DOMAIN backups /\ backups' = With(backups, b, row)
  BY <1>1 DEF RegisterBackup
<1>4. ASSUME rollout = "recreate" PROVE BackupsInv'
  <2>1. ASSUME NEW c \in DOMAIN backups, backups'[c] = backups[c] PROVE BackupFits(c)'
    BY <1>2, <1>4, <2>1 DEF KeyInv, RecreateInv, BackupsInv, BackupFits
  <2>2. CASE backups' = backups
    BY <2>1, <2>2 DEF BackupsInv
  <2>3. CASE b \in DOMAIN dumps /\ b \notin DOMAIN backups /\ backups' = With(backups, b, row)
    <3>1. /\ DOMAIN backups' = DOMAIN backups \cup {b} /\ backups'[b] = row
          /\ \A c \in DOMAIN backups : backups'[c] = backups[c]
      BY <2>3 DEF With
    <3>2. BackupFits(b)'
      <4>1. /\ DOMAIN backups'[b] = {"keys", "expired", "late", "missed"}
            /\ backups'[b].keys = keys /\ backups'[b].late = (keys \cap cleared # {})
        BY <3>1
      <4>2. b \in DOMAIN dumps' /\ cleared' = cleared
        BY <1>2, <2>3
      <4>3. \A v \in DOMAIN dumps'[b] : dumps'[b][v].masterKeyId \in backups'[b].keys
        BY <1>1, <1>2, <4>1
      <4> QED
        BY <4>1, <4>2, <4>3 DEF BackupFits
    <3> QED
      BY <2>1, <3>1, <3>2 DEF BackupsInv
  <2> QED
    BY <1>3, <2>2, <2>3
<1>5. \A c \in DOMAIN dumps' : \A v \in DOMAIN dumps'[c] : IsEnvelope(dumps'[c][v], v)
  BY <1>2 DEF KeyInv, BaseInv, TablesInv
<1>6. rollout = "recreate" =>
        \A c \in DOMAIN dumps', p \in Processes : \A v \in DOMAIN dumps'[c] :
          dumps'[c][v].masterKeyId \in Keyring(p) \cup cleared
  BY <1>2 DEF KeyInv, RecreateInv, KeysInv
<1> QED
  BY <1>2, <1>4, <1>5, <1>6, EvidenceStep

\* A backup that expires is no longer kept.
LEMMA ExpireStep ==
  ASSUME KeyInv, NEW b, ExpireBackup(b)
  PROVE  KeyInv'
<1>1. /\ UNCHANGED <<envelopes, rotations, deployed, task, cleared, rollout>>
      /\ b \in DOMAIN backups /\ backups' = [backups EXCEPT ![b].expired = TRUE]
      /\ DOMAIN dumps' = DOMAIN dumps \ {b} /\ \A c \in DOMAIN dumps' : dumps'[c] = dumps[c]
  BY DEF ExpireBackup, Without
<1>2. /\ DOMAIN backups' = DOMAIN backups /\ backups'[b] = [backups[b] EXCEPT !.expired = TRUE]
      /\ \A c \in DOMAIN backups \ {b} : backups'[c] = backups[c]
  BY <1>1
<1>3. \A c \in DOMAIN dumps' : c \in DOMAIN dumps
  BY <1>1
<1>4. \A c \in DOMAIN dumps' : \A v \in DOMAIN dumps'[c] : IsEnvelope(dumps'[c][v], v)
  BY <1>1, <1>3 DEF KeyInv, BaseInv, TablesInv
<1>5. rollout = "recreate" =>
        \A c \in DOMAIN dumps', p \in Processes : \A v \in DOMAIN dumps'[c] :
          dumps'[c][v].masterKeyId \in Keyring(p) \cup cleared
  BY <1>1, <1>3 DEF KeyInv, RecreateInv, KeysInv
<1>6. ASSUME rollout = "recreate" PROVE BackupsInv'
  <2>1. ASSUME NEW c \in DOMAIN backups \ {b} PROVE BackupFits(c)'
    BY <1>1, <1>2, <1>6 DEF KeyInv, RecreateInv, BackupsInv, BackupFits
  <2>2. ASSUME BackupFits(b) PROVE BackupFits(b)'
    BY <1>2, <2>2 DEF BackupFits
  <2> QED
    BY <1>1, <1>2, <1>6, <2>1, <2>2 DEF KeyInv, RecreateInv, BackupsInv
<1> QED
  BY <1>1, <1>4, <1>5, <1>6, EvidenceStep

-----------------------------------------------------------------------------
(* Every step.                                                             *)

\* The operator requests of a process.
LEMMA OperateStep ==
  ASSUME KeyInv, NEW p \in Processes, Operate(p)
  PROVE  KeyInv'
<1>1. CASE StartCount(p)
  BY <1>1, StartCountStep
<1>2. CASE StartCommit(p)
  BY <1>2, StartCommitStep
<1>3. CASE \E id \in DOMAIN rotations : BatchSelect(p, id)
  BY <1>3, BatchSelectStep
<1>4. CASE BatchCommit(p)
  BY <1>4, BatchCommitStep
<1>5. CASE BatchRefused(p) \/ Abort(p)
  BY <1>5, DoneStep DEF BatchRefused, Abort
<1>6. CASE \E v \in Versions : CredentialLock(p, v)
  BY <1>6, CredentialLockStep
<1>7. CASE CredentialCommit(p)
  BY <1>7, CredentialCommitStep
<1>8. CASE StatusCounts(p)
  BY <1>8, StatusCountsStep
<1>9. CASE StatusRotation(p)
  BY <1>9, StatusRotationStep
<1>10. CASE StatusAnswer(p)
  BY <1>10, StatusAnswerStep
<1> QED
  BY <1>1, <1>2, <1>3, <1>4, <1>5, <1>6, <1>7, <1>8, <1>9, <1>10 DEF Operate

\* Every step keeps the invariant.
LEMMA KeyStep ==
  ASSUME KeyInv, [Next]_vars
  PROVE  KeyInv'
<1>1. CASE UNCHANGED vars
  <2>1. UNCHANGED <<envelopes, rotations, dumps, backups, deployed, task, cleared, rollout>>
    BY <1>1 DEF vars
  <2>2. \A c \in DOMAIN dumps' : \A v \in DOMAIN dumps'[c] : IsEnvelope(dumps'[c][v], v)
    BY <2>1 DEF KeyInv, BaseInv, TablesInv
  <2>3. rollout = "recreate" =>
          /\ \A c \in DOMAIN dumps', p \in Processes : \A v \in DOMAIN dumps'[c] :
               dumps'[c][v].masterKeyId \in Keyring(p) \cup cleared
          /\ BackupsInv'
    BY <2>1 DEF KeyInv, RecreateInv, KeysInv, BackupsInv, BackupFits
  <2> QED
    BY <2>1, <2>2, <2>3, EvidenceStep
<1>2. CASE \E p \in Processes, v \in Versions : Write(p, v)
  BY <1>2, WriteStep
<1>3. CASE rollout = "rolling" /\ \E p \in Processes : Deploy({p})
  BY <1>3, DeployStep
<1>4. CASE rollout = "recreate" /\ Deploy(Processes)
  BY <1>4, DeployStep
<1>5. CASE \E p \in Processes : Operate(p)
  BY <1>5, OperateStep
<1>6. CASE \E id \in DOMAIN rotations : Finalize(id)
  BY <1>6, FinalizeStep
<1>7. CASE \E b \in Backups : Dump(b) \/ RegisterBackup(b) \/ ExpireBackup(b)
  BY <1>7, DumpStep, RegisterStep, ExpireStep
<1> QED
  BY <1>1, <1>2, <1>3, <1>4, <1>5, <1>6, <1>7 DEF Next

\* The invariant holds of every behaviour: what is stored was encrypted for its
\* version, what is locked is still there, and, without overlap of two
\* deployments, no count, progress or answer understates what is left.
THEOREM KeyInvariant == Spec => []KeyInv
<1>1. Init => KeyInv
  <2> SUFFICES ASSUME Init PROVE KeyInv
    OBVIOUS
  <2>1. /\ DOMAIN envelopes = {} /\ rotations = << >> /\ DOMAIN dumps = {} /\ DOMAIN backups = {}
        /\ DOMAIN task = {} /\ cleared = {} /\ rollout \in Rollouts
        /\ deployed = [p \in Processes |-> 1]
    BY DEF Init, NoRows
  <2>2. TablesInv
    BY <2>1, FS_EmptySet DEF TablesInv
  <2>3. 1 \in DOMAIN KeySets
    BY KeySetAssumption
  <2>4. DeployedInv
    BY <2>1, <2>3 DEF DeployedInv
  <2>5. RotationsInv
    <3>1. rotations \in Seq(Rotation) /\ DOMAIN rotations = {}
      BY <2>1
    <3> QED
      BY <3>1 DEF RotationsInv
  <2>6. TasksInv
    BY <2>1 DEF TasksInv
  <2>7. CountsInv
    BY <2>1, <2>5 DEF CountsInv
  <2>8. KeysInv /\ BackupsInv
    BY <2>1 DEF KeysInv, BackupsInv
  <2> QED
    BY <2>2, <2>4, <2>5, <2>6, <2>7, <2>8 DEF KeyInv, BaseInv, RecreateInv
<1>2. KeyInv /\ [Next]_vars => KeyInv'
  BY KeyStep
<1> QED
  BY <1>1, <1>2, PTL DEF Spec

-----------------------------------------------------------------------------
(* The properties, for every value of the constants.                       *)

\* The CHECK constraints of migrations/003_rotations.sql hold, and the rows
\* that transactions locked exist.
THEOREM TypeCorrect == Spec => []TypeOK
<1>1. KeyInv => TypeOK
  <2> SUFFICES ASSUME KeyInv PROVE TypeOK
    OBVIOUS
  <2>1. TablesInv /\ DeployedInv /\ RotationsInv /\ TasksInv
    BY DEF KeyInv, BaseInv
  <2>2. \A v \in DOMAIN envelopes :
          envelopes[v].masterKeyId \in MasterKeys /\ envelopes[v].context = v
    BY <2>1, StoredRecord
  <2>3. LockedRows \subseteq DOMAIN envelopes
    <3>1. \A q \in Processes : Rewrapping(q) => q \in DOMAIN task /\ task[q].rows \subseteq DOMAIN envelopes
      BY <2>1, RowsExist DEF Rewrapping, Doing
    <3> QED
      BY <3>1 DEF LockedRows
  <2>4. \A id \in DOMAIN rotations :
          rotations[id].source # rotations[id].target /\ rotations[id].processed <= rotations[id].total
    BY <2>1 DEF RotationsInv, RotationFits
  <2> QED
    BY <2>1, <2>2, <2>3, <2>4 DEF TypeOK, TablesInv, DeployedInv, RotationsInv
<1> QED
  BY <1>1, KeyInvariant, PTL

\* One rotation is active at a time, and no two transactions rewrap one
\* version: the partial unique index and FOR UPDATE SKIP LOCKED.
THEOREM RotationsCorrect == Spec => []RotationsExclude
<1>1. KeyInv => RotationsExclude
  <2> SUFFICES ASSUME KeyInv PROVE RotationsExclude
    OBVIOUS
  <2>1. RotationsInv /\ TasksInv
    BY DEF KeyInv, BaseInv
  <2>2. \A q \in Processes : Rewrapping(q) => q \in DOMAIN task
    BY DEF Rewrapping, Doing
  <2> QED
    BY <2>1, <2>2 DEF RotationsExclude, RotationsInv, TasksInv
<1> QED
  BY <1>1, KeyInvariant, PTL

\* When deployments do not overlap, every process can decrypt every stored
\* version, whatever is rewrapped and whichever keys are added or dropped.
THEOREM ReadsCorrect == Spec => []ReadsAvailable
<1>1. KeyInv => ReadsAvailable
  <2> SUFFICES ASSUME KeyInv, rollout = "recreate", NEW p \in Processes, NEW v \in DOMAIN envelopes
               PROVE  Decrypt(envelopes[v], v, Keyring(p)) = {v}
    BY DEF ReadsAvailable
  <2>1. envelopes[v].masterKeyId \in Keyring(p)
    BY DEF KeyInv, RecreateInv, KeysInv
  <2>2. PICK d : envelopes[v] = Encrypt(v, v, envelopes[v].masterKeyId, d)
    BY StoredRecord DEF KeyInv, BaseInv
  <2> QED
    BY <2>1, <2>2, DecryptEncrypted
<1> QED
  BY <1>1, KeyInvariant, PTL

\* When deployments do not overlap, a retained backup that was registered
\* before key status reported its keys clear, and that no answer left out after
\* a failed read, is restorable with the loaded keys (KeyStatus,
\* RegisterBackup, ValidateRecovery).
THEOREM BackupsCorrect == Spec => []BackupsRestorable
<1>1. KeyInv => BackupsRestorable
  <2> SUFFICES ASSUME KeyInv, rollout = "recreate", NEW b \in DOMAIN backups, NEW p \in Processes,
                      ~backups[b].expired, ~backups[b].late, ~backups[b].missed
               PROVE  ValidateRecovery(dumps[b], Keyring(p))
    BY DEF BackupsRestorable
  <2>1. KeysInv /\ BackupFits(b) /\ TablesInv
    BY DEF KeyInv, RecreateInv, BackupsInv, BaseInv
  <2>2. ASSUME NEW v \in DOMAIN dumps[b] PROVE Decrypt(dumps[b][v], v, Keyring(p)) # {}
    <3>1. /\ b \in DOMAIN dumps /\ dumps[b][v].masterKeyId \in Keyring(p) \cup cleared
          /\ dumps[b][v].masterKeyId \notin cleared
      BY <2>1, <2>2 DEF BackupFits, KeysInv
    <3>2. PICK k \in MasterKeys, d \in Draws(v) : dumps[b][v] = Encrypt(v, v, k, d)
      BY <2>1, <3>1 DEF TablesInv, IsEnvelope
    <3>3. k = dumps[b][v].masterKeyId
      BY <3>2, EncryptedParts
    <3>4. Decrypt(Encrypt(v, v, k, d), v, Keyring(p)) = {v}
      BY <3>1, <3>3, DecryptEncrypted
    <3> QED
      BY <3>2, <3>4
  <2> QED
    BY <2>2 DEF ValidateRecovery
<1> QED
  BY <1>1, KeyInvariant, PTL

\* When deployments do not overlap, no progress overstates what was done, and a
\* ready or finalized rotation has no row left (RotateBatch, FinalizeRotation).
THEOREM ProgressCorrect == Spec => []ProgressTruthful
<1>1. KeyInv => ProgressTruthful
  <2> SUFFICES ASSUME KeyInv, rollout = "recreate", NEW id \in DOMAIN rotations
               PROVE  LET r == rotations[id]
                          left == Cardinality(Referencing(envelopes, r.source))
                      IN /\ Active(id) => r.processed + left <= r.total
                         /\ r.state \in {"ready", "finalized"} => left = 0
    BY DEF ProgressTruthful
  <2>1. RotationTruthful(rotations[id])
    BY DEF KeyInv, RecreateInv, CountsInv, TruthAt
  <2> QED
    BY <2>1 DEF RotationTruthful, Active, Left
<1> QED
  BY <1>1, KeyInvariant, PTL

\* The fields of a record that Encrypt made.
LEMMA EnvelopeFields ==
  ASSUME NEW h, NEW u, IsEnvelope(h, u)
  PROVE  h = [recordId |-> h.recordId, masterKeyId |-> h.masterKeyId, context |-> h.context,
              ciphertext |-> h.ciphertext, wrappedDataKey |-> h.wrappedDataKey]
<1>1. PICK master \in MasterKeys, d \in Draws(u) : h = Encrypt(u, u, master, d)
  BY DEF IsEnvelope
<1> QED
  BY <1>1, EncryptedParts

\* No record put together from the fields of stored and dumped records
\* decrypts to the inputs of another version (the associated data of
\* envelope.go).
THEOREM SpliceImpossible == Spec => []NoSplice
<1>1. KeyInv => NoSplice
  <2> DEFINE stored == {envelopes[v] : v \in DOMAIN envelopes}
  <2> DEFINE dumped == UNION {{dumps[b][v] : v \in DOMAIN dumps[b]} : b \in DOMAIN dumps}
  <2> SUFFICES ASSUME KeyInv, NEW h \in stored \cup dumped, NEW w \in stored \cup dumped,
                      NEW c \in stored \cup dumped, NEW k \in MasterKeys, NEW v \in Versions
               PROVE  Decrypt([h EXCEPT !.masterKeyId = k, !.context = v,
                                        !.ciphertext = c.ciphertext,
                                        !.wrappedDataKey = w.wrappedDataKey], v, MasterKeys)
                        \subseteq {v}
    BY DEF NoSplice
  <2>1. \A x \in stored \cup dumped : \E u : IsEnvelope(x, u)
    BY DEF KeyInv, BaseInv, TablesInv
  <2>2. PICK r : r = [h EXCEPT !.masterKeyId = k, !.context = v, !.ciphertext = c.ciphertext,
                               !.wrappedDataKey = w.wrappedDataKey]
    OBVIOUS
  <2>3. r.ciphertext = c.ciphertext
    <3>1. PICK x, y : x = c.ciphertext /\ y = w.wrappedDataKey
      OBVIOUS
    <3>2. r = [h EXCEPT !.masterKeyId = k, !.context = v, !.ciphertext = x, !.wrappedDataKey = y]
      BY <2>2, <3>1
    <3>3. h = [recordId |-> h.recordId, masterKeyId |-> h.masterKeyId, context |-> h.context,
               ciphertext |-> h.ciphertext, wrappedDataKey |-> h.wrappedDataKey]
      BY <2>1, EnvelopeFields
    <3>4. r = [recordId |-> h.recordId, masterKeyId |-> k, context |-> v,
               ciphertext |-> x, wrappedDataKey |-> y]
      BY <3>2, <3>3
    <3> QED
      BY <3>1, <3>4
  <2>4. PICK u, master, d : c = Encrypt(u, u, master, d)
    BY <2>1 DEF IsEnvelope
  <2>5. c.ciphertext = Seal(d, u, aad("credential-payload", c, u))
    BY <2>4, EncryptedParts
  <2>6. r.ciphertext.text = u /\ r.ciphertext.data.context = u
    <3>1. PICK data : data = aad("credential-payload", c, u)
      OBVIOUS
    <3>2. data.context = u
      BY <3>1 DEF aad
    <3>3. r.ciphertext = [key |-> d, text |-> u, data |-> data]
      BY <2>3, <2>5, <3>1 DEF Seal
    <3> QED
      BY <3>2, <3>3
  <2>7. ASSUME NEW text \in Decrypt(r, v, MasterKeys) PROVE text = v
    BY <2>6, <2>7, DecryptKeepsContext
  <2> QED
    BY <2>2, <2>7
<1> QED
  BY <1>1, KeyInvariant, PTL

\* What a step does to a rotation: nothing, or progress of an active one.
LEMMA RotationStep ==
  ASSUME KeyInv, [Next]_vars, NEW id \in DOMAIN rotations, NEW r, r = rotations[id],
         NEW s, s = rotations'[id]
  PROVE  \/ s = r
         \/ /\ r.state # "finalized" /\ RotationFits(r) /\ RotationFits(s)
            /\ s.source = r.source /\ s.target = r.target /\ s.total = r.total
            /\ s.processed >= r.processed
<1>1. BaseInv /\ RotationsInv /\ RotationFits(r)
  BY DEF KeyInv, BaseInv, RotationsInv
<1>2. CASE UNCHANGED rotations
  BY <1>2
<1>3. ASSUME NEW p \in Processes, StartCommit(p) PROVE s = r
  <2>1. CASE UNCHANGED rotations
    BY <2>1
  <2>2. ASSUME NEW new, rotations' = Append(rotations, new) PROVE s = r
    <3>1. rotations \in Seq(Rotation) /\ id \in 1 .. Len(rotations)
      BY <1>1 DEF RotationsInv
    <3> HIDE DEF Rotation
    <3> QED
      BY <2>2, <3>1
  <2> QED
    BY <1>3, <2>1, <2>2 DEF StartCommit
<1>4. ASSUME NEW p \in Processes, BatchCommit(p)
      PROVE  \/ s = r
             \/ /\ r.state # "finalized" /\ RotationFits(s)
                /\ s.source = r.source /\ s.target = r.target /\ s.total = r.total
                /\ s.processed >= r.processed
  <2>1. CASE id # task[p].id
    BY <1>4, <2>1 DEF BatchCommit
  <2>2. CASE id = task[p].id
    <3>1. PICK rows, t : rows = task[p].rows /\ t = BatchResult(p)
      OBVIOUS
    <3>2. /\ r.state # "finalized" /\ RotationFits(t) /\ t.source = r.source /\ t.target = r.target
          /\ t.total = r.total /\ rotations' = [rotations EXCEPT ![id] = t]
          /\ Cardinality(rows) \in Nat
          /\ t.processed = r.total \/ t.processed = r.processed + Cardinality(rows)
      BY <1>1, <1>4, <2>2, <3>1, BatchFacts
    <3>3. s = t
      BY <3>2
    <3>4. r.processed \in Nat /\ r.total \in Nat /\ r.processed <= r.total
      BY <1>1 DEF RotationFits, Rotation
    <3> QED
      BY <3>2, <3>3, <3>4
  <2> QED
    BY <2>1, <2>2
<1>5. ASSUME NEW i \in DOMAIN rotations, Finalize(i)
      PROVE  \/ s = r
             \/ /\ r.state # "finalized" /\ RotationFits(s)
                /\ s.source = r.source /\ s.target = r.target /\ s.total = r.total
                /\ s.processed >= r.processed
  <2>1. CASE id # i
    BY <1>5, <2>1 DEF Finalize
  <2>2. CASE id = i
    <3>1. s = [r EXCEPT !.state = "finalized"] /\ r.state = "ready"
      BY <1>5, <2>2 DEF Finalize, Finalizable
    <3> QED
      BY <1>1, <3>1 DEF RotationFits, Rotation, States
  <2> QED
    BY <2>1, <2>2
<1>6. CASE UNCHANGED vars
  BY <1>6 DEF vars
<1>7. CASE Next
  <2>1. ASSUME NEW p \in Processes, Operate(p)
        PROVE  UNCHANGED rotations \/ StartCommit(p) \/ BatchCommit(p)
    BY <2>1 DEF Operate, StartCount, BatchSelect, BatchRefused, CredentialLock, CredentialCommit,
       StatusCounts, StatusRotation, StatusAnswer, Abort
  <2>2. \/ UNCHANGED rotations
        \/ \E p \in Processes : StartCommit(p) \/ BatchCommit(p)
        \/ \E i \in DOMAIN rotations : Finalize(i)
    BY <1>7, <2>1 DEF Next, Write, Deploy, Dump, RegisterBackup, ExpireBackup
  <2> QED
    BY <1>1, <1>2, <1>3, <1>4, <1>5, <2>2
<1> QED
  BY <1>6, <1>7

\* A rotation keeps its keys and its total, its progress never goes back, and a
\* finalized one stays as it is (RotateBatch, FinalizeRotation).
THEOREM ProgressForward == Spec => ProgressMonotone
<1> DEFINE Forward ==
      \A id \in DOMAIN rotations :
        LET r == rotations[id]
            s == rotations'[id]
        IN /\ [s EXCEPT !.state = r.state, !.processed = r.processed] = r
           /\ s.processed >= r.processed
           /\ ~Active(id) => s = r
<1>1. KeyInv /\ [Next]_vars => Forward
  <2> SUFFICES ASSUME KeyInv, [Next]_vars, NEW id \in DOMAIN rotations
               PROVE  LET r == rotations[id]
                          s == rotations'[id]
                      IN /\ [s EXCEPT !.state = r.state, !.processed = r.processed] = r
                         /\ s.processed >= r.processed
                         /\ ~Active(id) => s = r
    OBVIOUS
  <2>1. PICK r, s : r = rotations[id] /\ s = rotations'[id]
    OBVIOUS
  <2>2. \/ s = r
        \/ /\ r.state # "finalized" /\ RotationFits(r) /\ RotationFits(s)
           /\ s.source = r.source /\ s.target = r.target /\ s.total = r.total
           /\ s.processed >= r.processed
    BY <2>1, RotationStep
  <2>3. RotationFits(r)
    BY <2>1 DEF KeyInv, BaseInv, RotationsInv
  <2>4. /\ RotationFits(s) /\ s.source = r.source /\ s.target = r.target /\ s.total = r.total
        /\ s.processed >= r.processed
    BY <2>2, <2>3 DEF RotationFits, Rotation
  <2>5. PICK state, processed : state = r.state /\ processed = r.processed
    OBVIOUS
  <2>6. [s EXCEPT !.state = state, !.processed = processed] = r
    <3>1. s = [source |-> s.source, target |-> s.target, state |-> s.state, total |-> s.total,
               processed |-> s.processed]
      BY <2>4 DEF RotationFits, Rotation
    <3>2. r = [source |-> r.source, target |-> r.target, state |-> r.state, total |-> r.total,
               processed |-> r.processed]
      BY <2>3 DEF RotationFits, Rotation
    <3> QED
      BY <2>4, <2>5, <3>1, <3>2
  <2>7. ~Active(id) => s = r
    BY <2>1, <2>2 DEF Active
  <2> QED
    BY <2>1, <2>4, <2>5, <2>6, <2>7
<1>2. Forward => [Forward]_vars
  OBVIOUS
<1> QED
  BY <1>1, <1>2, KeyInvariant, PTL DEF Spec, ProgressMonotone

=============================================================================
