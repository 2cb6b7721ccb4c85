-------------------------- MODULE SchemaMigrations --------------------------
(***************************************************************************)
(* Startup of the processes of one service on one database: the migration  *)
(* runners Build calls one after the other (ApplyPostgresMigrations and    *)
(* audit.ApplyMigration in the secrets service, auditsink.ApplyMigration   *)
(* in the sink).                                                           *)
(*                                                                         *)
(* A runner is one transaction: an advisory lock of its own, held until    *)
(* the transaction ends, and for each migration a look at the table of     *)
(* recorded versions, the migration's statements and the new version row.  *)
(* The rows and objects of an open transaction are seen by that process    *)
(* only.  A storage error, the 30 seconds main.go allows, a signal or a    *)
(* crash end the startup and roll back; the process is started again.      *)
(***************************************************************************)
EXTENDS Integers, Sequences, FiniteSets

CONSTANTS
  Processes,   \* service processes started on one database
  Services,    \* which services are considered: "secrets", "sink"
  Runners      \* service -> how many migrations each of its runners has

ASSUME RunnersAssumption ==
  /\ Services \subseteq {"secrets", "sink"}
  /\ Runners \in [Services -> Seq(Nat \ {0})]
  /\ \A s \in Services : Runners[s] # << >>

VARIABLES
  service,    \* the service whose processes these are
  recorded,   \* versions recorded in the tables of schema migrations
  objects,    \* migrations whose tables and triggers exist
  startup,    \* where each process is: [step, runner, version]
  work        \* migrations executed in the open transaction of each process

startupVars == <<service, recorded, objects, startup, work>>

Steps == {"start", "waiting", "checking", "executing", "built", "failed"}

NotStarted == [step |-> "start", runner |-> 1, version |-> 1]

RunnersOf(s) == DOMAIN Runners[s]
MigrationsOf(s) == UNION { {r} \X (1 .. Runners[s][r]) : r \in RunnersOf(s) }

\* The versions of each runner are recorded without a gap.
NoGap(versions) == \A m \in versions : {m[1]} \X (1 .. m[2]) \subseteq versions

\* An older release has left the first migrations of each runner, or none.
StartupInit ==
  /\ service \in Services
  /\ recorded \in {versions \in SUBSET MigrationsOf(service) : NoGap(versions)}
  /\ objects = recorded
  /\ startup = [p \in Processes |-> NotStarted]
  /\ work = [p \in Processes |-> {}]

-----------------------------------------------------------------------------
At(p, step) == startup[p].step = step
Migration(p) == <<startup[p].runner, startup[p].version>>
LastVersion(p) == Runners[service][startup[p].runner]

\* The transaction of p is open and has its lock.
Holds(p, r) == startup[p].step \in {"checking", "executing"} /\ startup[p].runner = r

\* Mutant: no advisory lock is taken.
LockIgnored(p) == TRUE

\* Mutant: the lock belongs to the session and is kept after the commit.
LockOfSession(p) ==
  \A q \in Processes \ {p} : ~Holds(q, startup[p].runner) /\ ~At(q, "built")

\* pg_advisory_xact_lock of the runner's key is granted.
LockFree(p) == \A q \in Processes \ {p} : ~Holds(q, startup[p].runner)

Move(p, to) == startup' = [startup EXCEPT ![p] = to]

\* Build reads its files and opens the pool; what it rejects is StartupFails.
Begin(p) ==
  /\ At(p, "start")
  /\ Move(p, [step |-> "waiting", runner |-> 1, version |-> 1])
  /\ UNCHANGED <<service, recorded, objects, work>>

Lock(p) ==
  /\ At(p, "waiting")
  /\ LockFree(p)
  /\ Move(p, [startup[p] EXCEPT !.step = "checking"])
  /\ UNCHANGED <<service, recorded, objects, work>>

\* SELECT EXISTS (... WHERE version = $1).
Applied(p) == Migration(p) \in recorded \cup work[p]

Check(p) ==
  /\ At(p, "checking")
  /\ startup[p].version <= LastVersion(p)
  /\ Move(p, IF Applied(p)
             THEN [startup[p] EXCEPT !.version = @ + 1]
             ELSE [startup[p] EXCEPT !.step = "executing"])
  /\ UNCHANGED <<service, recorded, objects, work>>

\* The statements fail where the objects exist and wait where another open
\* transaction has created them.
Execute(p) ==
  /\ At(p, "executing")
  /\ Migration(p) \notin objects \cup UNION {work[q] : q \in Processes}
  /\ work' = [work EXCEPT ![p] = @ \cup {Migration(p)}]
  /\ Move(p, [startup[p] EXCEPT !.step = "checking", !.version = @ + 1])
  /\ UNCHANGED <<service, recorded, objects>>

\* The next runner, or the end of Build.
AfterRunner(p) ==
  LET next == startup[p].runner + 1
  IN IF next \in RunnersOf(service)
     THEN [step |-> "waiting", runner |-> next, version |-> 1]
     ELSE [startup[p] EXCEPT !.step = "built"]

Commit(p) ==
  /\ At(p, "checking")
  /\ startup[p].version > LastVersion(p)
  /\ recorded' = recorded \cup work[p]
  /\ objects' = objects \cup work[p]
  /\ work' = [work EXCEPT ![p] = {}]
  /\ Move(p, AfterRunner(p))
  /\ UNCHANGED service

\* Mutant: an error of a migration runner does not end the startup.
FailedButBuilt(p) == [startup[p] EXCEPT !.step = "built"]

\* Build returns ErrStartup and main exits.
Failed(p) == [NotStarted EXCEPT !.step = "failed"]

StartupFails(p) ==
  /\ startup[p].step \in {"waiting", "checking", "executing"}
  /\ work' = [work EXCEPT ![p] = {}]
  /\ Move(p, Failed(p))
  /\ UNCHANGED <<service, recorded, objects>>

Retry(p) ==
  /\ At(p, "failed")
  /\ Move(p, NotStarted)
  /\ UNCHANGED <<service, recorded, objects, work>>

StartupStep(p) == Begin(p) \/ Lock(p) \/ Check(p) \/ Execute(p) \/ Commit(p)

StartupNext(p) == StartupStep(p) \/ StartupFails(p) \/ Retry(p)

-----------------------------------------------------------------------------
(* Properties.                                                             *)

\* The type of the startup state.
StartupTypeOK ==
  /\ service \in Services
  /\ recorded \subseteq MigrationsOf(service)
  /\ \A p \in Processes :
       /\ startup[p].step \in Steps
       /\ startup[p].runner \in RunnersOf(service)
       /\ startup[p].version \in 1 .. LastVersion(p) + 1
       /\ work[p] # {} => Holds(p, startup[p].runner)

\* "exactly once ... concurrent service starts cannot race": a process about
\* to execute a migration finds it neither executed before, whatever was
\* interrupted, nor under way in another process, so no start fails on an
\* object that exists; and what is recorded is what exists, without a gap.
MigrationsExclusive ==
  /\ \A p \in Processes :
       At(p, "executing") =>
         Migration(p) \notin objects \cup UNION {work[q] : q \in Processes}
  /\ recorded = objects
  /\ NoGap(recorded)

\* No set of processes waits for the locks of each other: every start ends.
StartupEnds ==
  \A p \in Processes : At(p, "waiting") ~> startup[p].step \in {"built", "failed"}

=============================================================================
