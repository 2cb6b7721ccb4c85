------------------------ MODULE ServiceRuntimeProofs ------------------------
(***************************************************************************)
(* Theorems about ServiceRuntime and the startup of SchemaMigrations, for  *)
(* any number of processes, migration runners, migrations, connections and *)
(* connection slots.                                                       *)
(*                                                                         *)
(* Startup: a runner's lock is held by one process at a time               *)
(* (LocksExclusive), the migrations of an open transaction belong to the   *)
(* runner whose lock it holds (WorkOwned), and the loop over the versions  *)
(* has left none behind (VersionsPassed, RunnersPassed).  Together they    *)
(* say that a migration about to be executed is new to everyone            *)
(* (ExecutingNew), and that a process that is built has everything.        *)
(*                                                                         *)
(* Run: the slots of limitListener are counted exactly also while the      *)
(* process is off or has exited (SlotsInv); what Shutdown left open or     *)
(* overran is remembered until the exit (DrainInv).                        *)
(***************************************************************************)
EXTENDS ServiceRuntime, FiniteSetTheorems, TLAPS

-----------------------------------------------------------------------------
(* The inductive invariant of the startup.                                 *)

Place == [step : Steps, runner : Nat, version : Nat]

PlacesTyped ==
  /\ service \in Services
  /\ startup \in [Processes -> Place]
  /\ work \in [Processes -> SUBSET MigrationsOf(service)]
  /\ \A p \in Processes :
       /\ startup[p].runner \in RunnersOf(service)
       /\ startup[p].version \in 1 .. LastVersion(p) + 1
       /\ At(p, "waiting") => startup[p].version = 1

\* What is recorded is what exists, without a gap.
RecordedExists ==
  /\ recorded \subseteq MigrationsOf(service)
  /\ recorded = objects
  /\ NoGap(recorded)

\* An open transaction has executed migrations of its own runner, below the
\* version it has come to.
WorkOwned ==
  \A p \in Processes : \A m \in work[p] :
    Holds(p, m[1]) /\ m[2] < startup[p].version

\* pg_advisory_xact_lock: one process at a time holds the lock of a runner.
LocksExclusive ==
  \A p, q \in Processes :
    Holds(p, startup[p].runner) /\ Holds(q, startup[p].runner) => p = q

\* Below its version a runner has found every migration or executed it.
VersionsPassed ==
  \A p \in Processes :
    startup[p].step \in {"checking", "executing"} =>
      \A v \in 1 .. startup[p].version - 1 :
        <<startup[p].runner, v>> \in recorded \cup work[p]

\* The runners before the current one, and all of a built process, are done.
RunnersPassed ==
  \A p \in Processes : \A r \in RunnersOf(service) :
    r < startup[p].runner \/ At(p, "built") =>
      \A v \in 1 .. Runners[service][r] : <<r, v>> \in recorded

\* A migration about to be executed is neither recorded nor executed.
ExecutingNew ==
  \A p \in Processes :
    At(p, "executing") =>
      /\ Migration(p) \notin recorded \cup work[p]
      /\ startup[p].version <= LastVersion(p)

StartupInv ==
  /\ PlacesTyped
  /\ RecordedExists
  /\ WorkOwned
  /\ LocksExclusive
  /\ VersionsPassed
  /\ RunnersPassed
  /\ ExecutingNew

-----------------------------------------------------------------------------
(* The inductive invariant of Run.                                         *)

ConnStates == {"none", "new", "idle", "handling", "transaction"}

RunTyped ==
  /\ main \in MainSteps
  /\ routine \in [Routines -> {"running", "ended"} \cup Results]
  /\ channel \in Seq(Results)
  /\ accept \in {"start", "token", "accepting"}
  /\ conn \in [Conns -> ConnStates]
  /\ main # "off" => At(self, "built")

\* The slots, in every state.
Accepting == IF accept = "accepting" /\ routine["api"] = "running" THEN 1 ELSE 0

SlotsInv ==
  /\ IsFiniteSet(Open)
  /\ tokens = Cardinality(Open) + Accepting
  /\ tokens <= MaxNetworkConns

\* Before Run nothing is open; after Shutdown of the API server nothing is, or
\* the overrun is remembered.
DrainInv ==
  /\ main = "off" => Open = {} /\ ~probe
  /\ main \in {"stoppingHealth", "waiting", "closing", "exited"} =>
       Open = {} \/ "api" \in overran
  /\ overran # {} => expired

RunInv == RunTyped /\ SlotsInv /\ DrainInv

RuntimeInv == StartupInv /\ RunInv

-----------------------------------------------------------------------------
(* Startup: one process moves.                                             *)

\* The runners of the service, and its migrations as pairs.
LEMMA MigrationPairs ==
  ASSUME service \in Services
  PROVE  /\ Runners[service] \in Seq(Nat \ {0})
         /\ Len(Runners[service]) \in Nat /\ RunnersOf(service) = 1 .. Len(Runners[service])
         /\ 1 \in RunnersOf(service)
         /\ \A r \in RunnersOf(service) : Runners[service][r] \in Nat \ {0}
         /\ \A m : m \in MigrationsOf(service) <=>
              \E r \in RunnersOf(service) : \E v \in 1 .. Runners[service][r] : m = <<r, v>>
         /\ \A m \in MigrationsOf(service) :
              /\ m = <<m[1], m[2]>> /\ m[1] \in RunnersOf(service)
              /\ m[2] \in Nat /\ m[2] >= 1 /\ m[2] <= Runners[service][m[1]]
<1>1. Runners[service] \in Seq(Nat \ {0}) /\ Runners[service] # << >>
  BY RunnersAssumption
<1>2. \A m : m \in MigrationsOf(service) <=>
              \E r \in RunnersOf(service) : \E v \in 1 .. Runners[service][r] : m = <<r, v>>
  BY DEF MigrationsOf
<1>3. \A r \in RunnersOf(service) : Runners[service][r] \in Nat \ {0}
  BY <1>1 DEF RunnersOf
<1>4. ASSUME NEW m \in MigrationsOf(service)
      PROVE  /\ m = <<m[1], m[2]>> /\ m[1] \in RunnersOf(service)
             /\ m[2] \in Nat /\ m[2] >= 1 /\ m[2] <= Runners[service][m[1]]
  <2>1. PICK r \in RunnersOf(service) : \E v \in 1 .. Runners[service][r] : m = <<r, v>>
    BY <1>2
  <2> QED
    BY <1>3, <2>1
<1> QED
  BY <1>1, <1>2, <1>3, <1>4 DEF RunnersOf

Holding == {"checking", "executing"}

\* Process p may be at place to with the open transaction w.
PlaceFits(p, to, w) ==
  /\ to \in Place
  /\ w \subseteq MigrationsOf(service)
  /\ to.runner \in RunnersOf(service)
  /\ to.version \in 1 .. Runners[service][to.runner] + 1
  /\ to.step = "waiting" => to.version = 1
  /\ \A m \in w : to.step \in Holding /\ to.runner = m[1] /\ m[2] < to.version
  /\ to.step \in Holding => \A q \in Processes \ {p} : ~Holds(q, to.runner)
  /\ to.step \in Holding =>
       \A v \in 1 .. to.version - 1 : <<to.runner, v>> \in recorded' \cup w
  /\ \A r \in RunnersOf(service) :
       r < to.runner \/ to.step = "built" =>
         \A v \in 1 .. Runners[service][r] : <<r, v>> \in recorded'
  /\ to.step = "executing" =>
       /\ <<to.runner, to.version>> \notin recorded' \cup w
       /\ to.version <= Runners[service][to.runner]

\* A step that moves one process to a place that fits keeps the invariant,
\* if the versions only grow and not by what another process is executing.
LEMMA MoveStep ==
  ASSUME StartupInv, NEW p \in Processes, NEW to, NEW w, PlaceFits(p, to, w),
         startup' = [startup EXCEPT ![p] = to], work' = [work EXCEPT ![p] = w],
         service' = service, recorded \subseteq recorded', RecordedExists',
         \A q \in Processes \ {p} : At(q, "executing") => Migration(q) \notin recorded'
  PROVE  StartupInv'
<1>1. /\ startup \in [Processes -> Place] /\ work \in [Processes -> SUBSET MigrationsOf(service)]
      /\ service \in Services
  BY DEF StartupInv, PlacesTyped
<1>2. /\ startup'[p] = to /\ work'[p] = w
      /\ \A q \in Processes \ {p} : startup'[q] = startup[q] /\ work'[q] = work[q]
  BY <1>1
<1>3. PlacesTyped'
  <2>1. startup' \in [Processes -> Place] /\ work' \in [Processes -> SUBSET MigrationsOf(service)]
    BY <1>1 DEF PlaceFits
  <2>2. ASSUME NEW q \in Processes
        PROVE  /\ startup'[q].runner \in RunnersOf(service)
               /\ startup'[q].version \in 1 .. Runners[service][startup'[q].runner] + 1
               /\ startup'[q].step = "waiting" => startup'[q].version = 1
    BY <1>2 DEF PlaceFits, StartupInv, PlacesTyped, LastVersion, At
  <2>3. MigrationsOf(service)' = MigrationsOf(service) /\ RunnersOf(service)' = RunnersOf(service)
    BY DEF MigrationsOf, RunnersOf
  <2> QED
    BY <1>1, <2>1, <2>2, <2>3 DEF PlacesTyped, LastVersion, At
<1>4. WorkOwned'
  <2> SUFFICES ASSUME NEW q \in Processes, NEW m \in work'[q]
               PROVE  /\ startup'[q].step \in Holding /\ startup'[q].runner = m[1]
                      /\ m[2] < startup'[q].version
    BY DEF WorkOwned, Holds, Holding
  <2> QED
    BY <1>2 DEF PlaceFits, StartupInv, WorkOwned, Holds, Holding
<1>5. LocksExclusive'
  <2> SUFFICES ASSUME NEW a \in Processes, NEW b \in Processes,
                      startup'[a].step \in Holding, startup'[b].step \in Holding,
                      startup'[a].runner = startup'[b].runner
               PROVE  a = b
    BY DEF LocksExclusive, Holds, Holding
  <2>1. CASE a # p /\ b # p
    BY <1>2, <2>1 DEF StartupInv, LocksExclusive, Holds, Holding
  <2>2. CASE a = p \/ b = p
    BY <1>2, <2>2 DEF PlaceFits, Holds, Holding
  <2> QED
    BY <2>1, <2>2
<1>6. VersionsPassed'
  <2> SUFFICES ASSUME NEW q \in Processes, startup'[q].step \in Holding,
                      NEW v \in 1 .. startup'[q].version - 1
               PROVE  <<startup'[q].runner, v>> \in recorded' \cup work'[q]
    BY DEF VersionsPassed, Holding
  <2>1. CASE q = p
    BY <1>2, <2>1 DEF PlaceFits
  <2>2. CASE q # p
    BY <1>2, <2>2 DEF StartupInv, VersionsPassed, Holding
  <2> QED
    BY <2>1, <2>2
<1>7. RunnersPassed'
  <2> SUFFICES ASSUME NEW q \in Processes, NEW r \in RunnersOf(service),
                      r < startup'[q].runner \/ startup'[q].step = "built",
                      NEW v \in 1 .. Runners[service][r]
               PROVE  <<r, v>> \in recorded'
    BY DEF RunnersPassed, At, RunnersOf
  <2>1. CASE q = p
    BY <1>2, <2>1 DEF PlaceFits
  <2>2. CASE q # p
    BY <1>2, <2>2 DEF StartupInv, RunnersPassed, At
  <2> QED
    BY <2>1, <2>2
<1>8. ExecutingNew'
  <2> SUFFICES ASSUME NEW q \in Processes, startup'[q].step = "executing"
               PROVE  /\ <<startup'[q].runner, startup'[q].version>> \notin recorded' \cup work'[q]
                      /\ startup'[q].version <= Runners[service][startup'[q].runner]
    BY DEF ExecutingNew, At, Migration, LastVersion
  <2>1. CASE q = p
    BY <1>2, <2>1 DEF PlaceFits
  <2>2. CASE q # p
    BY <1>2, <2>2 DEF StartupInv, ExecutingNew, At, Migration, LastVersion
  <2> QED
    BY <2>1, <2>2
<1> QED
  BY <1>3, <1>4, <1>5, <1>6, <1>7, <1>8 DEF StartupInv

\* The same, for the steps that leave the tables alone.
LEMMA QuietMove ==
  ASSUME StartupInv, NEW p \in Processes, NEW to, NEW w,
         UNCHANGED <<service, recorded, objects>>, PlaceFits(p, to, w),
         startup' = [startup EXCEPT ![p] = to], work' = [work EXCEPT ![p] = w]
  PROVE  StartupInv'
<1>1. RecordedExists'
  BY DEF StartupInv, RecordedExists, MigrationsOf, RunnersOf, NoGap
<1>2. \A q \in Processes \ {p} : At(q, "executing") => Migration(q) \notin recorded'
  BY DEF StartupInv, ExecutingNew
<1> QED
  BY <1>1, <1>2, MoveStep

\* Begin, Retry and a restart put a process without a transaction outside all
\* locks, at the first runner.
LEMMA OutsideStep ==
  ASSUME StartupInv, NEW p \in Processes, NEW step \in {"start", "waiting", "failed"},
         UNCHANGED <<service, recorded, objects>>,
         startup' = [startup EXCEPT ![p] = [step |-> step, runner |-> 1, version |-> 1]],
         work' = [work EXCEPT ![p] = {}]
  PROVE  StartupInv'
<1> DEFINE to == [step |-> step, runner |-> 1, version |-> 1]
<1>1. /\ 1 \in RunnersOf(service) /\ Runners[service][1] \in Nat \ {0}
      /\ RunnersOf(service) \subseteq Nat \ {0}
  BY MigrationPairs DEF StartupInv, PlacesTyped
<1>2. to \in Place /\ to.step = step /\ to.runner = 1 /\ to.version = 1
  BY DEF Place, Steps
<1>3. \A r \in RunnersOf(service) : ~(r < 1)
  BY <1>1
<1>4. PlaceFits(p, to, {})
  BY <1>1, <1>2, <1>3 DEF PlaceFits, Holding
<1> QED
  BY <1>4, QuietMove

\* Outside its locks a process has no open transaction.
LEMMA NoWorkOutside ==
  ASSUME StartupInv, NEW p \in Processes, startup[p].step \notin Holding
  PROVE  work[p] = {} /\ work = [work EXCEPT ![p] = {}]
<1>1. work[p] = {}
  BY DEF StartupInv, WorkOwned, Holds, Holding
<1> QED
  BY <1>1 DEF StartupInv, PlacesTyped

\* Where a process is, in detail.
LEMMA PlaceFacts ==
  ASSUME StartupInv, NEW p \in Processes
  PROVE  /\ startup[p] \in Place
         /\ startup[p].runner \in RunnersOf(service) /\ startup[p].runner \in Nat
         /\ startup[p].version \in Nat /\ startup[p].version >= 1
         /\ LastVersion(p) = Runners[service][startup[p].runner] /\ LastVersion(p) \in Nat \ {0}
         /\ startup[p].version <= LastVersion(p) + 1
         /\ work[p] \subseteq MigrationsOf(service)
         /\ work = [work EXCEPT ![p] = work[p]]
<1>1. service \in Services /\ startup[p] \in Place /\ work \in [Processes -> SUBSET MigrationsOf(service)]
  BY DEF StartupInv, PlacesTyped
<1>2. startup[p].runner \in RunnersOf(service) /\ startup[p].version \in 1 .. LastVersion(p) + 1
  BY DEF StartupInv, PlacesTyped
<1>3. LastVersion(p) \in Nat \ {0} /\ LastVersion(p) = Runners[service][startup[p].runner]
  BY <1>1, <1>2, MigrationPairs DEF LastVersion
<1> QED
  BY <1>1, <1>2, <1>3 DEF Place

\* Lock keeps the invariant: the lock is free, and the loop starts at the
\* first version.
LEMMA LockStep ==
  ASSUME StartupInv, NEW p \in Processes, Lock(p)
  PROVE  StartupInv'
<1> DEFINE to == [startup[p] EXCEPT !.step = "checking"]
<1>1. /\ startup[p].step = "waiting" /\ LockFree(p)
      /\ startup' = [startup EXCEPT ![p] = to] /\ UNCHANGED <<service, recorded, objects, work>>
  BY DEF Lock, At, Move
<1>2. work[p] = {} /\ work' = [work EXCEPT ![p] = {}]
  BY <1>1, NoWorkOutside DEF Holding
<1>3. /\ to \in Place /\ to.step = "checking"
      /\ to.runner = startup[p].runner /\ to.version = startup[p].version
  BY PlaceFacts DEF Place, Steps
<1> HIDE DEF to
<1>4. startup[p].version = 1
  BY <1>1 DEF StartupInv, PlacesTyped, At
<1>5. \A r \in RunnersOf(service) : r < to.runner =>
        \A v \in 1 .. Runners[service][r] : <<r, v>> \in recorded'
  BY <1>1, <1>3 DEF StartupInv, RunnersPassed
<1>6. \A v \in 1 .. to.version - 1 : FALSE
  BY <1>3, <1>4
<1>7. \A q \in Processes \ {p} : ~Holds(q, to.runner)
  BY <1>1, <1>3 DEF LockFree
<1>8. to.runner \in RunnersOf(service) /\ to.version \in 1 .. Runners[service][to.runner] + 1
  BY <1>3, PlaceFacts
<1>9. PlaceFits(p, to, {})
  BY <1>3, <1>4, <1>5, <1>6, <1>7, <1>8 DEF PlaceFits, Holding
<1> QED
  BY <1>1, <1>2, <1>9, QuietMove

\* Begin, Retry and StartupFails keep the invariant.
LEMMA OutsideSteps ==
  ASSUME StartupInv, NEW p \in Processes, Begin(p) \/ Retry(p) \/ StartupFails(p)
  PROVE  StartupInv'
<1>1. CASE Begin(p)
  <2>1. /\ startup' = [startup EXCEPT ![p] = [step |-> "waiting", runner |-> 1, version |-> 1]]
        /\ UNCHANGED <<service, recorded, objects>> /\ work' = [work EXCEPT ![p] = {}]
    BY <1>1, NoWorkOutside DEF Begin, Move, At, Holding
  <2> QED
    BY <2>1, OutsideStep
<1>2. CASE Retry(p)
  <2>1. /\ startup' = [startup EXCEPT ![p] = [step |-> "start", runner |-> 1, version |-> 1]]
        /\ UNCHANGED <<service, recorded, objects>> /\ work' = [work EXCEPT ![p] = {}]
    BY <1>2, NoWorkOutside DEF Retry, Move, At, Holding, NotStarted
  <2> QED
    BY <2>1, OutsideStep
<1>3. CASE StartupFails(p)
  <2>1. /\ startup' = [startup EXCEPT ![p] = [step |-> "failed", runner |-> 1, version |-> 1]]
        /\ UNCHANGED <<service, recorded, objects>> /\ work' = [work EXCEPT ![p] = {}]
    <3>1. Failed(p) = [step |-> "failed", runner |-> 1, version |-> 1]
      BY DEF Failed, NotStarted
    <3> QED
      BY <1>3, <3>1 DEF StartupFails, Move
  <2> QED
    BY <2>1, OutsideStep
<1> QED
  BY <1>1, <1>2, <1>3

\* Check keeps the invariant: a version that is there is passed, and one that
\* is not is new to everyone, since only the holder of the lock executes it.
LEMMA CheckStep ==
  ASSUME StartupInv, NEW p \in Processes, Check(p)
  PROVE  StartupInv'
<1> DEFINE to == IF Applied(p) THEN [startup[p] EXCEPT !.version = @ + 1]
                 ELSE [startup[p] EXCEPT !.step = "executing"]
<1> DEFINE r == startup[p].runner
<1> DEFINE v == startup[p].version
<1>1. /\ startup[p].step = "checking" /\ v <= LastVersion(p)
      /\ startup' = [startup EXCEPT ![p] = to] /\ UNCHANGED <<service, recorded, objects, work>>
  BY DEF Check, At, Move
<1>2. /\ r \in RunnersOf(service) /\ v \in Nat /\ v >= 1 /\ startup[p] \in Place
      /\ LastVersion(p) = Runners[service][r] /\ LastVersion(p) \in Nat
      /\ work[p] \subseteq MigrationsOf(service) /\ work = [work EXCEPT ![p] = work[p]]
  BY PlaceFacts
<1>3. /\ to \in Place /\ to.runner = r /\ to.step \in Holding
      /\ Applied(p) => to.step = "checking" /\ to.version = v + 1
      /\ ~Applied(p) => to.step = "executing" /\ to.version = v
  BY <1>1, <1>2 DEF Place, Steps, Holding
<1>4. \A u \in 1 .. v - 1 : <<r, u>> \in recorded \cup work[p]
  BY <1>1 DEF StartupInv, VersionsPassed
<1>5. Applied(p) <=> <<r, v>> \in recorded \cup work[p]
  BY DEF Applied, Migration
<1>6. \A s \in RunnersOf(service) : s < r =>
        \A u \in 1 .. Runners[service][s] : <<s, u>> \in recorded'
  BY <1>1 DEF StartupInv, RunnersPassed
<1>7. \A q \in Processes \ {p} : ~Holds(q, r)
  BY <1>1 DEF StartupInv, LocksExclusive, Holds
<1>8. \A m \in work[p] : r = m[1] /\ m[2] < v /\ m[2] \in Nat
  <2>1. \A m \in work[p] : m[2] \in Nat
    BY <1>2, MigrationPairs DEF StartupInv, PlacesTyped
  <2> QED
    BY <2>1 DEF StartupInv, WorkOwned, Holds
<1>9. \A u \in 1 .. to.version - 1 : <<r, u>> \in recorded' \cup work[p]
  <2>1. CASE Applied(p)
    <3>1. \A u \in 1 .. to.version - 1 : u \in 1 .. v - 1 \/ u = v
      BY <1>2, <1>3, <2>1
    <3> QED
      BY <3>1, <1>1, <1>4, <1>5, <2>1
  <2>2. CASE ~Applied(p)
    BY <1>1, <1>3, <1>4, <2>2
  <2> QED
    BY <2>1, <2>2
<1>10. to.version \in 1 .. Runners[service][r] + 1 /\ v <= to.version
  BY <1>1, <1>2, <1>3
<1> HIDE DEF to, r, v
<1>11. \A m \in work[p] : m[2] < to.version
  BY <1>2, <1>8, <1>10
<1>12. to.step # "waiting" /\ to.step # "built"
  BY <1>3 DEF Holding
<1>13. to.step = "executing" =>
         <<to.runner, to.version>> \notin recorded' \cup work[p] /\ to.version <= Runners[service][to.runner]
  BY <1>1, <1>2, <1>3, <1>5
<1>14. PlaceFits(p, to, work[p])
  BY <1>2, <1>3, <1>6, <1>7, <1>8, <1>9, <1>10, <1>11, <1>12, <1>13 DEF PlaceFits
<1> QED
  BY <1>1, <1>2, <1>14, QuietMove

\* The place after a migration: the next version of the same runner.
LEMMA PassedPlace ==
  ASSUME NEW at \in Place
  PROVE  LET to == [at EXCEPT !.step = "checking", !.version = @ + 1]
         IN  /\ to \in Place /\ to.runner = at.runner
             /\ to.step = "checking" /\ to.version = at.version + 1
<1> DEFINE mid == [at EXCEPT !.step = "checking"]
<1> DEFINE to == [at EXCEPT !.step = "checking", !.version = @ + 1]
<1>1. mid \in Place /\ mid.step = "checking" /\ mid.runner = at.runner /\ mid.version = at.version
  BY DEF Place, Steps
<1>2. to = [mid EXCEPT !.version = @ + 1]
  OBVIOUS
<1> HIDE DEF mid, to
<1>3. /\ to \in Place /\ to.runner = at.runner
      /\ to.step = "checking" /\ to.version = at.version + 1
  BY <1>1, <1>2 DEF Place
<1> QED
  BY <1>3 DEF to

\* Execute keeps the invariant: the migration joins the open transaction.
LEMMA ExecuteStep ==
  ASSUME StartupInv, NEW p \in Processes, Execute(p)
  PROVE  StartupInv'
<1> DEFINE to == [startup[p] EXCEPT !.step = "checking", !.version = @ + 1]
<1> DEFINE r == startup[p].runner
<1> DEFINE v == startup[p].version
<1> DEFINE w == work[p] \cup {<<r, v>>}
<1>1. /\ startup[p].step = "executing" /\ startup' = [startup EXCEPT ![p] = to]
      /\ UNCHANGED <<service, recorded, objects>> /\ work' = [work EXCEPT ![p] = w]
  BY DEF Execute, At, Move, Migration
<1>2. /\ r \in RunnersOf(service) /\ v \in Nat /\ v >= 1 /\ startup[p] \in Place
      /\ LastVersion(p) = Runners[service][r] /\ LastVersion(p) \in Nat
      /\ work[p] \subseteq MigrationsOf(service)
  BY PlaceFacts
<1>3. to \in Place /\ to.runner = r /\ to.step = "checking" /\ to.version = v + 1
  BY <1>2, PassedPlace
<1>4. \A u \in 1 .. v - 1 : <<r, u>> \in recorded \cup work[p]
  BY <1>1 DEF StartupInv, VersionsPassed
<1>5. v <= LastVersion(p)
  BY <1>1 DEF StartupInv, ExecutingNew, At
<1>6. \A s \in RunnersOf(service) : s < r =>
        \A u \in 1 .. Runners[service][s] : <<s, u>> \in recorded'
  BY <1>1 DEF StartupInv, RunnersPassed
<1>7. \A q \in Processes \ {p} : ~Holds(q, r)
  BY <1>1 DEF StartupInv, LocksExclusive, Holds
<1>8. \A m \in work[p] : r = m[1] /\ m[2] < v /\ m[2] \in Nat
  <2>1. \A m \in work[p] : m[2] \in Nat
    BY <1>2, MigrationPairs DEF StartupInv, PlacesTyped
  <2> QED
    BY <2>1 DEF StartupInv, WorkOwned, Holds
<1>9. w \subseteq MigrationsOf(service)
  <2>1. v \in 1 .. Runners[service][r]
    BY <1>2, <1>5
  <2>2. <<r, v>> \in MigrationsOf(service)
    BY <1>2, <2>1, MigrationPairs DEF StartupInv, PlacesTyped
  <2> QED
    BY <1>2, <2>2
<1>10. \A u \in 1 .. to.version - 1 : <<r, u>> \in recorded' \cup w
  <2>1. \A u \in 1 .. to.version - 1 : u \in 1 .. v - 1 \/ u = v
    BY <1>2, <1>3
  <2> QED
    BY <2>1, <1>1, <1>4
<1>11. to.version \in 1 .. Runners[service][r] + 1
  BY <1>2, <1>3, <1>5
<1>12. \A m \in w : r = m[1] /\ m[2] < to.version
  <2>1. ASSUME NEW m \in w PROVE r = m[1] /\ m[2] < to.version
    <3>1. CASE m \in work[p]
      BY <1>2, <1>3, <1>8, <3>1
    <3>2. CASE m = <<r, v>>
      BY <1>2, <1>3, <3>2
    <3> QED
      BY <3>1, <3>2
  <2> QED
    BY <2>1
<1> HIDE DEF to, r, v, w
<1>13. PlaceFits(p, to, w)
  BY <1>2, <1>3, <1>6, <1>7, <1>9, <1>10, <1>11, <1>12 DEF PlaceFits, Holding
<1> QED
  BY <1>1, <1>13, QuietMove

\* Commit keeps the invariant: the loop is over, so the runner's migrations
\* are all recorded, and another process is executing one of another runner.
LEMMA CommitStep ==
  ASSUME StartupInv, NEW p \in Processes, Commit(p)
  PROVE  StartupInv'
<1> DEFINE to == AfterRunner(p)
<1> DEFINE r == startup[p].runner
<1> DEFINE v == startup[p].version
<1>1. /\ startup[p].step = "checking" /\ v > LastVersion(p)
      /\ startup' = [startup EXCEPT ![p] = to] /\ service' = service
      /\ recorded' = recorded \cup work[p] /\ objects' = objects \cup work[p]
      /\ work' = [work EXCEPT ![p] = {}]
  BY DEF Commit, At, Move
<1>2. /\ r \in RunnersOf(service) /\ v \in Nat /\ v >= 1 /\ startup[p] \in Place
      /\ LastVersion(p) = Runners[service][r] /\ LastVersion(p) \in Nat
      /\ v <= LastVersion(p) + 1 /\ work[p] \subseteq MigrationsOf(service)
  BY PlaceFacts
<1>3. /\ service \in Services /\ RunnersOf(service) = 1 .. Len(Runners[service])
      /\ Len(Runners[service]) \in Nat
      /\ \A s \in RunnersOf(service) : Runners[service][s] \in Nat \ {0}
      /\ \A m \in MigrationsOf(service) :
              /\ m = <<m[1], m[2]>> /\ m[1] \in RunnersOf(service)
              /\ m[2] \in Nat /\ m[2] >= 1 /\ m[2] <= Runners[service][m[1]]
  BY MigrationPairs DEF StartupInv, PlacesTyped
<1>4. \A u \in 1 .. Runners[service][r] : <<r, u>> \in recorded'
  <2>1. \A u \in 1 .. Runners[service][r] : u \in 1 .. v - 1
    BY <1>1, <1>2
  <2>2. \A u \in 1 .. v - 1 : <<r, u>> \in recorded \cup work[p]
    BY <1>1 DEF StartupInv, VersionsPassed
  <2> QED
    BY <1>1, <2>1, <2>2
<1>5. \A s \in RunnersOf(service) : s < r =>
        \A u \in 1 .. Runners[service][s] : <<s, u>> \in recorded'
  BY <1>1 DEF StartupInv, RunnersPassed
<1>6. \A m \in work[p] : m[1] = r
  BY DEF StartupInv, WorkOwned, Holds
<1>7. RecordedExists'
  <2>1. recorded \subseteq MigrationsOf(service) /\ recorded = objects /\ NoGap(recorded)
    BY DEF StartupInv, RecordedExists
  <2>2. ASSUME NEW m \in recorded', NEW k \in {m[1]} \X (1 .. m[2])
        PROVE  k \in recorded'
    <3>1. CASE m \in recorded
      BY <1>1, <2>1, <3>1 DEF NoGap
    <3>2. CASE m \in work[p]
      <4>1. m[1] = r /\ m[2] \in Nat /\ m[2] <= Runners[service][r]
        BY <1>2, <1>3, <1>6, <3>2
      <4>2. k = <<k[1], k[2]>> /\ k[1] = m[1] /\ k[2] \in 1 .. m[2]
        OBVIOUS
      <4>3. k[2] \in 1 .. Runners[service][r]
        BY <1>2, <1>3, <4>1, <4>2
      <4> QED
        BY <1>4, <4>1, <4>2, <4>3
    <3> QED
      BY <1>1, <3>1, <3>2
  <2>3. NoGap(recorded)'
    BY <2>2 DEF NoGap
  <2>4. MigrationsOf(service)' = MigrationsOf(service)
    BY <1>1 DEF MigrationsOf, RunnersOf
  <2> QED
    BY <1>1, <1>2, <2>1, <2>3, <2>4 DEF RecordedExists
<1>8. \A q \in Processes \ {p} : At(q, "executing") => Migration(q) \notin recorded'
  <2> SUFFICES ASSUME NEW q \in Processes \ {p}, startup[q].step = "executing"
               PROVE  Migration(q) \notin recorded'
    BY DEF At
  <2>1. Migration(q) \notin recorded
    BY DEF StartupInv, ExecutingNew, At
  <2>2. startup[q].runner # r
    BY <1>1 DEF StartupInv, LocksExclusive, Holds
  <2>3. Migration(q) \notin work[p]
    BY <1>6, <2>2 DEF Migration
  <2> QED
    BY <1>1, <2>1, <2>3
<1>9. PlaceFits(p, to, {})
  <2>1. CASE r + 1 \in RunnersOf(service)
    <3>1. to = [step |-> "waiting", runner |-> r + 1, version |-> 1]
      BY <2>1 DEF AfterRunner
    <3>2. to \in Place /\ to.step = "waiting" /\ to.runner = r + 1 /\ to.version = 1
      BY <1>2, <1>3, <3>1 DEF Place, Steps
    <3>3. \A s \in RunnersOf(service) : s < to.runner => s < r \/ s = r
      BY <1>2, <1>3, <3>2
    <3>4. to.version \in 1 .. Runners[service][to.runner] + 1
      BY <1>3, <2>1, <3>2
    <3> HIDE DEF to, r
    <3>5. \A s \in RunnersOf(service) : s < to.runner =>
            \A u \in 1 .. Runners[service][s] : <<s, u>> \in recorded'
      BY <1>4, <1>5, <3>3
    <3> QED
      BY <2>1, <3>2, <3>4, <3>5 DEF PlaceFits, Holding
  <2>2. CASE r + 1 \notin RunnersOf(service)
    <3>1. to = [startup[p] EXCEPT !.step = "built"]
      BY <2>2 DEF AfterRunner
    <3>2. to \in Place /\ to.step = "built" /\ to.runner = r /\ to.version = v
      BY <1>2, <3>1 DEF Place, Steps
    <3>3. \A s \in RunnersOf(service) : s < r \/ s = r
      BY <1>2, <1>3, <2>2
    <3>4. to.version \in 1 .. Runners[service][to.runner] + 1
      BY <1>2, <3>2
    <3> HIDE DEF to, r
    <3>5. \A s \in RunnersOf(service) :
            \A u \in 1 .. Runners[service][s] : <<s, u>> \in recorded'
      BY <1>4, <1>5, <3>3
    <3> QED
      BY <1>2, <3>2, <3>4, <3>5 DEF PlaceFits, Holding
  <2> QED
    BY <2>1, <2>2
<1>10. recorded \subseteq recorded'
  BY <1>1
<1> HIDE DEF to
<1> QED
  BY <1>1, <1>7, <1>8, <1>9, <1>10, MoveStep

\* Any step of a starting process keeps the invariant.
LEMMA StartupNextStep ==
  ASSUME StartupInv, NEW p \in Processes, StartupNext(p)
  PROVE  StartupInv'
  BY LockStep, OutsideSteps, CheckStep, ExecuteStep, CommitStep DEF StartupNext, StartupStep

\* A restart of the process keeps the invariant: it has no open transaction.
LEMMA RestartStartup ==
  ASSUME StartupInv, Restart
  PROVE  StartupInv'
<1>1. /\ startup' = [startup EXCEPT ![self] = [step |-> "start", runner |-> 1, version |-> 1]]
      /\ UNCHANGED <<service, recorded, objects>> /\ startup[self].step = "built"
  BY DEF Restart, Move, At, NotStarted
<1>2. self \in Processes
  BY RuntimeAssumption
<1>3. work' = [work EXCEPT ![self] = {}]
  BY <1>1, <1>2, NoWorkOutside DEF Restart, Holding
<1> QED
  BY <1>1, <1>2, <1>3, OutsideStep

\* The startup's initial states satisfy its invariant.
LEMMA StartupFirst ==
  ASSUME StartupInit
  PROVE  StartupInv
<1>1. /\ service \in Services /\ work = [p \in Processes |-> {}]
      /\ recorded = objects /\ recorded \subseteq MigrationsOf(service) /\ NoGap(recorded)
      /\ startup = [p \in Processes |-> NotStarted]
  BY DEF StartupInit
<1>2. /\ 1 \in RunnersOf(service) /\ Runners[service][1] \in Nat \ {0}
      /\ \A s \in RunnersOf(service) : ~(s < 1)
  BY <1>1, MigrationPairs
<1>3. /\ NotStarted \in Place /\ NotStarted.step = "start" /\ NotStarted.runner = 1
      /\ NotStarted.version = 1
  BY DEF NotStarted, Place, Steps
<1>4. PlacesTyped
  BY <1>1, <1>2, <1>3 DEF PlacesTyped, LastVersion, At
<1>5. RecordedExists
  BY <1>1 DEF RecordedExists
<1>6. WorkOwned /\ LocksExclusive /\ VersionsPassed /\ ExecutingNew
  BY <1>1, <1>3 DEF WorkOwned, LocksExclusive, VersionsPassed, ExecutingNew, Holds, At
<1>7. RunnersPassed
  BY <1>1, <1>2, <1>3 DEF RunnersPassed, At
<1> QED
  BY <1>4, <1>5, <1>6, <1>7 DEF StartupInv

-----------------------------------------------------------------------------
(* Run: its slots and connections.                                         *)

\* A connection opens or changes what it does.
LEMMA OpenSet ==
  ASSUME conn \in [Conns -> ConnStates], NEW c \in Conns, NEW state,
         conn' = [conn EXCEPT ![c] = state]
  PROVE  Open' = IF state = "none" THEN Open \ {c} ELSE Open \cup {c}
  BY DEF Open

\* The count of open connections follows.
LEMMA OpenCount ==
  ASSUME IsFiniteSet(Open), conn \in [Conns -> ConnStates], NEW c \in Conns,
         NEW state \in ConnStates, conn' = [conn EXCEPT ![c] = state]
  PROVE  /\ IsFiniteSet(Open') /\ conn' \in [Conns -> ConnStates]
         /\ Cardinality(Open) \in Nat /\ Cardinality(Open') \in Nat
         /\ conn[c] = "none" /\ state # "none" => Cardinality(Open') = Cardinality(Open) + 1
         /\ conn[c] # "none" /\ state = "none" => Cardinality(Open') = Cardinality(Open) - 1
         /\ conn[c] # "none" /\ state # "none" => Open' = Open
<1>1. Open' = IF state = "none" THEN Open \ {c} ELSE Open \cup {c}
  BY OpenSet
<1>2. c \in Open <=> conn[c] # "none"
  BY DEF Open
<1>3. IsFiniteSet(Open') /\ Cardinality(Open) \in Nat /\ Cardinality(Open') \in Nat
  <2>1. IsFiniteSet(Open \ {c}) /\ IsFiniteSet(Open \cup {c})
    BY FS_AddElement, FS_RemoveElement
  <2> QED
    BY <1>1, <2>1, FS_CardinalityType
<1>4. conn[c] = "none" /\ state # "none" => Cardinality(Open') = Cardinality(Open) + 1
  BY <1>1, <1>2, FS_AddElement
<1>5. conn[c] # "none" /\ state = "none" => Cardinality(Open') = Cardinality(Open) - 1
  BY <1>1, <1>2, FS_RemoveElement
<1>6. conn[c] # "none" /\ state # "none" => Open' = Open
  BY <1>1, <1>2
<1> QED
  BY <1>3, <1>4, <1>5, <1>6

\* The goroutines of either service include the two servers.
LEMMA ServersRun == "api" \in Routines /\ "health" \in Routines
  BY DEF Routines, RoutinesOf

\* The slots are counted exactly through a step that neither opens nor closes
\* a connection and leaves the accept loop where it is.
LEMMA SlotsSame ==
  ASSUME SlotsInv, UNCHANGED <<conn, tokens, accept>>,
         (routine'["api"] = "running") = (routine["api"] = "running")
  PROVE  SlotsInv'
<1>1. Open' = Open /\ Accepting' = Accepting
  BY DEF Open, Accepting
<1> QED
  BY <1>1 DEF SlotsInv

\* The steps of Run and of the signal and the timer keep Run's invariant:
\* MainStopped finds nothing open or remembers the overrun.
LEMMA MainStep ==
  ASSUME RunInv, RunStep \/ Signal \/ Expire
  PROVE  RunInv' /\ UNCHANGED startupVars
<1>1. /\ UNCHANGED <<startupVars, routine, accept, tokens, conn, probe>>
  BY DEF RunStep, Launch, ListenFails, StoreReady, Select, Signal, Stop, Expire, MainStopped,
         HealthStopped, AllEnded, Exit, ShutdownReturns
<1>2. SlotsInv'
  BY <1>1, SlotsSame DEF RunInv
<1>3. /\ UNCHANGED <<service, startup>> /\ Open' = Open
      /\ Routines' = Routines
  BY <1>1 DEF startupVars, Open, Routines, RoutinesOf
<1>4. channel' \in Seq(Results)
  <2>1. channel \in Seq(Results)
    BY DEF RunInv, RunTyped
  <2>2. UNCHANGED channel \/ (channel # << >> /\ channel' = Tail(channel))
    BY DEF RunStep, Launch, ListenFails, StoreReady, Select, Signal, Stop, Expire, MainStopped,
         HealthStopped, AllEnded, Exit, ShutdownReturns
  <2> QED
    BY <2>1, <2>2
<1>5. main' \in MainSteps /\ (main' # "off" => main # "off" \/ At(self, "built"))
  BY DEF RunInv, RunTyped, RunStep, Launch, ListenFails, StoreReady, Select, Signal, Stop, Expire,
         MainStopped, HealthStopped, AllEnded, Exit, ShutdownReturns, Wake, MainSteps
<1>6. RunTyped'
  BY <1>1, <1>3, <1>4, <1>5 DEF RunInv, RunTyped, At
<1>7. DrainInv'
  <2>1. CASE RunStep /\ ~MainStopped /\ ~HealthStopped /\ ~Exit /\ ~ListenFails
    <3>1. UNCHANGED <<expired, overran>> /\ main' # "off" /\ main' # "exited"
      BY <2>1 DEF RunStep, Launch, StoreReady, Select, Stop, AllEnded, Wake
    <3>2. main' \in {"stoppingHealth", "waiting", "closing", "exited"} => main = "waiting"
      BY <2>1 DEF RunStep, Launch, StoreReady, Select, Stop, AllEnded, Wake
    <3> QED
      BY <1>3, <3>1, <3>2 DEF RunInv, DrainInv
  <2>2. CASE MainStopped
    BY <1>1, <1>3, <2>2 DEF MainStopped, ShutdownReturns, Overran, RunInv, DrainInv
  <2>3. CASE HealthStopped
    BY <1>1, <1>3, <2>3 DEF HealthStopped, ShutdownReturns, Overran, RunInv, DrainInv
  <2>4. CASE Exit
    BY <1>1, <1>3, <2>4 DEF Exit, RunInv, DrainInv
  <2>5. CASE ListenFails
    BY <1>1, <1>3, <2>5 DEF ListenFails, RunInv, DrainInv
  <2>6. CASE Signal
    BY <1>1, <1>3, <2>6 DEF Signal, Wake, RunInv, DrainInv
  <2>7. CASE Expire
    BY <1>1, <1>3, <2>7 DEF Expire, RunInv, DrainInv
  <2> QED
    BY <2>1, <2>2, <2>3, <2>4, <2>5, <2>6, <2>7
<1> QED
  BY <1>1, <1>2, <1>6, <1>7 DEF RunInv

\* The results of the goroutines and the readiness check keep it too.
LEMMA RoutineStep ==
  ASSUME RunInv,
         \/ \E g \in Routines : Send(g)
         \/ \E result \in Results : WorkerReturns(result) \/ HealthReturns(result)
         \/ Probe \/ ProbeEnds
  PROVE  RunInv' /\ UNCHANGED startupVars
<1>1. UNCHANGED <<startupVars, accept, tokens, conn, expired, overran>>
  BY DEF Send, WorkerReturns, HealthReturns, Probe, ProbeEnds
<1>2. /\ UNCHANGED <<service, startup>> /\ Open' = Open
      /\ Routines' = Routines
  BY <1>1 DEF startupVars, Open, Routines, RoutinesOf
<1>3. /\ routine \in [Routines -> {"running", "ended"} \cup Results] /\ channel \in Seq(Results)
      /\ main \in MainSteps
  BY DEF RunInv, RunTyped
<1>4. Alive /\ main' \in MainSteps /\ (main' = main \/ main' = "woken")
  BY <1>3 DEF Send, WorkerReturns, HealthReturns, Probe, ProbeEnds, Running, Ready, Alive, Serving,
              Wake, MainSteps
<1>5. /\ routine' \in [Routines -> {"running", "ended"} \cup Results] /\ channel' \in Seq(Results)
      /\ (routine'["api"] = "running") = (routine["api"] = "running")
  <2>1. CASE \E g \in Routines : Send(g)
    <3>1. PICK g \in Routines : Send(g)
      BY <2>1
    <3>2. routine[g] \in Results /\ routine' = [routine EXCEPT ![g] = "ended"]
      BY <3>1 DEF Send, Return
    <3>3. channel' = channel \/ channel' = Append(channel, routine[g])
      BY <3>1 DEF Send
    <3> QED
      BY <1>3, <3>2, <3>3, ServersRun DEF Results
  <2>2. CASE \E result \in Results : WorkerReturns(result) \/ HealthReturns(result)
    BY <1>3, <2>2, ServersRun DEF WorkerReturns, HealthReturns, Return
  <2>3. CASE Probe \/ ProbeEnds
    BY <1>3, <2>3 DEF Probe, ProbeEnds
  <2> QED
    BY <2>1, <2>2, <2>3
<1>6. SlotsInv'
  BY <1>1, <1>5, SlotsSame DEF RunInv
<1>7. main # "off" /\ main # "exited"
  BY <1>4 DEF Alive, Serving, Stopping
<1>8. RunTyped'
  BY <1>1, <1>2, <1>4, <1>5, <1>7 DEF RunInv, RunTyped, At
<1>9. DrainInv'
  BY <1>1, <1>2, <1>4, <1>7 DEF RunInv, DrainInv
<1> QED
  BY <1>1, <1>6, <1>8, <1>9 DEF RunInv

\* The accept loop keeps it: TakeToken and the failed accepts move the slot
\* between the loop and the pool of free ones.
LEMMA AcceptLoopStep ==
  ASSUME RunInv, ServeStep \/ AcceptFails("retry") \/ AcceptFails("fault")
  PROVE  RunInv' /\ UNCHANGED startupVars
<1>1. UNCHANGED <<startupVars, main, channel, conn, probe, expired, overran>>
  BY DEF ServeStep, ServeBegins, TakeToken, TokenWaitEnds, AcceptFails
<1>2. /\ UNCHANGED <<service, startup>> /\ Open' = Open
      /\ Routines' = Routines
  BY <1>1 DEF startupVars, Open, Routines, RoutinesOf
<1>3. /\ routine \in [Routines -> {"running", "ended"} \cup Results]
      /\ accept \in {"start", "token", "accepting"}
  BY DEF RunInv, RunTyped
<1>4. /\ routine' \in [Routines -> {"running", "ended"} \cup Results]
      /\ accept' \in {"start", "token", "accepting"}
  BY <1>3 DEF ServeStep, ServeBegins, TakeToken, TokenWaitEnds, AcceptFails, Return, Results
<1>5. RunTyped' /\ DrainInv'
  BY <1>1, <1>2, <1>4 DEF RunInv, RunTyped, DrainInv, At
<1>6. /\ IsFiniteSet(Open) /\ tokens = Cardinality(Open) + Accepting /\ tokens <= MaxNetworkConns
      /\ Cardinality(Open) \in Nat /\ Accepting \in {0, 1} /\ MaxNetworkConns \in Nat
  BY FS_CardinalityType, RuntimeAssumption DEF RunInv, SlotsInv, Accepting
<1>7. tokens' = Cardinality(Open) + Accepting' /\ tokens' <= MaxNetworkConns
  <2>1. CASE ServeBegins
    BY <1>3, <1>6, <2>1, ServersRun DEF ServeBegins, Accepting, Return, Running
  <2>2. CASE TakeToken
    BY <1>6, <2>2 DEF TakeToken, Accepting, Running
  <2>3. CASE TokenWaitEnds
    BY <1>3, <1>6, <2>3, ServersRun DEF TokenWaitEnds, Accepting, Return, Running
  <2>4. CASE AcceptFails("closed") \/ AcceptFails("retry") \/ AcceptFails("fault")
    <3>1. Accepting = 1 /\ tokens' = tokens - 1
      BY <2>4 DEF AcceptFails, Accepting, Running, TokensReleased
    <3>2. Accepting' = 0
      BY <1>3, <2>4, ServersRun DEF AcceptFails, Accepting, Return
    <3> QED
      BY <1>6, <3>1, <3>2
  <2> QED
    BY <2>1, <2>2, <2>3, <2>4 DEF ServeStep
<1>8. SlotsInv'
  BY <1>2, <1>6, <1>7 DEF SlotsInv
<1> QED
  BY <1>1, <1>5, <1>8 DEF RunInv

\* A step of a connection keeps Run's invariant: an accepted one takes over the
\* slot of the accept loop, a closed one returns it.
LEMMA ConnectionStep ==
  ASSUME RunInv, NEW c \in Conns,
         \/ AcceptConnection(c) \/ Request(c) \/ Respond(c) \/ Hangup(c) \/ CloseIdle(c)
         \/ BeginTransaction(c) \/ EndTransaction(c)
  PROVE  RunInv' /\ UNCHANGED startupVars
<1>1. UNCHANGED <<startupVars, main, channel, routine, probe, expired, overran>>
  BY DEF AcceptConnection, Request, Respond, Hangup, CloseIdle, BeginTransaction, EndTransaction,
         Turns, Close
<1>2. UNCHANGED <<service, startup>> /\ Routines' = Routines
  BY <1>1 DEF startupVars, Routines, RoutinesOf
<1>3. /\ conn \in [Conns -> ConnStates] /\ accept \in {"start", "token", "accepting"}
      /\ IsFiniteSet(Open) /\ tokens = Cardinality(Open) + Accepting /\ tokens <= MaxNetworkConns
      /\ Cardinality(Open) \in Nat /\ Accepting \in {0, 1} /\ MaxNetworkConns \in Nat
  BY FS_CardinalityType, RuntimeAssumption DEF RunInv, RunTyped, SlotsInv, Accepting
<1>4. main # "off" /\ main # "exited"
  BY DEF AcceptConnection, Request, Respond, Hangup, CloseIdle, BeginTransaction, EndTransaction,
         Alive, Running, Serving, Stopping
<1>5. CASE AcceptConnection(c)
  <2>1. /\ conn[c] = "none" /\ conn' = [conn EXCEPT ![c] = "new"] /\ UNCHANGED tokens
        /\ accept = "accepting" /\ accept' = "token" /\ routine["api"] = "running"
        /\ main \in Serving
    BY <1>5 DEF AcceptConnection, Running
  <2>2. /\ IsFiniteSet(Open') /\ conn' \in [Conns -> ConnStates]
        /\ Cardinality(Open') = Cardinality(Open) + 1
    BY <1>3, <2>1, OpenCount DEF ConnStates
  <2>3. Accepting = 1 /\ Accepting' = 0
    BY <2>1 DEF Accepting
  <2>4. SlotsInv'
    BY <1>3, <2>1, <2>2, <2>3 DEF SlotsInv
  <2>5. RunTyped'
    BY <1>1, <1>2, <2>1, <2>2 DEF RunInv, RunTyped, At
  <2>6. main' \notin {"off", "stoppingHealth", "waiting", "closing", "exited"}
    BY <1>1, <2>1 DEF Serving
  <2>7. DrainInv'
    BY <1>1, <2>6 DEF RunInv, DrainInv
  <2> QED
    BY <1>1, <2>4, <2>5, <2>7 DEF RunInv
<1>6. CASE \E state \in ConnStates \ {"none"} : conn[c] # "none" /\ Turns(c, state)
  <2>1. PICK state \in ConnStates \ {"none"} : conn[c] # "none" /\ Turns(c, state)
    BY <1>6
  <2>2. conn' = [conn EXCEPT ![c] = state] /\ UNCHANGED <<tokens, accept>>
    BY <2>1 DEF Turns
  <2>3. Open' = Open /\ conn' \in [Conns -> ConnStates]
    BY <1>3, <2>1, <2>2, OpenCount
  <2>4. SlotsInv'
    BY <1>1, <1>3, <2>2, <2>3 DEF SlotsInv, Accepting
  <2>5. RunTyped' /\ DrainInv'
    BY <1>1, <1>2, <1>4, <2>2, <2>3 DEF RunInv, RunTyped, DrainInv, At
  <2> QED
    BY <1>1, <2>4, <2>5 DEF RunInv
<1>7. CASE conn[c] # "none" /\ Close(c)
  <2>1. conn' = [conn EXCEPT ![c] = "none"] /\ tokens' = tokens - 1 /\ UNCHANGED accept
    BY <1>7 DEF Close, TokensReleased
  <2>2. /\ IsFiniteSet(Open') /\ conn' \in [Conns -> ConnStates] /\ Cardinality(Open') \in Nat
        /\ Cardinality(Open') = Cardinality(Open) - 1
    BY <1>3, <1>7, <2>1, OpenCount DEF ConnStates
  <2>3. Open' \subseteq Open
    BY <1>3, <2>1, OpenSet
  <2>4. SlotsInv'
    BY <1>1, <1>3, <2>1, <2>2 DEF SlotsInv, Accepting
  <2>5. RunTyped' /\ DrainInv'
    BY <1>1, <1>2, <1>4, <2>1, <2>2, <2>3 DEF RunInv, RunTyped, DrainInv, At
  <2> QED
    BY <1>1, <2>4, <2>5 DEF RunInv
<1> QED
  BY <1>5, <1>6, <1>7
     DEF Request, Respond, Hangup, CloseIdle, BeginTransaction, EndTransaction, ConnStates

\* Steps of starting processes leave a process that runs alone.
LEMMA OthersStart ==
  ASSUME StartupInv, RunInv, NEW p \in Processes, StartupNext(p), UNCHANGED runVars
  PROVE  RunInv'
<1>1. startup \in [Processes -> Place] /\ self \in Processes
  BY RuntimeAssumption DEF StartupInv, PlacesTyped
<1>2. /\ service' = service /\ startup[p].step # "built"
      /\ \E to : startup' = [startup EXCEPT ![p] = to]
  BY DEF StartupNext, StartupStep, Begin, Lock, Check, Execute, Commit, StartupFails, Retry, Move, At
<1>3. At(self, "built") => At(self, "built")'
  BY <1>1, <1>2 DEF At
<1>4. Routines' = Routines /\ Open' = Open /\ Accepting' = Accepting
  BY <1>2 DEF runVars, Routines, RoutinesOf, Open, Accepting
<1> QED
  BY <1>3, <1>4 DEF RunInv, RunTyped, SlotsInv, DrainInv, runVars

\* A process that is off has nothing open.
LEMMA OffState ==
  ASSUME main = "off", routine = [g \in Routines |-> "running"], channel = << >>,
         accept = "start", tokens = 0, conn = [c \in Conns |-> "none"], probe = FALSE,
         expired = FALSE, overran = {}
  PROVE  RunInv
<1>1. Open = {} /\ Accepting = 0
  BY DEF Open, Accepting
<1>2. SlotsInv
  BY <1>1, FS_EmptySet, RuntimeAssumption DEF SlotsInv
<1>3. RunTyped
  BY DEF RunTyped, MainSteps, ConnStates
<1>4. DrainInv
  BY <1>1 DEF DrainInv
<1> QED
  BY <1>2, <1>3, <1>4 DEF RunInv

\* Every step keeps the invariant.
LEMMA RuntimeStep ==
  ASSUME RuntimeInv, [Next]_vars
  PROVE  RuntimeInv'
<1>1. StartupInv /\ RunInv
  BY DEF RuntimeInv
<1>2. ASSUME RunInv', UNCHANGED startupVars
      PROVE  RuntimeInv'
  <2>1. StartupInv'
    BY <1>1, <1>2 DEF startupVars, StartupInv, PlacesTyped, RecordedExists, WorkOwned, LocksExclusive,
       VersionsPassed, RunnersPassed, ExecutingNew, At, Holds, Migration, LastVersion, RunnersOf,
       MigrationsOf, NoGap
  <2> QED
    BY <1>2, <2>1 DEF RuntimeInv
<1>3. CASE \E p \in Processes : StartupNext(p) /\ UNCHANGED runVars
  BY <1>1, <1>3, StartupNextStep, OthersStart DEF RuntimeInv
<1>4. CASE RunStep \/ Signal \/ Expire
  BY <1>1, <1>2, <1>4, MainStep
<1>5. CASE \/ \E g \in Routines : Send(g)
           \/ \E result \in Results : WorkerReturns(result) \/ HealthReturns(result)
           \/ Probe \/ ProbeEnds
  BY <1>1, <1>2, <1>5, RoutineStep
<1>6. CASE ServeStep \/ AcceptFails("retry") \/ AcceptFails("fault")
  BY <1>1, <1>2, <1>6, AcceptLoopStep
<1>7. CASE \E c \in Conns :
             \/ AcceptConnection(c) \/ Request(c) \/ Respond(c) \/ Hangup(c) \/ CloseIdle(c)
             \/ BeginTransaction(c) \/ EndTransaction(c)
  BY <1>1, <1>2, <1>7, ConnectionStep
<1>8. CASE Restart
  <2>1. StartupInv'
    BY <1>1, <1>8, RestartStartup
  <2>2. Routines' = Routines
    BY <1>8 DEF Restart, Routines, RoutinesOf
  <2>3. Open' = {} /\ Accepting' = 0
    BY <1>8 DEF Restart, Open, Accepting
  <2>4. SlotsInv'
    BY <1>8, <2>3, FS_EmptySet, RuntimeAssumption DEF SlotsInv, Restart
  <2>5. RunTyped' /\ DrainInv'
    BY <1>8, <2>2, <2>3 DEF Restart, RunTyped, DrainInv, MainSteps, ConnStates
  <2> QED
    BY <2>1, <2>4, <2>5 DEF RuntimeInv, RunInv
<1>9. CASE UNCHANGED vars
  <2>1. UNCHANGED startupVars /\ UNCHANGED runVars
    BY <1>9 DEF vars
  <2>2. UNCHANGED <<service, startup>>
    BY <2>1 DEF startupVars
  <2>3. Routines' = Routines /\ Open' = Open /\ Accepting' = Accepting
    BY <2>1, <2>2 DEF runVars, Routines, RoutinesOf, Open, Accepting
  <2>4. RunInv'
    BY <1>1, <2>1, <2>2, <2>3 DEF RunInv, RunTyped, SlotsInv, DrainInv, runVars, At
  <2> QED
    BY <1>2, <2>1, <2>4
<1> QED
  BY <1>3, <1>4, <1>5, <1>6, <1>7, <1>8, <1>9 DEF Next

\* The invariant holds of every behaviour.
THEOREM RuntimeInvariant == Spec => []RuntimeInv
<1>1. Init => RuntimeInv
  BY StartupFirst, OffState DEF Init, RunInit, RuntimeInv
<1>2. RuntimeInv /\ [Next]_vars => RuntimeInv'
  BY RuntimeStep
<1> QED
  BY <1>1, <1>2, PTL DEF Spec

-----------------------------------------------------------------------------
(* The properties, for every value of the constants.                       *)

\* The state of Run and of the startup keeps its type; a process past Launch
\* has been built.
THEOREM TypeCorrect == Spec => []TypeOK
<1>1. RuntimeInv => TypeOK
  <2> SUFFICES ASSUME RuntimeInv PROVE TypeOK
    OBVIOUS
  <2>1. StartupTypeOK
    <3>1. service \in Services /\ recorded \subseteq MigrationsOf(service)
      BY DEF RuntimeInv, StartupInv, PlacesTyped, RecordedExists
    <3>2. ASSUME NEW p \in Processes
          PROVE  /\ startup[p].step \in Steps /\ startup[p].runner \in RunnersOf(service)
                 /\ startup[p].version \in 1 .. LastVersion(p) + 1
                 /\ work[p] # {} => Holds(p, startup[p].runner)
      BY NoWorkOutside DEF RuntimeInv, StartupInv, PlacesTyped, Place, Holds, Holding
    <3> QED
      BY <3>1, <3>2 DEF StartupTypeOK
  <2> QED
    BY <2>1 DEF TypeOK, RuntimeInv, RunInv, RunTyped, ConnStates
<1> QED
  BY <1>1, RuntimeInvariant, PTL

\* ApplyPostgresMigrations: however many processes start at once and wherever
\* they are interrupted, a migration about to be executed is neither there nor
\* under way, and what is recorded is what exists, without a gap.
THEOREM StartsCannotRace == Spec => []MigrationsExclusive
<1>1. RuntimeInv => MigrationsExclusive
  <2> SUFFICES ASSUME RuntimeInv PROVE MigrationsExclusive
    OBVIOUS
  <2>1. recorded = objects /\ NoGap(recorded)
    BY DEF RuntimeInv, StartupInv, RecordedExists
  <2>2. ASSUME NEW p \in Processes, At(p, "executing"), NEW q \in Processes
        PROVE  Migration(p) \notin work[q]
    <3>1. CASE q = p
      BY <2>2, <3>1 DEF RuntimeInv, StartupInv, ExecutingNew
    <3>2. CASE q # p
      BY <2>2, <3>2 DEF RuntimeInv, StartupInv, LocksExclusive, WorkOwned, Holds, Migration, At
    <3> QED
      BY <3>1, <3>2
  <2>3. ASSUME NEW p \in Processes, At(p, "executing")
        PROVE  Migration(p) \notin objects \cup UNION {work[q] : q \in Processes}
    BY <2>1, <2>2, <2>3 DEF RuntimeInv, StartupInv, ExecutingNew
  <2> QED
    BY <2>1, <2>3 DEF MigrationsExclusive
<1> QED
  BY <1>1, RuntimeInvariant, PTL

\* Build before Run: a process that listens finds in the database every
\* migration it knows, whatever the other processes do.
THEOREM MigratedBeforeServing == Spec => []ServesMigrated
<1>1. RuntimeInv => ServesMigrated
  <2> SUFFICES ASSUME RuntimeInv, main \in Serving \cup Stopping
               PROVE  objects = MigrationsOf(service)
    BY DEF ServesMigrated
  <2>1. self \in Processes /\ At(self, "built")
    BY RuntimeAssumption DEF RuntimeInv, RunInv, RunTyped, Serving, Stopping
  <2>2. \A r \in RunnersOf(service) : \A v \in 1 .. Runners[service][r] : <<r, v>> \in recorded
    BY <2>1 DEF RuntimeInv, StartupInv, RunnersPassed
  <2>3. \A m \in MigrationsOf(service) : m \in recorded
    BY <2>2, MigrationPairs DEF RuntimeInv, StartupInv, PlacesTyped
  <2> QED
    BY <2>3 DEF RuntimeInv, StartupInv, RecordedExists
<1> QED
  BY <1>1, RuntimeInvariant, PTL

\* limitListener: slots are neither lost nor exceeded, for any number of
\* connections and any configured limit.
THEOREM SlotsCorrect == Spec => []SlotsExact
<1>1. RuntimeInv => SlotsExact
  <2> SUFFICES ASSUME RuntimeInv PROVE SlotsExact
    OBVIOUS
  <2>1. /\ tokens = Cardinality(Open) + Accepting /\ tokens <= MaxNetworkConns
        /\ Cardinality(Open) \in Nat /\ Accepting \in {0, 1} /\ MaxNetworkConns \in Nat
    BY FS_CardinalityType, RuntimeAssumption DEF RuntimeInv, RunInv, SlotsInv, Accepting
  <2>2. Cardinality(Open) <= MaxNetworkConns
    BY <2>1
  <2> QED
    BY <2>1, <2>2 DEF SlotsExact, Accepting
<1> QED
  BY <1>1, RuntimeInvariant, PTL

\* The exit status of Run: clean only if no request was cut off, and clean
\* whenever the signal was seen and the requests ended in time.
THEOREM ExitStatusCorrect == Spec => []ExitTruthful
<1>1. RuntimeInv => ExitTruthful
  BY DEF RuntimeInv, RunInv, DrainInv, ExitTruthful, Clean
<1> QED
  BY <1>1, RuntimeInvariant, PTL

=============================================================================
