------------------------------ MODULE Binding ------------------------------
(***************************************************************************)
(* The vocabulary of run bindings: the requests the scheduler and the      *)
(* executors send, the rows of the tables run_bindings and                 *)
(* resolution_attempts, and the pure decisions both storage backends take  *)
(* on them.  credential/backend_resolution.go (one mutex) and              *)
(* credential/postgres_resolution.go (row locks) repeat these decisions;   *)
(* they are written once here and used by BindingLedger and RunBindings.   *)
(*                                                                         *)
(* Times are natural numbers of an arbitrary unit.  A request digest is    *)
(* the request itself: two digests are equal iff the requests are.  The    *)
(* organization is folded into the key (organization, Idempotency-Key) and *)
(* into the credential (a credential of another organization is one that   *)
(* is not found).                                                          *)
(***************************************************************************)
EXTENDS Integers, FiniteSets

CONSTANTS
  Runs,                \* run identifiers
  Dispatches,          \* dispatch identifiers
  Keys,                \* (organization, idempotency key) pairs
  Credentials,         \* credential identifiers
  Executors,           \* executor workload identities
  Attempts,            \* attempt identifiers chosen by executors
  Stamps,              \* requested_at values of a resolve request
  Registrations,       \* the register requests the scheduler may send
  Cancels,             \* the cancel requests the scheduler may send
  Claims,              \* the resolve requests executors may send
  MaxResolutions,      \* policy: largest max_resolutions of a binding
  MaxFutureStart,      \* policy: how far ahead not_before may lie
  MaxBindingLifetime,  \* policy: largest expires_at - not_before
  BackdateGrace,       \* how far back not_before may lie (one minute)
  AttemptRetryWindow   \* policy: how long an attempt may be replayed

Registration ==
  [kind : {"register"}, run : Runs, dispatch : Dispatches, key : Keys,
   credential : Credentials, executor : Executors,
   notBefore : Nat, expiresAt : Nat, max : Nat]

Cancel == [kind : {"cancel"}, run : Runs, dispatch : Dispatches]

Claim ==
  [kind : {"claim"}, run : Runs, attempt : Attempts, executor : Executors,
   stamp : Stamps]

ASSUME RequestAssumption ==
  /\ Registrations \subseteq Registration
  /\ Cancels \subseteq Cancel
  /\ Claims \subseteq Claim

\* SetResolutionPolicy refuses any other policy.
ASSUME PolicyAssumption ==
  /\ MaxResolutions \in Nat \ {0}
  /\ MaxFutureStart \in Nat
  /\ MaxBindingLifetime \in Nat \ {0}
  /\ BackdateGrace \in Nat
  /\ AttemptRetryWindow \in Nat \ {0}

BindingStates == {"pending", "active", "canceled", "expired", "exhausted"}

\* The states the database trigger makes final.
Terminal == {"canceled", "expired", "exhausted"}

\* A row of run_bindings: the immutable request, the snapshotted credential
\* version, and the fields an operation may write.
BindingRow ==
  [request : Registration, version : Nat, state : BindingStates,
   count : Nat, createdAt : Nat]

\* A row of resolution_attempts; its digest is determined by run and stamp.
AttemptRow == [run : Runs, executor : Executors, stamp : Stamps, expiresAt : Nat]

\* Plaintext handed to an executor.
GrantRecord == [claim : Claim, version : Nat, now : Nat, until : Nat]

CredentialRow == [version : Nat, state : {"active", "retired"}]

-----------------------------------------------------------------------------
(* Tables are functions whose domain is the set of keys present.           *)

EmptyTable == [x \in {} |-> 0]

With(table, k, row) ==
  [x \in DOMAIN table \cup {k} |-> IF x = k THEN row ELSE table[x]]

Without(table, k) == [x \in DOMAIN table \ {k} |-> table[x]]

-----------------------------------------------------------------------------
(* The decisions.                                                          *)

ValidBindingRequest(r, now) ==
  /\ r.notBefore >= now - BackdateGrace
  /\ r.notBefore <= now + MaxFutureStart
  /\ r.expiresAt > now
  /\ r.expiresAt > r.notBefore
  /\ r.expiresAt - r.notBefore <= MaxBindingLifetime
  /\ r.max > 0
  /\ r.max <= MaxResolutions

NewBinding(r, version, now) ==
  [request |-> r, version |-> version, count |-> 0, createdAt |-> now,
   state |-> IF now >= r.notBefore THEN "active" ELSE "pending"]

\* Mutant: the primary key on run_id is missing.
CollidesExceptRun(bs, r) ==
  \E run \in DOMAIN bs :
    bs[run].request.dispatch = r.dispatch \/ bs[run].request.key = r.key

\* A row of the table bs that already uses a unique column of request r.
Collides(bs, r) ==
  \E run \in DOMAIN bs :
    \/ run = r.run
    \/ bs[run].request.dispatch = r.dispatch
    \/ bs[run].request.key = r.key

\* Mutants: the executor, the stored expiry, or both revocations are not
\* looked at.
PresentableByAnyone(b, c) == b.state \notin {"canceled", "expired"}
PresentableIfExpired(b, c) ==
  b.request.executor = c.executor /\ b.state # "canceled"
PresentableIfRevoked(b, c) == b.request.executor = c.executor

\* The executor is the bound one and neither a cancel nor an expiry is stored.
Presentable(b, c) ==
  /\ b.request.executor = c.executor
  /\ b.state \notin {"canceled", "expired"}

InWindow(b, now) == b.request.notBefore <= now /\ now < b.request.expiresAt

\* Mutant: the attempt's run and digest are not compared.
ReplayableByExecutor(a, c, now) == a.executor = c.executor /\ now < a.expiresAt

\* The stored attempt is the same request, still inside its retry window.
Replayable(a, c, now) ==
  /\ a.run = c.run
  /\ a.executor = c.executor
  /\ a.stamp = c.stamp
  /\ now < a.expiresAt

AtLimit(b) == b.count >= b.request.max \/ b.state = "exhausted"

\* Mutant: the retry window is not cut at the end of the binding.
AttemptExpiryUncapped(b, now) == now + AttemptRetryWindow

AttemptExpiry(b, now) ==
  IF now + AttemptRetryWindow > b.request.expiresAt
  THEN b.request.expiresAt
  ELSE now + AttemptRetryWindow

NewAttempt(b, c, now) ==
  [run |-> c.run, executor |-> c.executor, stamp |-> c.stamp,
   expiresAt |-> AttemptExpiry(b, now)]

AfterClaim(b) ==
  [b EXCEPT !.count = @ + 1,
            !.state = IF b.count + 1 = b.request.max THEN "exhausted" ELSE "active"]

Grant(b, c, now, until) ==
  [claim |-> c, version |-> b.version, now |-> now, until |-> until]

=============================================================================
