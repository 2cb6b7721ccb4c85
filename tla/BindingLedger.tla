--------------------------- MODULE BindingLedger ---------------------------
(***************************************************************************)
(* What a backend promises about run bindings: every operation takes       *)
(* effect in one step.  This is the in-memory backend                      *)
(* (credential/backend_resolution.go), whose methods hold one mutex from   *)
(* the first read to the last write, and the abstract specification that   *)
(* the PostgreSQL backend of RunBindings implements.                       *)
(*                                                                         *)
(* The time an operation uses is chosen by its caller before the mutex is  *)
(* taken, so it is any time up to Horizon.                                 *)
(***************************************************************************)
EXTENDS Binding

CONSTANTS
  Horizon,     \* bound: the last instant of the clock
  MaxVersion   \* bound: the last version of a credential

VARIABLES
  credentials,  \* table credentials: identifier -> [version, state]
  bindings,     \* table run_bindings: run -> BindingRow
  attempts,     \* table resolution_attempts: attempt -> AttemptRow
  granted       \* the plaintext answers given so far

vars == <<credentials, bindings, attempts, granted>>

Times == 0 .. Horizon

Init ==
  /\ credentials = [c \in Credentials |-> [version |-> 1, state |-> "active"]]
  /\ bindings = EmptyTable
  /\ attempts = EmptyTable
  /\ granted = {}

\* A new version of an active credential; retiring it is also a new version.
Update(c, state) ==
  /\ credentials[c].state = "active"
  /\ credentials[c].version < MaxVersion
  /\ credentials' = [credentials EXCEPT ![c] = [version |-> @.version + 1, state |-> state]]
  /\ UNCHANGED <<bindings, attempts, granted>>

Register(r, now) ==
  /\ ValidBindingRequest(r, now)
  /\ ~Collides(bindings, r)
  /\ credentials[r.credential].state = "active"
  /\ bindings' = With(bindings, r.run, NewBinding(r, credentials[r.credential].version, now))
  /\ UNCHANGED <<credentials, attempts, granted>>

CancelBinding(c) ==
  /\ c.run \in DOMAIN bindings
  /\ bindings[c.run].request.dispatch = c.dispatch
  /\ bindings[c.run].state \notin Terminal
  /\ bindings' = [bindings EXCEPT ![c.run].state = "canceled"]
  /\ UNCHANGED <<credentials, attempts, granted>>

Expire(c, now) ==
  /\ c.run \in DOMAIN bindings
  /\ Presentable(bindings[c.run], c)
  /\ now >= bindings[c.run].request.expiresAt
  /\ bindings[c.run].state # "exhausted"
  /\ bindings' = [bindings EXCEPT ![c.run].state = "expired"]
  /\ UNCHANGED <<credentials, attempts, granted>>

Claimable(c, now) ==
  /\ c.run \in DOMAIN bindings
  /\ Presentable(bindings[c.run], c)
  /\ InWindow(bindings[c.run], now)

Replay(c, now) ==
  /\ Claimable(c, now)
  /\ c.attempt \in DOMAIN attempts
  /\ Replayable(attempts[c.attempt], c, now)
  /\ granted' = granted \cup
       {Grant(bindings[c.run], c, now, attempts[c.attempt].expiresAt)}
  /\ UNCHANGED <<credentials, bindings, attempts>>

Resolve(c, now) ==
  /\ Claimable(c, now)
  /\ c.attempt \notin DOMAIN attempts
  /\ ~AtLimit(bindings[c.run])
  /\ LET row == NewAttempt(bindings[c.run], c, now) IN
     /\ attempts' = With(attempts, c.attempt, row)
     /\ granted' = granted \cup {Grant(bindings[c.run], c, now, row.expiresAt)}
  /\ bindings' = [bindings EXCEPT ![c.run] = AfterClaim(@)]
  /\ UNCHANGED credentials

Step ==
  \/ \E c \in Credentials, state \in {"active", "retired"} : Update(c, state)
  \/ \E r \in Registrations, now \in Times : Register(r, now)
  \/ \E c \in Cancels : CancelBinding(c)
  \/ \E c \in Claims, now \in Times :
       Expire(c, now) \/ Replay(c, now) \/ Resolve(c, now)

\* A step changes the ledger; an operation without effect stutters.
Next == vars' # vars /\ Step

Spec == Init /\ [][Next]_vars

=============================================================================
