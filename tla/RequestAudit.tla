---------------------------- MODULE RequestAudit ----------------------------
(***************************************************************************)
(* From an HTTP request to its audit events: transport/server.go with      *)
(* transport/rotation.go and audit/recorder.go.                            *)
(*                                                                         *)
(* ServeHTTP names the operation from method and path (requestOperation),  *)
(* authenticates, routes to a handler that checks the role and the body,   *)
(* and calls the credential service.  On success the backend appends the   *)
(* transition and completion events in its own transaction; in every other *)
(* case the deferred function of ServeHTTP writes the completion through   *)
(* Recorder.Record, whose failure only sets the degraded flag.             *)
(*                                                                         *)
(* A path is the collection or item it addresses and its last segment.     *)
(* What the service answers beyond the audit events is left open, except   *)
(* that a replay needs an earlier request to repeat.                       *)
(***************************************************************************)
EXTENDS Integers, Sequences

CONSTANTS
  Slots,        \* how many requests are served at once
  Inputs,       \* the requests that may arrive
  MaxPending,   \* Spool.maximumPending
  MaxBatch,     \* the versions one resume of a rotation may rewrap
  MaxRequests   \* bound: requests received

-----------------------------------------------------------------------------
(* The interface.                                                          *)

Methods == {"GET", "POST", "PUT", "PATCH", "DELETE"}

\* Paths matched as a whole, and prefixes of longer paths.
Collections ==
  {"security-status", "key-status", "recovery-validations", "backups",
   "rotations", "credentials", "run-bindings"}

Items == {"backup", "rotation", "version", "credential", "run-binding", "run", "other"}

Tails ==
  {"", "expire", "resume", "finalize", "rotate", "inputs", "retire", "cancel", "resolve"}

Roles == {"none", "api", "scheduler", "executor", "operator", "auditor"}

\* valid: the body decodes and its fields, identifiers and headers pass.
Input ==
  [method : Methods, at : Collections, tail : {""}, role : Roles, valid : BOOLEAN]
    \cup [method : Methods, at : Items, tail : Tails, role : Roles, valid : BOOLEAN]

ASSUME AuditAssumption ==
  /\ Inputs \subseteq Input
  /\ MaxPending \in Nat
  /\ MaxBatch \in Nat
  /\ MaxRequests \in Nat

\* The requests a handler serves, as <<method, place, last segment>>.
Routes ==
  [ run_binding_registered |-> <<"POST", "run-bindings", "">>,
    run_binding_inspected |-> <<"GET", "run-binding", "">>,
    run_binding_canceled |-> <<"POST", "run-binding", "cancel">>,
    credential_resolved |-> <<"POST", "run", "resolve">>,
    credential_created |-> <<"POST", "credentials", "">>,
    credential_read |-> <<"GET", "credential", "">>,
    credential_inputs_replaced |-> <<"PUT", "credential", "inputs">>,
    credential_metadata_updated |-> <<"PATCH", "credential", "">>,
    credential_retired |-> <<"POST", "credential", "retire">>,
    security_status_read |-> <<"GET", "security-status", "">>,
    key_status_read |-> <<"GET", "key-status", "">>,
    recovery_validation_finished |-> <<"POST", "recovery-validations", "">>,
    backup_registered |-> <<"POST", "backups", "">>,
    backup_expired |-> <<"POST", "backup", "expire">>,
    master_key_rotation_started |-> <<"POST", "rotations", "">>,
    master_key_rotation_inspected |-> <<"GET", "rotation", "">>,
    master_key_rotation_resumed |-> <<"POST", "rotation", "resume">>,
    master_key_rotation_finalized |-> <<"POST", "rotation", "finalize">>,
    credential_key_rotated |-> <<"POST", "version", "rotate">> ]

\* The operation the handler of a request carries out, if there is one.
Handled(in) ==
  {op \in DOMAIN Routes : Routes[op] = <<in.method, in.at, in.tail>>}

\* requestOperation, the name a request is audited under whatever becomes of
\* it: exact paths for collections, elsewhere only a prefix or only the last
\* segment is compared.
requestOperation(in) ==
  {op \in DOMAIN Routes :
     LET r == Routes[op] IN
     /\ in.method = r[1]
     /\ \/ in.at = r[2] /\ (in.tail = r[3] \/ r[1] \in {"GET", "PATCH"})
        \/ in.tail = r[3] /\ r[3] \notin {"", "rotate"}}

\* Mutant: an operation is missing from the list.
AuditedButBackups ==
  {"run_binding_registered", "run_binding_canceled", "credential_resolved",
   "credential_created", "credential_inputs_replaced",
   "credential_metadata_updated", "credential_retired",
   "master_key_rotation_started", "master_key_rotation_resumed",
   "master_key_rotation_finalized", "credential_key_rotated",
   "recovery_validation_finished", "backup_expired"}

\* Operations whose success the backend audits in its own transaction.
transactionallyAudited ==
  {"run_binding_registered", "run_binding_canceled", "credential_resolved",
   "credential_created", "credential_inputs_replaced",
   "credential_metadata_updated", "credential_retired",
   "master_key_rotation_started", "master_key_rotation_resumed",
   "master_key_rotation_finalized", "credential_key_rotated",
   "recovery_validation_finished", "backup_registered", "backup_expired"}

Reads ==
  {"security_status_read", "key_status_read", "credential_read",
   "run_binding_inspected", "master_key_rotation_inspected"}

\* The roles a path is open to.  Below operations/ and credentials/ the role
\* is checked before the rest of the path.
RolesOf(in) ==
  CASE in.at = "security-status" -> {"operator", "auditor"}
    [] in.at \in {"credentials", "credential"} -> {"api"}
    [] in.at \in {"run-bindings", "run-binding"} -> {"scheduler"}
    [] in.at = "run" -> {"executor"}
    [] OTHER -> {"operator"}

RoleFirst(in) ==
  in.at \notin {"security-status", "credentials", "run-bindings", "run-binding", "run", "other"}

-----------------------------------------------------------------------------
(* What the backend appends on success.                                    *)

\* Transition events of an operation that changes something: a resume also
\* writes one for each version it rewraps.
Transitions(op) ==
  CASE op = "recovery_validation_finished" -> {2}
    [] op = "master_key_rotation_resumed" -> 1 .. 1 + MaxBatch
    [] OTHER -> {1}

\* ValidateRecovery calls appendSuccessfulTransition twice.
Completions(op) == IF op = "recovery_validation_finished" THEN 2 ELSE 1

\* Answers to a repeated request that append a completion, or nothing at all.
ReplayAudited == {"run_binding_registered", "run_binding_canceled", "credential_resolved"}

\* A repeated create, backup, retire or finalize, an update to the name the
\* credential has, and a resume of a finalized rotation.
ReplaySilent ==
  {"credential_created", "credential_metadata_updated", "credential_retired",
   "master_key_rotation_resumed", "master_key_rotation_finalized",
   "backup_registered"}

\* The operations one of which came before a replay of op.
Preceding(op) ==
  CASE op = "credential_metadata_updated" -> {"credential_created", op}
    [] op = "master_key_rotation_resumed" -> {"master_key_rotation_finalized"}
    [] op = "run_binding_canceled" -> {"credential_resolved", op}
    [] OTHER -> {op}

-----------------------------------------------------------------------------

VARIABLES
  log,       \* every request received, with the events it caused
  active,    \* requests being served: slot -> position in log
  pending,   \* undelivered events in the spool
  degraded   \* Recorder.degraded of the process

vars == <<log, active, pending, degraded>>

Answers == {"none", "success", "denied", "rejected", "error"}

Entry ==
  [input : Input, answer : Answers, transitions : Nat, completions : Nat,
   done : BOOLEAN, current : BOOLEAN]

Init ==
  /\ log = << >>
  /\ active = [q \in {} |-> 0]
  /\ pending = 0
  /\ degraded = FALSE

In(q) == log[active[q]].input
Serving(q) == q \in DOMAIN active /\ log[active[q]].answer = "none"
Answered(q) == q \in DOMAIN active /\ log[active[q]].answer # "none"

\* AppendTx, n times in one transaction.
HasRoom(n) == pending + n <= MaxPending

AnswerEntry(e, answer, t, c) ==
  [e EXCEPT !.answer = answer, !.transitions = @ + t, !.completions = @ + c]

\* The handler returns this answer, its transaction having appended t
\* transition and c completion events.
Answer(q, answer, t, c) ==
  /\ log' = [log EXCEPT ![active[q]] = AnswerEntry(log[active[q]], answer, t, c)]
  /\ pending' = pending + t + c
  /\ UNCHANGED active

Receive(q, in) ==
  /\ q \notin DOMAIN active
  /\ Len(log) < MaxRequests
  /\ log' = Append(log, [input |-> in, answer |-> "none", transitions |-> 0,
                         completions |-> 0, done |-> FALSE, current |-> TRUE])
  /\ active' = [p \in DOMAIN active \cup {q} |-> IF p = q THEN Len(log) + 1 ELSE active[p]]
  /\ UNCHANGED <<pending, degraded>>

\* 401: no verified certificate, or none the mapper knows.
Unauthenticated(q) ==
  /\ Serving(q)
  /\ In(q).role = "none"
  /\ Answer(q, "denied", 0, 0)
  /\ UNCHANGED degraded

\* 403.
Forbidden(q) ==
  /\ Serving(q)
  /\ In(q).role \notin RolesOf(In(q)) \cup {"none"}
  /\ RoleFirst(In(q)) \/ Handled(In(q)) # {}
  /\ Answer(q, "denied", 0, 0)
  /\ UNCHANGED degraded

\* 404 for a path without a handler; 400 and 413.
Rejected(q) ==
  /\ Serving(q)
  /\ In(q).role # "none"
  /\ RoleFirst(In(q)) \/ Handled(In(q)) # {} => In(q).role \in RolesOf(In(q))
  /\ Handled(In(q)) = {} \/ ~In(q).valid
  /\ Answer(q, "rejected", 0, 0)
  /\ UNCHANGED degraded

\* The handler calls the credential service for operation op.
Called(q, op) ==
  /\ Serving(q)
  /\ In(q).role \in RolesOf(In(q))
  /\ op \in Handled(In(q))
  /\ In(q).valid

\* The service fails and its transaction is rolled back: not found, conflict,
\* a full spool, a storage error.
ServiceFails(q, op) ==
  /\ Called(q, op)
  /\ op # "security_status_read"
  /\ \E answer \in {"denied", "rejected", "error"} :
       /\ answer = "denied" => op = "credential_resolved"
       /\ Answer(q, answer, 0, 0)
  /\ UNCHANGED degraded

ReadSucceeds(q, op) ==
  /\ Called(q, op)
  /\ op \in Reads
  /\ Answer(q, "success", 0, 0)
  /\ UNCHANGED degraded

\* Recorder.Status sets the flag when it cannot count the pending events.
StatusFails(q) ==
  /\ Called(q, "security_status_read")
  /\ Answer(q, "error", 0, 0)
  /\ degraded' = TRUE

\* The commit may succeed in the database and still be reported as an error.
Committed == {"success", "error"}

\* Mutant: appendAudit instead of appendSuccessfulTransition.
ChangesWithoutCompletion(q, op) ==
  /\ Called(q, op)
  /\ op \notin Reads
  /\ \E t \in Transitions(op), answer \in Committed :
       HasRoom(t) /\ Answer(q, answer, t, 0)
  /\ UNCHANGED degraded

Changes(q, op) ==
  /\ Called(q, op)
  /\ op \notin Reads
  /\ \E t \in Transitions(op), answer \in Committed :
       HasRoom(t + Completions(op)) /\ Answer(q, answer, t, Completions(op))
  /\ UNCHANGED degraded

Repeats(op) ==
  \E i \in DOMAIN log : log[i].transitions > 0 /\ Handled(log[i].input) \cap Preceding(op) # {}

ReplayWithCompletion(q, op) ==
  /\ Called(q, op)
  /\ op \in ReplayAudited
  /\ Repeats(op)
  /\ HasRoom(1)
  /\ \E answer \in Committed : Answer(q, answer, 0, 1)
  /\ UNCHANGED degraded

ReplayWithoutEvent(q, op) ==
  /\ Called(q, op)
  /\ op \in ReplaySilent
  /\ Repeats(op)
  /\ Answer(q, "success", 0, 0)
  /\ UNCHANGED degraded

\* A claim that stores the expiry commits that transition, and is denied.
ClaimEnds(q) ==
  /\ Called(q, "credential_resolved")
  /\ HasRoom(1)
  /\ \E answer \in {"denied", "error"} : Answer(q, answer, 1, 0)
  /\ UNCHANGED degraded

-----------------------------------------------------------------------------
(* The deferred function of ServeHTTP.                                     *)

AuditedByBackend(e) ==
  e.answer = "success" /\ requestOperation(e.input) \cap transactionallyAudited # {}

LeaveEntry(e, n) == [e EXCEPT !.done = TRUE, !.completions = @ + n]

Leave(q, completions) ==
  /\ log' = [log EXCEPT ![active[q]] = LeaveEntry(log[active[q]], completions)]
  /\ active' = [p \in DOMAIN active \ {q} |-> active[p]]

Skip(q) ==
  /\ Answered(q)
  /\ AuditedByBackend(log[active[q]])
  /\ Leave(q, 0)
  /\ UNCHANGED <<pending, degraded>>

Record(q) ==
  /\ Answered(q)
  /\ ~AuditedByBackend(log[active[q]])
  /\ HasRoom(1)
  /\ pending' = pending + 1
  /\ Leave(q, 1)
  /\ UNCHANGED degraded

\* Mutant: the error of AppendTx is returned without the flag.
RecordFailsQuietly(q) ==
  /\ Answered(q)
  /\ ~AuditedByBackend(log[active[q]])
  /\ Leave(q, 0)
  /\ UNCHANGED <<pending, degraded>>

\* A full spool, a database error, the context of a request whose client has
\* gone, or a commit reported as an error although it was carried out.
RecordFails(q) ==
  /\ Answered(q)
  /\ ~AuditedByBackend(log[active[q]])
  /\ \E n \in 0 .. 1 :
       /\ n = 1 => HasRoom(1)
       /\ pending' = pending + n
       /\ Leave(q, n)
  /\ degraded' = TRUE

-----------------------------------------------------------------------------
(* The environment.                                                        *)

Deliver ==
  /\ pending > 0
  /\ pending' = pending - 1
  /\ UNCHANGED <<log, active, degraded>>

\* The process ends and starts again; the flag is only in its memory.
Restart ==
  /\ log' = [i \in DOMAIN log |-> [log[i] EXCEPT !.current = FALSE]]
  /\ active' = [q \in {} |-> 0]
  /\ degraded' = FALSE
  /\ UNCHANGED pending

Serve(q, op) ==
  \/ ServiceFails(q, op) \/ ReadSucceeds(q, op) \/ Changes(q, op)
  \/ ReplayWithCompletion(q, op) \/ ReplayWithoutEvent(q, op)

Next ==
  \/ \E q \in Slots :
       \/ \E in \in Inputs : Receive(q, in)
       \/ Unauthenticated(q) \/ Forbidden(q) \/ Rejected(q)
       \/ \E op \in DOMAIN Routes : Serve(q, op)
       \/ StatusFails(q) \/ ClaimEnds(q)
       \/ Skip(q) \/ Record(q) \/ RecordFails(q)
  \/ Deliver
  \/ Restart

Spec == Init /\ [][Next]_vars

-----------------------------------------------------------------------------
(* Properties.                                                             *)

\* Type invariant: the log of requests, the positions being served, and the
\* spool within its bound (ServeHTTP, Recorder, AppendTx).
TypeOK ==
  /\ log \in Seq(Entry)
  /\ DOMAIN active \subseteq Slots
  /\ \A q \in DOMAIN active : active[q] \in DOMAIN log /\ ~log[active[q]].done
  /\ pending \in 0 .. MaxPending
  /\ degraded \in BOOLEAN

\* README.md, "Successful security mutations persist their completion and
\* state-transition events in the same transaction": whatever happens after
\* the commit, a request that changed state was sent by a role that may send
\* it and has a completion event, unless it was a claim that found its binding
\* over, whose completion Record has still to write (appendSuccessfulTransition,
\* the handlers' role checks).
ChangesAccountable ==
  \A i \in DOMAIN log :
    log[i].transitions > 0 =>
      /\ log[i].input.role \in RolesOf(log[i].input)
      /\ \/ log[i].completions > 0
         \/ Handled(log[i].input) = {"credential_resolved"} /\ log[i].answer # "success"

\* audit_integrity_healthy does not deceive: while it is reported, the only
\* requests this process has finished without a completion event are replays
\* that changed nothing (Recorder.degraded, transactionallyAudited).
HealthyMeansRecorded ==
  ~degraded =>
    \A i \in DOMAIN log :
      log[i].done /\ log[i].current /\ log[i].completions = 0 =>
        /\ log[i].answer = "success"
        /\ log[i].transitions = 0
        /\ Handled(log[i].input) \subseteq ReplaySilent

\* The backend and the transport do not both complete a request: two
\* completions mean a recovery validation or a commit whose outcome the
\* service did not learn (ServeHTTP's deferred function).
NoDoubleCompletion ==
  \A i \in DOMAIN log :
    log[i].completions > 1 =>
      \/ log[i].answer = "error"
      \/ Handled(log[i].input) = {"recovery_validation_finished"}

=============================================================================
