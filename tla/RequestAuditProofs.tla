------------------------- MODULE RequestAuditProofs -------------------------
(***************************************************************************)
(* Theorems about RequestAudit, for any requests, any number of them at    *)
(* once and any bound of the spool.                                        *)
(*                                                                         *)
(* The properties speak of the log of requests; what makes them inductive  *)
(* is what the answer of a request says about the events its transaction   *)
(* appended (EntryFits): a success with a completion is one that the       *)
(* deferred function skips, a success that it skips without a completion   *)
(* is a silent replay, and a refusal has none.  That needs two facts about *)
(* the tables of the interface: a request has at most one handler, and it  *)
(* is audited under the name of that handler, whatever else the names of   *)
(* requestOperation match (HandledNamed).                                  *)
(***************************************************************************)
EXTENDS RequestAudit, SequenceTheorems, TLAPS

-----------------------------------------------------------------------------
(* The interface.                                                          *)

RouteMethod(op) == Routes[op][1]
RoutePlace(op) == Routes[op][2]
RouteTail(op) == Routes[op][3]

Row(op, method, at, tail) ==
  RouteMethod(op) = method /\ RoutePlace(op) = at /\ RouteTail(op) = tail

\* The table of routes, row by row.
LEMMA RouteTable ==
  /\ DOMAIN Routes =
              {"run_binding_registered", "run_binding_inspected",
               "run_binding_canceled", "credential_resolved",
               "credential_created", "credential_read",
               "credential_inputs_replaced",
               "credential_metadata_updated", "credential_retired",
               "security_status_read", "key_status_read",
               "recovery_validation_finished", "backup_registered",
               "backup_expired", "master_key_rotation_started",
               "master_key_rotation_inspected",
               "master_key_rotation_resumed",
               "master_key_rotation_finalized", "credential_key_rotated"}
  /\ Row("run_binding_registered", "POST", "run-bindings", "")
  /\ Row("run_binding_inspected", "GET", "run-binding", "")
  /\ Row("run_binding_canceled", "POST", "run-binding", "cancel")
  /\ Row("credential_resolved", "POST", "run", "resolve")
  /\ Row("credential_created", "POST", "credentials", "")
  /\ Row("credential_read", "GET", "credential", "")
  /\ Row("credential_inputs_replaced", "PUT", "credential", "inputs")
  /\ Row("credential_metadata_updated", "PATCH", "credential", "")
  /\ Row("credential_retired", "POST", "credential", "retire")
  /\ Row("security_status_read", "GET", "security-status", "")
  /\ Row("key_status_read", "GET", "key-status", "")
  /\ Row("recovery_validation_finished", "POST", "recovery-validations", "")
  /\ Row("backup_registered", "POST", "backups", "")
  /\ Row("backup_expired", "POST", "backup", "expire")
  /\ Row("master_key_rotation_started", "POST", "rotations", "")
  /\ Row("master_key_rotation_inspected", "GET", "rotation", "")
  /\ Row("master_key_rotation_resumed", "POST", "rotation", "resume")
  /\ Row("master_key_rotation_finalized", "POST", "rotation", "finalize")
  /\ Row("credential_key_rotated", "POST", "version", "rotate")
  BY DEF Routes, Row, RouteMethod, RoutePlace, RouteTail

OneOfRows(a, method, at, tail) ==
  \/ a = "run_binding_registered" /\ method = "POST" /\ at = "run-bindings" /\ tail = ""
  \/ a = "run_binding_inspected" /\ method = "GET" /\ at = "run-binding" /\ tail = ""
  \/ a = "run_binding_canceled" /\ method = "POST" /\ at = "run-binding" /\ tail = "cancel"
  \/ a = "credential_resolved" /\ method = "POST" /\ at = "run" /\ tail = "resolve"
  \/ a = "credential_created" /\ method = "POST" /\ at = "credentials" /\ tail = ""
  \/ a = "credential_read" /\ method = "GET" /\ at = "credential" /\ tail = ""
  \/ a = "credential_inputs_replaced" /\ method = "PUT" /\ at = "credential" /\ tail = "inputs"
  \/ a = "credential_metadata_updated" /\ method = "PATCH" /\ at = "credential" /\ tail = ""
  \/ a = "credential_retired" /\ method = "POST" /\ at = "credential" /\ tail = "retire"
  \/ a = "security_status_read" /\ method = "GET" /\ at = "security-status" /\ tail = ""
  \/ a = "key_status_read" /\ method = "GET" /\ at = "key-status" /\ tail = ""
  \/ a = "recovery_validation_finished" /\ method = "POST" /\ at = "recovery-validations" /\ tail = ""
  \/ a = "backup_registered" /\ method = "POST" /\ at = "backups" /\ tail = ""
  \/ a = "backup_expired" /\ method = "POST" /\ at = "backup" /\ tail = "expire"
  \/ a = "master_key_rotation_started" /\ method = "POST" /\ at = "rotations" /\ tail = ""
  \/ a = "master_key_rotation_inspected" /\ method = "GET" /\ at = "rotation" /\ tail = ""
  \/ a = "master_key_rotation_resumed" /\ method = "POST" /\ at = "rotation" /\ tail = "resume"
  \/ a = "master_key_rotation_finalized" /\ method = "POST" /\ at = "rotation" /\ tail = "finalize"
  \/ a = "credential_key_rotated" /\ method = "POST" /\ at = "version" /\ tail = "rotate"

\* The three columns of a row belong together.
LEMMA KnownRow ==
  ASSUME NEW a \in DOMAIN Routes
  PROVE  OneOfRows(a, RouteMethod(a), RoutePlace(a), RouteTail(a))
<1>1. CASE a = "run_binding_registered"
  BY <1>1, RouteTable DEF Row, OneOfRows
<1>2. CASE a = "run_binding_inspected"
  BY <1>2, RouteTable DEF Row, OneOfRows
<1>3. CASE a = "run_binding_canceled"
  BY <1>3, RouteTable DEF Row, OneOfRows
<1>4. CASE a = "credential_resolved"
  BY <1>4, RouteTable DEF Row, OneOfRows
<1>5. CASE a = "credential_created"
  BY <1>5, RouteTable DEF Row, OneOfRows
<1>6. CASE a = "credential_read"
  BY <1>6, RouteTable DEF Row, OneOfRows
<1>7. CASE a = "credential_inputs_replaced"
  BY <1>7, RouteTable DEF Row, OneOfRows
<1>8. CASE a = "credential_metadata_updated"
  BY <1>8, RouteTable DEF Row, OneOfRows
<1>9. CASE a = "credential_retired"
  BY <1>9, RouteTable DEF Row, OneOfRows
<1>10. CASE a = "security_status_read"
  BY <1>10, RouteTable DEF Row, OneOfRows
<1>11. CASE a = "key_status_read"
  BY <1>11, RouteTable DEF Row, OneOfRows
<1>12. CASE a = "recovery_validation_finished"
  BY <1>12, RouteTable DEF Row, OneOfRows
<1>13. CASE a = "backup_registered"
  BY <1>13, RouteTable DEF Row, OneOfRows
<1>14. CASE a = "backup_expired"
  BY <1>14, RouteTable DEF Row, OneOfRows
<1>15. CASE a = "master_key_rotation_started"
  BY <1>15, RouteTable DEF Row, OneOfRows
<1>16. CASE a = "master_key_rotation_inspected"
  BY <1>16, RouteTable DEF Row, OneOfRows
<1>17. CASE a = "master_key_rotation_resumed"
  BY <1>17, RouteTable DEF Row, OneOfRows
<1>18. CASE a = "master_key_rotation_finalized"
  BY <1>18, RouteTable DEF Row, OneOfRows
<1>19. CASE a = "credential_key_rotated"
  BY <1>19, RouteTable DEF Row, OneOfRows
<1> QED
  BY RouteTable, <1>1, <1>2, <1>3, <1>4, <1>5, <1>6, <1>7, <1>8, <1>9, <1>10,
     <1>11, <1>12, <1>13, <1>14, <1>15, <1>16, <1>17, <1>18, <1>19

\* A request has at most one handler.
LEMMA OneHandler ==
  ASSUME NEW in, NEW op \in Handled(in)
  PROVE  Handled(in) = {op}
<1>1. ASSUME NEW a \in Handled(in)
      PROVE  OneOfRows(a, in.method, in.at, in.tail)
  <2>1. /\ a \in DOMAIN Routes /\ RouteMethod(a) = in.method /\ RoutePlace(a) = in.at
        /\ RouteTail(a) = in.tail
    BY DEF Handled, RouteMethod, RoutePlace, RouteTail
  <2> QED
    BY <2>1, KnownRow
<1>2. ASSUME NEW method, NEW at, NEW tail, NEW a, NEW b,
             OneOfRows(a, method, at, tail), OneOfRows(b, method, at, tail)
      PROVE  a = b
  BY <1>2 DEF OneOfRows
<1> QED
  BY <1>1, <1>2

\* requestOperation names the operation of the handler.
LEMMA HandledNamed ==
  ASSUME NEW in, NEW op \in Handled(in)
  PROVE  op \in requestOperation(in)
<1>1. op \in DOMAIN Routes /\ Routes[op] = <<in.method, in.at, in.tail>>
  BY DEF Handled
<1>2. in.method = Routes[op][1] /\ in.at = Routes[op][2] /\ in.tail = Routes[op][3]
  BY <1>1
<1> QED
  BY <1>1, <1>2 DEF requestOperation

\* The transport audits the operations that read, and no other.
LEMMA ReadsNotAudited ==
  ASSUME NEW in, NEW op \in Handled(in)
  PROVE  /\ op \in Reads => requestOperation(in) \cap transactionallyAudited = {}
         /\ op \notin Reads => op \in transactionallyAudited
<1>1. op \in DOMAIN Routes /\ Routes[op][1] = in.method
  BY DEF Handled
<1>2. op \notin Reads => op \in transactionallyAudited
  BY <1>1, RouteTable DEF Row, Reads, transactionallyAudited
<1>3. op \in Reads => in.method = "GET"
  <2>1. /\ RouteMethod("security_status_read") = "GET" /\ RouteMethod("key_status_read") = "GET"
        /\ RouteMethod("credential_read") = "GET" /\ RouteMethod("run_binding_inspected") = "GET"
        /\ RouteMethod("master_key_rotation_inspected") = "GET"
    BY RouteTable DEF Row
  <2>2. \A read \in Reads : RouteMethod(read) = "GET"
    BY <2>1 DEF Reads
  <2> QED
    BY <1>1, <2>2 DEF RouteMethod
<1>4. ASSUME NEW other \in transactionallyAudited
      PROVE  other \in DOMAIN Routes => RouteMethod(other) # "GET"
  BY <1>4, RouteTable DEF Row, transactionallyAudited
<1>5. \A other \in requestOperation(in) : other \in DOMAIN Routes /\ Routes[other][1] = in.method
  BY DEF requestOperation
<1> QED
  BY <1>2, <1>3, <1>4, <1>5 DEF RouteMethod

-----------------------------------------------------------------------------
(* The inductive invariant.                                                *)

Refused == {"denied", "rejected"}

\* What the answer of a request says of its events.
EntryFits(e) ==
  /\ e.answer = "none" => e.transitions = 0 /\ e.completions = 0
  /\ e.transitions > 0 =>
       /\ e.input.role \in RolesOf(e.input)
       /\ \/ e.completions > 0
          \/ Handled(e.input) = {"credential_resolved"} /\ e.answer # "success"
  /\ e.answer \in Refused => e.completions <= 1 /\ (~e.done => e.completions = 0)
  /\ e.answer = "success" =>
       /\ e.completions > 1 => Handled(e.input) = {"recovery_validation_finished"}
       /\ ~e.done /\ ~AuditedByBackend(e) => e.completions = 0
       /\ AuditedByBackend(e) /\ e.completions = 0 =>
            e.transitions = 0 /\ Handled(e.input) \subseteq ReplaySilent
  /\ e.done => e.answer # "none"

\* A finished request of this process has its completion, or is a silent
\* replay.
Accounted(e) ==
  e.done /\ e.current /\ e.completions = 0 =>
    /\ e.answer = "success"
    /\ e.transitions = 0
    /\ Handled(e.input) \subseteq ReplaySilent

AuditInv ==
  /\ TypeOK
  /\ \A q, r \in DOMAIN active : active[q] = active[r] => q = r
  /\ \A i \in DOMAIN log : EntryFits(log[i])
  /\ ~degraded => \A i \in DOMAIN log : Accounted(log[i])

\* One entry of the log is rewritten, for a request in progress.
LEMMA EntryStep ==
  ASSUME AuditInv, NEW q \in DOMAIN active, NEW e \in Entry,
         log' = [log EXCEPT ![active[q]] = e], EntryFits(e),
         \/ UNCHANGED active /\ ~e.done
         \/ active' = [p \in DOMAIN active \ {q} |-> active[p]] /\ (~degraded' => Accounted(e)),
         pending' \in 0 .. MaxPending, degraded' \in BOOLEAN, degraded => degraded'
  PROVE  AuditInv'
<1>1. /\ log \in Seq(Entry) /\ DOMAIN log = 1 .. Len(log) /\ active[q] \in 1 .. Len(log)
      /\ \A p \in DOMAIN active : active[p] \in DOMAIN log /\ ~log[active[p]].done
      /\ DOMAIN active \subseteq Slots
  BY DEF AuditInv, TypeOK
<1>2. /\ log' \in Seq(Entry) /\ DOMAIN log' = DOMAIN log
      /\ \A j \in DOMAIN log : log'[j] = IF j = active[q] THEN e ELSE log[j]
  BY <1>1, ExceptSeq
<1>3. DOMAIN active' \subseteq DOMAIN active /\ \A p \in DOMAIN active' : active'[p] = active[p]
  OBVIOUS
<1>4. ASSUME NEW p \in DOMAIN active'
      PROVE  active'[p] \in DOMAIN log' /\ ~log'[active'[p]].done
  <2>1. p \in DOMAIN active /\ active'[p] = active[p]
    BY <1>3
  <2>2. CASE p = q
    <3>1. ~e.done
      BY <2>2
    <3> QED
      BY <1>1, <1>2, <2>1, <2>2, <3>1
  <2>3. CASE p # q
    <3>1. active[p] # active[q]
      BY <2>1, <2>3 DEF AuditInv
    <3> QED
      BY <1>1, <1>2, <2>1, <3>1
  <2> QED
    BY <2>2, <2>3
<1>5. TypeOK'
  BY <1>1, <1>2, <1>3, <1>4 DEF TypeOK
<1>6. \A p, r \in DOMAIN active' : active'[p] = active'[r] => p = r
  BY <1>3 DEF AuditInv
<1>7. \A i \in DOMAIN log' : EntryFits(log'[i])
  BY <1>2 DEF AuditInv
<1>8. ASSUME ~degraded', NEW i \in DOMAIN log'
      PROVE  Accounted(log'[i])
  <2>1. CASE i = active[q]
    BY <1>2, <1>8, <2>1 DEF Accounted
  <2>2. CASE i # active[q]
    BY <1>2, <1>8, <2>2 DEF AuditInv
  <2> QED
    BY <2>1, <2>2
<1> QED
  BY <1>5, <1>6, <1>7, <1>8 DEF AuditInv, EntryFits, Accounted, AuditedByBackend

\* The entry Answer writes: the handler's answer, and its events added.
LEMMA AnswerFields ==
  ASSUME NEW e \in Entry, NEW answer \in Answers, NEW t \in Nat, NEW c \in Nat
  PROVE  LET f == AnswerEntry(e, answer, t, c)
         IN  /\ f \in Entry /\ f.answer = answer /\ f.transitions = e.transitions + t
             /\ f.completions = e.completions + c /\ f.input = e.input
             /\ f.done = e.done /\ f.current = e.current
<1> DEFINE a == [e EXCEPT !.answer = answer]
<1> DEFINE b == [a EXCEPT !.transitions = @ + t]
<1> DEFINE f == [b EXCEPT !.completions = @ + c]
<1>1. AnswerEntry(e, answer, t, c) = f
  BY DEF AnswerEntry
<1>2. /\ a \in Entry /\ a.answer = answer /\ a.transitions = e.transitions /\ a.input = e.input
      /\ a.completions = e.completions /\ a.done = e.done /\ a.current = e.current
  BY DEF Entry
<1> HIDE DEF a
<1>3. /\ b \in Entry /\ b.answer = answer /\ b.transitions = e.transitions + t /\ b.input = e.input
      /\ b.completions = e.completions /\ b.done = e.done /\ b.current = e.current
  BY <1>2 DEF Entry
<1> HIDE DEF b
<1>4. /\ f \in Entry /\ f.answer = answer /\ f.transitions = e.transitions + t /\ f.input = e.input
      /\ f.completions = e.completions + c /\ f.done = e.done /\ f.current = e.current
  BY <1>3 DEF Entry
<1> HIDE DEF f
<1> QED
  BY <1>1, <1>4

\* The entry Leave writes: done, and the completion it recorded, if any.
LEMMA LeaveFields ==
  ASSUME NEW e \in Entry, NEW n \in Nat
  PROVE  LET f == LeaveEntry(e, n)
         IN  /\ f \in Entry /\ f.answer = e.answer /\ f.transitions = e.transitions
             /\ f.completions = e.completions + n /\ f.input = e.input
             /\ f.done /\ f.current = e.current
<1> DEFINE a == [e EXCEPT !.done = TRUE]
<1> DEFINE f == [a EXCEPT !.completions = @ + n]
<1>1. LeaveEntry(e, n) = f
  BY DEF LeaveEntry
<1>2. /\ a \in Entry /\ a.answer = e.answer /\ a.transitions = e.transitions /\ a.input = e.input
      /\ a.completions = e.completions /\ a.done = TRUE /\ a.current = e.current
  BY DEF Entry
<1> HIDE DEF a
<1>3. /\ f \in Entry /\ f.answer = e.answer /\ f.transitions = e.transitions /\ f.input = e.input
      /\ f.completions = e.completions + n /\ f.done /\ f.current = e.current
  BY <1>2 DEF Entry
<1> HIDE DEF f
<1> QED
  BY <1>1, <1>3

-----------------------------------------------------------------------------
(* The steps.                                                              *)

\* The state of a request in progress.
LEMMA ServingFacts ==
  ASSUME AuditInv, NEW q, q \in DOMAIN active
  PROVE  /\ log[active[q]] \in Entry /\ ~log[active[q]].done /\ EntryFits(log[active[q]])
         /\ In(q) = log[active[q]].input
         /\ pending \in Nat /\ MaxPending \in Nat /\ pending <= MaxPending
<1>1. /\ log \in Seq(Entry) /\ active[q] \in DOMAIN log /\ ~log[active[q]].done
      /\ pending \in 0 .. MaxPending /\ MaxPending \in Nat
  BY AuditAssumption DEF AuditInv, TypeOK
<1>2. log[active[q]] \in Entry
  BY <1>1
<1> QED
  BY <1>1, <1>2 DEF AuditInv, In

\* A handler that answers keeps the invariant, if its events fit the answer.
LEMMA AnswerStep ==
  ASSUME AuditInv, NEW q, Serving(q), NEW answer \in Answers \ {"none"}, NEW t \in Nat, NEW c \in Nat,
         Answer(q, answer, t, c), HasRoom(t + c),
         degraded' \in BOOLEAN, degraded => degraded',
         t > 0 => /\ In(q).role \in RolesOf(In(q))
                  /\ c > 0 \/ (Handled(In(q)) = {"credential_resolved"} /\ answer # "success"),
         answer \in Refused => c = 0,
         answer = "success" =>
           /\ c > 1 => Handled(In(q)) = {"recovery_validation_finished"}
           /\ requestOperation(In(q)) \cap transactionallyAudited = {} => c = 0
           /\ requestOperation(In(q)) \cap transactionallyAudited # {} /\ c = 0 =>
                t = 0 /\ Handled(In(q)) \subseteq ReplaySilent
  PROVE  AuditInv'
<1> DEFINE e == log[active[q]]
<1> DEFINE f == AnswerEntry(e, answer, t, c)
<1>1. /\ q \in DOMAIN active /\ e \in Entry /\ ~e.done /\ EntryFits(e) /\ In(q) = e.input
      /\ pending \in Nat /\ MaxPending \in Nat /\ e.answer = "none"
  BY ServingFacts DEF Serving
<1>2. e.transitions = 0 /\ e.completions = 0
  BY <1>1 DEF EntryFits
<1>3. /\ f \in Entry /\ f.answer = answer /\ f.transitions = t /\ f.completions = c
      /\ f.input = e.input /\ ~f.done
  <2> HIDE DEF e
  <2>1. /\ f \in Entry /\ f.answer = answer /\ f.transitions = e.transitions + t
        /\ f.completions = e.completions + c /\ f.input = e.input /\ f.done = e.done
    BY <1>1, AnswerFields
  <2> HIDE DEF f
  <2> QED
    BY <1>1, <1>2, <2>1
<1>4. log' = [log EXCEPT ![active[q]] = f] /\ pending' = pending + t + c /\ UNCHANGED active
  BY DEF Answer
<1>5. pending' \in 0 .. MaxPending
  BY <1>1, <1>4 DEF HasRoom
<1> HIDE DEF f, e
<1>6. EntryFits(f)
  BY <1>1, <1>3 DEF EntryFits, AuditedByBackend, Refused
<1> QED
  BY <1>1, <1>3, <1>4, <1>5, <1>6, EntryStep

\* A transaction that appended nothing has room.
LEMMA RoomForNone ==
  ASSUME AuditInv
  PROVE  HasRoom(0 + 0)
  BY AuditAssumption DEF AuditInv, TypeOK, HasRoom

\* Refusals and errors before the service, which append nothing.
LEMMA RefusalStep ==
  ASSUME AuditInv, NEW q, Unauthenticated(q) \/ Forbidden(q) \/ Rejected(q) \/ StatusFails(q)
  PROVE  AuditInv'
<1>1. PICK answer \in {"denied", "rejected", "error"} : Serving(q) /\ Answer(q, answer, 0, 0)
  BY DEF Unauthenticated, Forbidden, Rejected, StatusFails, Called
<1>2. degraded' \in BOOLEAN /\ (degraded => degraded')
  BY DEF Unauthenticated, Forbidden, Rejected, StatusFails, AuditInv, TypeOK
<1> QED
  BY <1>1, <1>2, RoomForNone, AnswerStep DEF Answers

\* The calls of the service keep the invariant: what a successful one appends
\* is what the deferred function relies on.
LEMMA ServeStep ==
  ASSUME AuditInv, NEW q, NEW op \in DOMAIN Routes, Serve(q, op) \/ ClaimEnds(q)
  PROVE  AuditInv'
<1>1. degraded' \in BOOLEAN /\ (degraded => degraded')
  BY DEF Serve, ServiceFails, ReadSucceeds, Changes, ReplayWithCompletion, ReplayWithoutEvent, ClaimEnds,
         AuditInv, TypeOK
<1>2. ASSUME NEW o, Called(q, o)
      PROVE  /\ Serving(q) /\ In(q).role \in RolesOf(In(q)) /\ Handled(In(q)) = {o}
             /\ o \in Reads => requestOperation(In(q)) \cap transactionallyAudited = {}
             /\ o \notin Reads => requestOperation(In(q)) \cap transactionallyAudited # {}
  BY <1>2, OneHandler, HandledNamed, ReadsNotAudited DEF Called
<1>3. CASE ServiceFails(q, op)
  <2>1. PICK answer \in {"denied", "rejected", "error"} : Called(q, op) /\ Answer(q, answer, 0, 0)
    BY <1>3 DEF ServiceFails
  <2> QED
    BY <1>1, <1>2, <2>1, RoomForNone, AnswerStep DEF Answers
<1>4. CASE ReadSucceeds(q, op)
  <2>1. Called(q, op) /\ op \in Reads /\ Answer(q, "success", 0, 0)
    BY <1>4 DEF ReadSucceeds
  <2> QED
    BY <1>1, <1>2, <2>1, RoomForNone, AnswerStep DEF Answers, Refused
<1>5. CASE Changes(q, op)
  <2>1. PICK t \in Transitions(op), answer \in Committed :
          HasRoom(t + Completions(op)) /\ Answer(q, answer, t, Completions(op))
    BY <1>5 DEF Changes
  <2>2. Called(q, op) /\ op \notin Reads
    BY <1>5 DEF Changes
  <2>3. t \in Nat /\ answer \in {"success", "error"}
    BY <2>1, AuditAssumption DEF Transitions, Committed
  <2>4. /\ Completions(op) \in Nat /\ Completions(op) > 0
        /\ Completions(op) > 1 => op = "recovery_validation_finished"
    BY DEF Completions
  <2> QED
    BY <1>1, <1>2, <2>1, <2>2, <2>3, <2>4, AnswerStep DEF Answers, Refused
<1>6. CASE ReplayWithCompletion(q, op)
  <2>1. PICK answer \in Committed : Answer(q, answer, 0, 1)
    BY <1>6 DEF ReplayWithCompletion
  <2>2. Called(q, op) /\ HasRoom(0 + 1) /\ op \notin Reads
    BY <1>6 DEF ReplayWithCompletion, HasRoom, ReplayAudited, Reads
  <2> QED
    BY <1>1, <1>2, <2>1, <2>2, AnswerStep DEF Answers, Refused, Committed
<1>7. CASE ReplayWithoutEvent(q, op)
  <2>1. Called(q, op) /\ op \in ReplaySilent /\ Answer(q, "success", 0, 0)
    BY <1>7 DEF ReplayWithoutEvent
  <2> QED
    BY <1>1, <1>2, <2>1, RoomForNone, AnswerStep DEF Answers, Refused
<1>8. CASE ClaimEnds(q)
  <2>1. PICK answer \in {"denied", "error"} : Answer(q, answer, 1, 0)
    BY <1>8 DEF ClaimEnds
  <2>2. Called(q, "credential_resolved") /\ HasRoom(1 + 0)
    BY <1>8 DEF ClaimEnds, HasRoom
  <2> QED
    BY <1>1, <1>2, <2>1, <2>2, AnswerStep DEF Answers, Refused
<1> QED
  BY <1>3, <1>4, <1>5, <1>6, <1>7, <1>8 DEF Serve

\* The deferred function keeps the invariant: it skips only what has a
\* completion or is a silent replay, and a failure to record degrades.
LEMMA DeferredStep ==
  ASSUME AuditInv, NEW q, Skip(q) \/ Record(q) \/ RecordFails(q)
  PROVE  AuditInv'
<1> DEFINE e == log[active[q]]
<1>1. /\ q \in DOMAIN active /\ e \in Entry /\ ~e.done /\ EntryFits(e)
      /\ pending \in Nat /\ MaxPending \in Nat /\ pending <= MaxPending /\ e.answer # "none"
  BY ServingFacts DEF Skip, Record, RecordFails, Answered
<1>2. /\ degraded' \in BOOLEAN /\ (degraded => degraded')
  BY DEF Skip, Record, RecordFails, AuditInv, TypeOK
<1>3. e.completions \in Nat /\ e.transitions \in Nat /\ e.answer \in Answers
  BY <1>1 DEF Entry
<1>4. PICK n \in {0, 1} :
        /\ Leave(q, n) /\ pending' = pending + n /\ (n = 1 => HasRoom(1))
        /\ n = 1 => ~AuditedByBackend(e)
        /\ n = 0 => AuditedByBackend(e) \/ degraded'
  <2>1. CASE Skip(q)
    BY <1>1, <2>1 DEF Skip
  <2>2. CASE Record(q)
    BY <2>2 DEF Record
  <2>3. CASE RecordFails(q)
    <3>1. PICK n \in 0 .. 1 : (n = 1 => HasRoom(1)) /\ pending' = pending + n /\ Leave(q, n)
      BY <2>3 DEF RecordFails
    <3>2. n \in {0, 1}
      OBVIOUS
    <3> QED
      BY <2>3, <3>1, <3>2 DEF RecordFails
  <2> QED
    BY <2>1, <2>2, <2>3
<1> DEFINE f == LeaveEntry(e, n)
<1>5. /\ f \in Entry /\ f.answer = e.answer /\ f.transitions = e.transitions
      /\ f.completions = e.completions + n /\ f.input = e.input /\ f.done
  BY <1>1, LeaveFields
<1>6. /\ log' = [log EXCEPT ![active[q]] = f]
      /\ active' = [p \in DOMAIN active \ {q} |-> active[p]]
  BY <1>4 DEF Leave
<1>7. pending' \in 0 .. MaxPending
  BY <1>1, <1>4 DEF HasRoom
<1>8. AuditedByBackend(f) <=> AuditedByBackend(e)
  BY <1>5 DEF AuditedByBackend
<1> HIDE DEF f, e
<1>9. EntryFits(f)
  BY <1>1, <1>3, <1>4, <1>5, <1>8 DEF EntryFits, Refused
<1>10. ~degraded' => Accounted(f)
  <2>1. CASE n = 1
    BY <1>3, <1>5, <2>1 DEF Accounted
  <2>2. CASE n = 0 /\ AuditedByBackend(e)
    <3>1. e.answer = "success"
      BY <2>2 DEF AuditedByBackend
    <3> QED
      BY <1>1, <1>3, <1>5, <2>2, <3>1 DEF Accounted, EntryFits
  <2> QED
    BY <1>4, <2>1, <2>2
<1> QED
  BY <1>1, <1>2, <1>5, <1>6, <1>7, <1>9, <1>10, EntryStep

\* A request that arrives is a new entry without an answer.
LEMMA ReceiveStep ==
  ASSUME AuditInv, NEW q \in Slots, NEW in \in Inputs, Receive(q, in)
  PROVE  AuditInv'
<1> DEFINE e == [input |-> in, answer |-> "none", transitions |-> 0, completions |-> 0,
                 done |-> FALSE, current |-> TRUE]
<1>1. /\ log \in Seq(Entry) /\ Len(log) \in Nat /\ DOMAIN log = 1 .. Len(log)
      /\ \A p \in DOMAIN active : active[p] \in DOMAIN log /\ ~log[active[p]].done
      /\ DOMAIN active \subseteq Slots
  BY DEF AuditInv, TypeOK
<1>2. /\ q \notin DOMAIN active /\ log' = Append(log, e) /\ UNCHANGED <<pending, degraded>>
      /\ active' = [p \in DOMAIN active \cup {q} |-> IF p = q THEN Len(log) + 1 ELSE active[p]]
  BY DEF Receive
<1>3. e \in Entry /\ e.answer = "none" /\ e.transitions = 0 /\ e.completions = 0 /\ ~e.done
  BY AuditAssumption DEF Entry, Answers
<1> HIDE DEF e
<1>4. EntryFits(e) /\ Accounted(e)
  BY <1>3 DEF EntryFits, Accounted, Refused
<1>5. /\ log' \in Seq(Entry) /\ DOMAIN log' = DOMAIN log \cup {Len(log) + 1}
      /\ \A i \in DOMAIN log : log'[i] = log[i]
      /\ log'[Len(log) + 1] = e
  BY <1>1, <1>2, <1>3, AppendProperties
<1>6. /\ DOMAIN active' = DOMAIN active \cup {q} /\ active'[q] = Len(log) + 1
      /\ \A p \in DOMAIN active : active'[p] = active[p]
  BY <1>2
<1>7. Len(log) + 1 \notin DOMAIN log
  BY <1>1
<1>8. TypeOK'
  BY <1>1, <1>2, <1>3, <1>5, <1>6 DEF AuditInv, TypeOK
<1>9. \A p, r \in DOMAIN active' : active'[p] = active'[r] => p = r
  BY <1>1, <1>6, <1>7 DEF AuditInv
<1>10. \A i \in DOMAIN log' : EntryFits(log'[i])
  BY <1>4, <1>5 DEF AuditInv
<1>11. ~degraded' => \A i \in DOMAIN log' : Accounted(log'[i])
  BY <1>2, <1>4, <1>5 DEF AuditInv
<1> QED
  BY <1>8, <1>9, <1>10, <1>11 DEF AuditInv, EntryFits, Accounted, AuditedByBackend

\* After a restart no entry is of this process.
LEMMA RestartStep ==
  ASSUME AuditInv, Restart
  PROVE  AuditInv'
<1> DEFINE Old(i) == [log[i] EXCEPT !.current = FALSE]
<1>1. /\ log \in Seq(Entry) /\ Len(log) \in Nat /\ DOMAIN log = 1 .. Len(log)
  BY DEF AuditInv, TypeOK
<1>2. /\ log' = [i \in 1 .. Len(log) |-> Old(i)] /\ active' = [q \in {} |-> 0]
      /\ degraded' = FALSE /\ UNCHANGED pending
  BY <1>1 DEF Restart
<1>3. ASSUME NEW i \in DOMAIN log
      PROVE  /\ Old(i) \in Entry /\ Old(i).input = log[i].input /\ Old(i).answer = log[i].answer
             /\ Old(i).transitions = log[i].transitions /\ Old(i).completions = log[i].completions
             /\ Old(i).done = log[i].done /\ ~Old(i).current
  <2>1. log[i] \in Entry
    BY <1>1, <1>3
  <2> QED
    BY <2>1 DEF Entry
<1> HIDE DEF Old
<1>4. log' \in Seq(Entry) /\ DOMAIN log' = DOMAIN log /\ \A i \in DOMAIN log : log'[i] = Old(i)
  BY <1>1, <1>2, <1>3
<1>5. TypeOK'
  BY <1>2, <1>4 DEF AuditInv, TypeOK
<1>6. ASSUME NEW i \in DOMAIN log
      PROVE  EntryFits(Old(i)) /\ Accounted(Old(i))
  <2>1. EntryFits(log[i])
    BY DEF AuditInv
  <2> QED
    BY <1>3, <2>1 DEF EntryFits, AuditedByBackend, Accounted
<1> QED
  BY <1>2, <1>4, <1>5, <1>6 DEF AuditInv, EntryFits, Accounted, AuditedByBackend

\* Every step keeps the invariant.
LEMMA AuditStep ==
  ASSUME AuditInv, [Next]_vars
  PROVE  AuditInv'
<1>1. CASE Deliver
  <2>1. pending' \in 0 .. MaxPending /\ UNCHANGED <<log, active, degraded>>
    BY <1>1, AuditAssumption DEF Deliver, AuditInv, TypeOK
  <2> QED
    BY <2>1 DEF AuditInv, TypeOK, EntryFits, Accounted, AuditedByBackend
<1>2. CASE UNCHANGED vars
  BY <1>2 DEF vars, AuditInv, TypeOK, EntryFits, Accounted, AuditedByBackend
<1>3. CASE \E q \in Slots, in \in Inputs : Receive(q, in)
  BY <1>3, ReceiveStep
<1>4. CASE \E q \in Slots : Unauthenticated(q) \/ Forbidden(q) \/ Rejected(q) \/ StatusFails(q)
  BY <1>4, RefusalStep
<1>5. CASE \E q \in Slots : (\E op \in DOMAIN Routes : Serve(q, op)) \/ ClaimEnds(q)
  <2>1. "credential_resolved" \in DOMAIN Routes
    BY RouteTable
  <2> QED
    BY <1>5, <2>1, ServeStep
<1>6. CASE \E q \in Slots : Skip(q) \/ Record(q) \/ RecordFails(q)
  BY <1>6, DeferredStep
<1>7. CASE Restart
  BY <1>7, RestartStep
<1> QED
  BY <1>1, <1>2, <1>3, <1>4, <1>5, <1>6, <1>7 DEF Next

\* The invariant holds of every behaviour.
THEOREM AuditInvariant == Spec => []AuditInv
<1>1. Init => AuditInv
  <2> SUFFICES ASSUME Init PROVE AuditInv
    OBVIOUS
  <2>1. /\ log \in Seq(Entry) /\ DOMAIN log = {} /\ DOMAIN active = {} /\ degraded = FALSE
        /\ pending \in 0 .. MaxPending
    BY AuditAssumption DEF Init
  <2> QED
    BY <2>1 DEF AuditInv, TypeOK
<1>2. AuditInv /\ [Next]_vars => AuditInv'
  BY AuditStep
<1> QED
  BY <1>1, <1>2, PTL DEF Spec

-----------------------------------------------------------------------------
(* The properties, for every value of the constants.                       *)

\* The log, the requests in progress and the spool keep their type; the spool
\* stays within its bound (AppendTx).
THEOREM TypeCorrect == Spec => []TypeOK
<1>1. AuditInv => TypeOK
  BY DEF AuditInv
<1> QED
  BY <1>1, AuditInvariant, PTL

\* A request that changed state came from a role that may send it and has its
\* completion event, whatever becomes of the answer (appendSuccessfulTransition,
\* the handlers' role checks).
THEOREM AllChangesAccountable == Spec => []ChangesAccountable
<1>1. AuditInv => ChangesAccountable
  BY DEF AuditInv, EntryFits, ChangesAccountable
<1> QED
  BY <1>1, AuditInvariant, PTL

\* While the recorder is not degraded, what it finished without a completion
\* event changed nothing (Recorder.degraded, transactionallyAudited).
THEOREM HealthyCorrect == Spec => []HealthyMeansRecorded
<1>1. AuditInv => HealthyMeansRecorded
  BY DEF AuditInv, Accounted, HealthyMeansRecorded
<1> QED
  BY <1>1, AuditInvariant, PTL

\* The backend and the deferred function of ServeHTTP never both complete a
\* request whose outcome is known.
THEOREM CompletedOnce == Spec => []NoDoubleCompletion
<1>1. AuditInv => NoDoubleCompletion
  <2> SUFFICES ASSUME AuditInv, NEW i \in DOMAIN log, log[i].completions > 1
               PROVE  \/ log[i].answer = "error"
                      \/ Handled(log[i].input) = {"recovery_validation_finished"}
    BY DEF NoDoubleCompletion
  <2>1. log[i] \in Entry /\ EntryFits(log[i])
    BY DEF AuditInv, TypeOK
  <2>2. log[i].answer \in Answers /\ log[i].completions \in Nat
    BY <2>1 DEF Entry
  <2> QED
    BY <2>1, <2>2 DEF EntryFits, Answers, Refused
<1> QED
  BY <1>1, AuditInvariant, PTL

=============================================================================
