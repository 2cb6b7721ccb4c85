--------------------------- MODULE ServiceRuntime ---------------------------
(***************************************************************************)
(* The life of one service process, self: app/runtime.go and               *)
(* auditsink/runtime.go with their main.go.  After its startup Run opens   *)
(* the listeners and launches the goroutines that serve the API, serve the *)
(* health checks and, in the secrets service, deliver audit records; it    *)
(* waits for a signal or for one of them to end and then drains.  The      *)
(* other processes on the database only start.                             *)
(*                                                                         *)
(* A goroutine that ends sends its result to errorsChannel: "closed" is    *)
(* http.ErrServerClosed, "nil" a worker canceled between two batches,      *)
(* "fault" anything else.  A select that finds nothing ready blocks, and   *)
(* the first event after that decides it; when several are ready Go takes  *)
(* any.  http.Server.Shutdown closes the listener, waits until Serve has   *)
(* returned and only then closes idle connections and looks at the time.   *)
(***************************************************************************)
EXTENDS SchemaMigrations

CONSTANTS
  self,             \* the process that is followed
  Conns,            \* network connections that may be open
  MaxNetworkConns   \* config.MaxNetworkConns

ASSUME RuntimeAssumption == self \in Processes /\ MaxNetworkConns \in Nat \ {0}

VARIABLES
  main,     \* where Run is
  signal,   \* the context of signal.NotifyContext is canceled
  cause,    \* what the select of Run received
  routine,  \* goroutine -> "running", the result it is sending, or "ended"
  channel,  \* errorsChannel
  accept,   \* where the accept loop of the API server is
  tokens,   \* occupied slots of limitListener
  conn,     \* what each connection is doing
  probe,    \* a readiness check is pinging the database
  expired,  \* shutdownContext has timed out
  overran   \* the servers whose Shutdown returned the timeout

runVars == <<main, signal, cause, routine, channel, accept, tokens, conn,
             probe, expired, overran>>
vars == <<startupVars, runVars>>

MainSteps == {"off", "starting", "select", "blocked", "woken", "stopping",
              "stoppingHealth", "waiting", "closing", "exited"}
Results == {"closed", "nil", "fault"}

\* workers.Add: the goroutines Run launches.
RoutinesOf(s) == {"api", "health"} \cup (IF s = "secrets" THEN {"worker"} ELSE {})
Routines == RoutinesOf(service)

\* Mutant: errorsChannel is unbuffered but for one result.
CapacityOne == 1

\* make(chan error, n).
Capacity == Cardinality(Routines)

RunInit ==
  /\ main = "off"
  /\ signal = FALSE
  /\ cause = "none"
  /\ routine = [g \in Routines |-> "running"]
  /\ channel = << >>
  /\ accept = "start"
  /\ tokens = 0
  /\ conn = [c \in Conns |-> "none"]
  /\ probe = FALSE
  /\ expired = FALSE
  /\ overran = {}

Init == StartupInit /\ RunInit

-----------------------------------------------------------------------------
(* State functions.                                                        *)

Serving == {"starting", "select", "blocked", "woken"}
Stopping == {"stopping", "stoppingHealth", "waiting", "closing"}
Alive == main \in Serving \cup Stopping

\* runtime.ready.
Ready == main \in {"select", "blocked", "woken"}

\* runContext: canceled with the signal's context and by cancelRun.
RunCanceled == signal \/ main \in Stopping

Open == {c \in Conns : conn[c] # "none"}
InTransaction == {c \in Conns : conn[c] = "transaction"}

Ended(g) == routine[g] = "ended"
Running(g) == Alive /\ routine[g] = "running"
Return(g, result) == routine' = [routine EXCEPT ![g] = result]

-----------------------------------------------------------------------------
(* Run, up to its select, and what wakes it.                               *)

Launch ==
  /\ main = "off" /\ At(self, "built")
  /\ main' = "starting"
  /\ UNCHANGED <<startupVars, signal, cause, routine, channel, accept, tokens,
                 conn, probe, expired, overran>>

\* An address is taken: the pool is closed and main exits.
ListenFails ==
  /\ main = "off" /\ At(self, "built")
  /\ main' = "exited"
  /\ cause' = "fault"
  /\ UNCHANGED <<startupVars, signal, routine, channel, accept, tokens, conn,
                 probe, expired, overran>>

StoreReady ==
  /\ main = "starting"
  /\ main' = "select"
  /\ UNCHANGED <<startupVars, signal, cause, routine, channel, accept, tokens,
                 conn, probe, expired, overran>>

Wake(received) == main' = "woken" /\ cause' = received

Select ==
  /\ main = "select"
  /\ \/ signal /\ Wake("signal") /\ UNCHANGED channel
     \/ channel # << >> /\ Wake(Head(channel)) /\ channel' = Tail(channel)
     \/ ~signal /\ channel = << >> /\ main' = "blocked" /\ UNCHANGED <<cause, channel>>
  /\ UNCHANGED <<startupVars, signal, routine, accept, tokens, conn, probe,
                 expired, overran>>

\* SIGTERM or SIGINT; later ones have no effect.
Signal ==
  /\ ~signal
  /\ At(self, "built") /\ main \in {"off"} \cup Serving
  /\ signal' = TRUE
  /\ IF main = "blocked" THEN Wake("signal") ELSE UNCHANGED <<main, cause>>
  /\ UNCHANGED <<startupVars, routine, channel, accept, tokens, conn, probe,
                 expired, overran>>

\* errorsChannel <- result, received at once by a blocked select.
Send(g) ==
  /\ Alive /\ routine[g] \in Results
  /\ \/ main = "blocked" /\ Wake(routine[g]) /\ UNCHANGED channel
     \/ /\ main # "blocked" /\ Len(channel) < Capacity
        /\ channel' = Append(channel, routine[g])
        /\ UNCHANGED <<main, cause>>
  /\ Return(g, "ended")
  /\ UNCHANGED <<startupVars, signal, accept, tokens, conn, probe, expired, overran>>

-----------------------------------------------------------------------------
(* The goroutines.                                                         *)

\* DeliveryWorker.Run: ErrAudit at any time, and when it is canceled either
\* nil or the error of the statement that was canceled.
WorkerReturns(result) ==
  /\ "worker" \in Routines /\ Running("worker")
  /\ \/ result = "fault"
     \/ result = "nil" /\ RunCanceled
  /\ Return("worker", result)
  /\ UNCHANGED <<startupVars, main, signal, cause, channel, accept, tokens,
                 conn, probe, expired, overran>>

HealthReturns(result) ==
  /\ Running("health")
  /\ \/ result = "fault" /\ main \notin Stopping \ {"stopping"}
     \/ result = "closed" /\ main \in Stopping \ {"stopping"}
  /\ Return("health", result)
  /\ UNCHANGED <<startupVars, main, signal, cause, channel, accept, tokens,
                 conn, probe, expired, overran>>

\* http.Server.Serve and limitListener.Accept.  Serve refuses to begin on a
\* server that is shutting down.
ServeBegins ==
  /\ Running("api") /\ accept = "start"
  /\ IF main \in Stopping
     THEN Return("api", "closed") /\ UNCHANGED accept
     ELSE accept' = "token" /\ UNCHANGED routine
  /\ UNCHANGED <<startupVars, main, signal, cause, channel, tokens, conn, probe,
                 expired, overran>>

TakeToken ==
  /\ Running("api") /\ accept = "token"
  /\ tokens < MaxNetworkConns
  /\ tokens' = tokens + 1
  /\ accept' = "accepting"
  /\ UNCHANGED <<startupVars, main, signal, cause, routine, channel, conn,
                 probe, expired, overran>>

\* Mutant: Accept of the sink does not look at done.
DoneIgnored == FALSE

\* The done channel of the sink's listener; the secrets service has none.
DoneClosed == service = "sink" /\ main \in Stopping

TokenWaitEnds ==
  /\ Running("api") /\ accept = "token"
  /\ DoneClosed
  /\ Return("api", "closed")
  /\ UNCHANGED <<startupVars, main, signal, cause, channel, accept, tokens,
                 conn, probe, expired, overran>>

AcceptConnection(c) ==
  /\ Running("api") /\ accept = "accepting"
  /\ main \in Serving
  /\ conn[c] = "none"
  /\ conn' = [conn EXCEPT ![c] = "new"]
  /\ accept' = "token"
  /\ UNCHANGED <<startupVars, main, signal, cause, routine, channel, tokens,
                 probe, expired, overran>>

\* Mutant: a failed Accept keeps its slot.
TokensKept == tokens

\* <-listener.tokens.
TokensReleased == tokens - 1

\* A temporary error is retried, any other ends Serve, as does the closed
\* listener.
AcceptFails(result) ==
  /\ Running("api") /\ accept = "accepting"
  /\ \/ result = "retry" /\ main \in Serving /\ accept' = "token" /\ UNCHANGED routine
     \/ result = "fault" /\ main \in Serving /\ Return("api", result) /\ UNCHANGED accept
     \/ result = "closed" /\ main \in Stopping /\ Return("api", result) /\ UNCHANGED accept
  /\ tokens' = TokensReleased
  /\ UNCHANGED <<startupVars, main, signal, cause, channel, conn, probe, expired, overran>>

-----------------------------------------------------------------------------
(* Connections, their handlers, and readiness checks.                      *)

Turns(c, state) ==
  /\ conn' = [conn EXCEPT ![c] = state]
  /\ UNCHANGED <<startupVars, main, signal, cause, routine, channel, accept,
                 tokens, probe, expired, overran>>

\* limitedConn.Close.
Close(c) ==
  /\ conn' = [conn EXCEPT ![c] = "none"]
  /\ tokens' = TokensReleased
  /\ UNCHANGED <<startupVars, main, signal, cause, routine, channel, accept,
                 probe, expired, overran>>

Request(c) == Alive /\ conn[c] \in {"new", "idle"} /\ Turns(c, "handling")

\* A handler acquires a database connection, unless the pool is closing.
BeginTransaction(c) ==
  Alive /\ conn[c] = "handling" /\ main # "closing" /\ Turns(c, "transaction")

EndTransaction(c) == Alive /\ conn[c] = "transaction" /\ Turns(c, "handling")

\* The response is written; keep-alive ends with the shutdown, and responses
\* with secrets close the connection.
Respond(c) ==
  /\ Alive /\ conn[c] = "handling"
  /\ \/ main \in Serving /\ Turns(c, "idle")
     \/ Close(c)

\* The client goes away or a read or idle timeout passes.
Hangup(c) == Alive /\ conn[c] \in {"new", "idle"} /\ Close(c)

\* healthHandler: GET /readyz loads ready, then pings within 250 ms.
Probe ==
  /\ Ready /\ routine["health"] = "running" /\ ~probe
  /\ probe' = TRUE
  /\ UNCHANGED <<startupVars, main, signal, cause, routine, channel, accept,
                 tokens, conn, expired, overran>>

ProbeEnds ==
  /\ Alive /\ probe
  /\ probe' = FALSE
  /\ UNCHANGED <<startupVars, main, signal, cause, routine, channel, accept,
                 tokens, conn, expired, overran>>

-----------------------------------------------------------------------------
(* The end of Run.                                                         *)

\* ready is cleared, runContext canceled and mainServer.Shutdown called.
Stop ==
  /\ main = "woken"
  /\ main' = "stopping"
  /\ UNCHANGED <<startupVars, signal, cause, routine, channel, accept, tokens,
                 conn, probe, expired, overran>>

Expire ==
  /\ main \in {"stopping", "stoppingHealth"} /\ ~expired
  /\ expired' = TRUE
  /\ UNCHANGED <<startupVars, main, signal, cause, routine, channel, accept,
                 tokens, conn, probe, overran>>

\* Shutdown closes what is idle once Serve has returned.
CloseIdle(c) ==
  /\ main = "stopping" /\ routine["api"] # "running"
  /\ conn[c] \in {"new", "idle"}
  /\ Close(c)

\* Mutant: the error of Shutdown is dropped.
OverranDropped(server) == {}

\* mainError and healthError.
Overran(server) == {server}

\* Shutdown of a server that has stopped accepting returns nil when nothing
\* is open, or the error of its context; it polls, so an expired context may
\* be seen before the end of the last connection.
ShutdownReturns(server, drained) ==
  /\ \/ drained /\ UNCHANGED overran
     \/ expired /\ overran' = overran \cup Overran(server)
  /\ UNCHANGED <<startupVars, signal, cause, routine, channel, accept, tokens,
                 conn, probe, expired>>

MainStopped ==
  /\ main = "stopping" /\ routine["api"] # "running"
  /\ main' = "stoppingHealth"
  /\ ShutdownReturns("api", Open = {})

HealthStopped ==
  /\ main = "stoppingHealth" /\ routine["health"] # "running"
  /\ main' = "waiting"
  /\ ShutdownReturns("health", ~probe)

\* workers.Wait.
AllEnded ==
  /\ main = "waiting"
  /\ \A g \in Routines : Ended(g)
  /\ main' = "closing"
  /\ UNCHANGED <<startupVars, signal, cause, routine, channel, accept, tokens,
                 conn, probe, expired, overran>>

\* pool.Close waits for the connections that are acquired.
PoolIdle == InTransaction = {} /\ ~probe

Exit ==
  /\ main = "closing"
  /\ PoolIdle
  /\ main' = "exited"
  /\ UNCHANGED <<startupVars, signal, cause, routine, channel, accept, tokens,
                 conn, probe, expired, overran>>

\* The exit status main.go reports.
Clean == cause # "fault" /\ overran = {}

\* The process has exited, or is killed, and is started again.
Restart ==
  /\ At(self, "built") /\ main # "off"
  /\ main' = "off" /\ signal' = FALSE /\ cause' = "none"
  /\ routine' = [g \in Routines |-> "running"] /\ channel' = << >>
  /\ accept' = "start" /\ tokens' = 0 /\ conn' = [c \in Conns |-> "none"]
  /\ probe' = FALSE /\ expired' = FALSE /\ overran' = {}
  /\ Move(self, NotStarted)
  /\ UNCHANGED <<service, recorded, objects, work>>

-----------------------------------------------------------------------------
RunStep ==
  Launch \/ ListenFails \/ StoreReady \/ Select \/ Stop \/ MainStopped
    \/ HealthStopped \/ AllEnded \/ Exit

ServeStep == ServeBegins \/ TakeToken \/ TokenWaitEnds \/ AcceptFails("closed")

Next ==
  \/ \E p \in Processes : StartupNext(p) /\ UNCHANGED runVars
  \/ RunStep \/ Restart \/ Signal \/ Expire \/ Probe \/ ProbeEnds
  \/ ServeStep \/ AcceptFails("retry") \/ AcceptFails("fault")
  \/ \E g \in Routines : Send(g)
  \/ \E result \in Results : WorkerReturns(result) \/ HealthReturns(result)
  \/ \E c \in Conns :
       \/ AcceptConnection(c) \/ Request(c) \/ Respond(c) \/ Hangup(c) \/ CloseIdle(c)
       \/ BeginTransaction(c) \/ EndTransaction(c)

Spec == Init /\ [][Next]_vars

\* Goroutines run, a canceled worker returns, a ping and the shutdown context
\* time out, idle connections are closed by Shutdown, and an advisory lock
\* goes to the one who waits longest.  Nothing is assumed of clients, of
\* handlers or of the database.
FairSpec ==
  /\ Spec
  /\ WF_vars(RunStep)
  /\ WF_vars(ServeStep)
  /\ \A g \in {"api", "health", "worker"} : WF_vars(g \in Routines /\ Send(g))
  /\ WF_vars(RunCanceled /\ \E result \in Results : WorkerReturns(result))
  /\ WF_vars(HealthReturns("closed"))
  /\ WF_vars(ProbeEnds)
  /\ WF_vars(Expire)
  /\ \A c \in Conns : WF_vars(CloseIdle(c))
  /\ \A p \in Processes :
       /\ SF_vars(Lock(p) /\ UNCHANGED runVars)
       /\ WF_vars(StartupStep(p) /\ UNCHANGED runVars)

-----------------------------------------------------------------------------
(* Properties.                                                             *)

\* Type invariant of Run's state: a process past Launch has been built.
TypeOK ==
  /\ StartupTypeOK
  /\ main \in MainSteps
  /\ routine \in [Routines -> {"running", "ended"} \cup Results]
  /\ channel \in Seq(Results)
  /\ accept \in {"start", "token", "accepting"}
  /\ conn \in [Conns -> {"none", "new", "idle", "handling", "transaction"}]
  /\ main # "off" => At(self, "built")

\* limitListener: a slot is held by exactly one open connection or by the
\* pending Accept, through failed accepts, hangups and shutdown, so that
\* neither more connections than configured are open nor slots are lost.
SlotsExact ==
  Alive =>
    /\ tokens = Cardinality(Open)
                  + (IF accept = "accepting" /\ routine["api"] = "running" THEN 1 ELSE 0)
    /\ Cardinality(Open) <= MaxNetworkConns

\* README.md: the service applies database migrations before becoming ready.
\* Whatever other processes do and wherever startups were interrupted, a
\* process that listens has every migration it knows in the database.
ServesMigrated == main \in Serving \cup Stopping => objects = MigrationsOf(service)

\* The exit status says what happened (Run): a clean exit has cut off no
\* request, and a process whose select saw the signal and whose requests
\* ended in time exits clean, whatever its canceled goroutines returned.
ExitTruthful ==
  main = "exited" =>
    /\ Clean => Open = {}
    /\ cause = "signal" /\ ~expired => Clean

\* If connections end, a signal and the end of any goroutine lead to the end
\* of the process: nothing waits for a full errorsChannel, for a slot nobody
\* returns, or for a goroutine that waits for Run.
ShutdownEnds ==
  (\A c \in Conns : []<>(conn[c] = "none")) =>
    ((Alive /\ (signal \/ \E g \in Routines : Ended(g))) ~> ~Alive)

\* The shutdown timeout bounds mainServer.Shutdown, even when every slot is
\* taken and no connection ever ends.
StopsInTime(s) == (service = s /\ main = "stopping" /\ expired) ~> (main # "stopping")

\* The audit sink keeps its shutdown timeout, by the done channel of its
\* listener.
SinkStopsInTime == StopsInTime("sink")

=============================================================================
