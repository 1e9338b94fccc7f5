------------------------------ MODULE Service ------------------------------
(***************************************************************************)
(* The process: server.ts, which starts the parts the configuration asks   *)
(* for and stops them on a signal, and app.ts, whose handlers carry a      *)
(* request from its connection to its answer.  Without a database          *)
(* (persistence "DISABLED") a delivery goes to the replay guard and queue  *)
(* of InMemoryWebhook; with one, handlers and the two workers use the      *)
(* pool, which shutdown ends last.  What a controller or a job does there  *)
(* is modelled elsewhere: here it is an await that uses the pool.          *)
(***************************************************************************)
EXTENDS InMemoryWebhook

CONSTANTS
  Connection,   \* slots for connections, and for the handlers that outlive them
  Signal        \* SIGINT, SIGTERM: each is handled once

VARIABLES
  persistence,  \* PersistenceConfig's provider; never changes
  listening,    \* the server accepts connections
  connected,    \* connections: kept alive between requests
  route, stage, \* connections: the request and how far its handler is
  polling,      \* workers: the timer is set, and stopping is not
  busy,         \* jobs: how many are in progress
  shutdown,     \* signals: how far shutdown(signal) is
  pool,         \* whether pool.end() has been called
  exit          \* how the process ended

httpVars == <<connected, route, stage>>
workerVars == <<polling, busy>>
processVars == <<persistence, listening, shutdown, pool, exit>>
svars == <<vars, httpVars, workerVars, processVars>>

Worker == {"WORKFLOW_RUNS", "LEADS"}

Job == {"REVIEW_TASK", "NOTIFICATION", "BACKLOG"}

WorkerOf(j) == IF j = "REVIEW_TASK" THEN "WORKFLOW_RUNS" ELSE "LEADS"

(* drain of the one worker starts up to concurrency jobs; draining and     *)
(* monitoring of the other are one promise each.                           *)
Slots(j) == IF j = "REVIEW_TASK" THEN Concurrency ELSE 1

Authenticated == {"REVIEW", "REPORT"}

Routes == DeliveryId \cup Authenticated

(* authenticateReviewRequest, readJsonBody or readRawBody, the controller's *)
(* first query, its last transaction; LOST is a handler that never settles. *)
Stages == {"IDLE", "AUTHENTICATING", "READING", "HANDLING", "COMMITTING", "LOST"}

ServiceInit ==
  /\ Init
  /\ persistence \in {"DISABLED", "POSTGRES"}
  /\ listening = TRUE
  /\ connected = [c \in Connection |-> FALSE]
  /\ route = [c \in Connection |-> "NONE"]
  /\ stage = [c \in Connection |-> "IDLE"]
  /\ polling \in [Worker -> BOOLEAN]
  /\ persistence = "DISABLED" => polling = [w \in Worker |-> FALSE]
  /\ busy = [j \in Job |-> 0]
  /\ shutdown = [s \in Signal |-> "NONE"]
  /\ pool = "OPEN"
  /\ exit = "NO"

----------------------------------------------------------------------------
(* Connections and requests. *)

Connect(c) ==
  /\ listening
  /\ ~connected[c] /\ stage[c] = "IDLE"
  /\ connected' = [connected EXCEPT ![c] = TRUE]
  /\ UNCHANGED <<vars, route, stage, workerVars, processVars>>

(* createRequestHandler; the answers it gives at once, or because what was *)
(* asked for is not configured, change nothing.  A review and a report     *)
(* authenticate before the body is read: a query, if there is a database.  *)
HandleRequest(c, r) ==
  /\ connected[c] /\ stage[c] = "IDLE"
  /\ r = "REPORT" => persistence = "POSTGRES"
  /\ route' = [route EXCEPT ![c] = r]
  /\ stage' = [stage EXCEPT ![c] = IF r \in Authenticated /\ persistence = "POSTGRES"
                                   THEN "AUTHENTICATING" ELSE "READING"]
  /\ UNCHANGED <<vars, connected, workerVars, processVars>>

PoolAnswers == persistence = "POSTGRES" /\ pool = "OPEN"

(* readJsonBody adds its listeners only now: it misses an abort that came  *)
(* before, and waits for the end of a body for ever.                       *)
Authenticate(c) ==
  /\ stage[c] = "AUTHENTICATING" /\ PoolAnswers
  /\ stage' = [stage EXCEPT ![c] = IF route[c] = "REPORT" THEN "HANDLING"
                                   ELSE IF connected[c] THEN "READING"
                                   ELSE "LOST"]
  /\ UNCHANGED <<vars, connected, route, workerVars, processVars>>

(* onEnd.  Without a database, receive runs to its end in the same turn.   *)
ReadBody(c) ==
  /\ stage[c] = "READING" /\ connected[c]
  /\ route[c] = "REVIEW" \/ persistence = "POSTGRES"
  /\ stage' = [stage EXCEPT ![c] = "HANDLING"]
  /\ UNCHANGED <<vars, connected, route, workerVars, processVars>>

(* createReview: the engines run between its first query and recordReview. *)
Decide(c) ==
  /\ stage[c] = "HANDLING" /\ route[c] = "REVIEW" /\ PoolAnswers
  /\ stage' = [stage EXCEPT ![c] = "COMMITTING"]
  /\ UNCHANGED <<vars, connected, route, workerVars, processVars>>

HandlerEnds(c) ==
  /\ stage' = [stage EXCEPT ![c] = "IDLE"]
  /\ route' = [route EXCEPT ![c] = "NONE"]

(* sendJson and sendErrorResponse: the connection is kept alive.           *)
Answer(c) ==
  /\ stage[c] \in {"AUTHENTICATING", "READING", "HANDLING", "COMMITTING"}
  /\ stage[c] = "READING" => connected[c]
  /\ HandlerEnds(c)
  /\ UNCHANGED <<vars, connected, workerVars, processVars>>

Receive(c) ==
  /\ stage[c] = "READING" /\ connected[c]
  /\ route[c] \in DeliveryId /\ persistence = "DISABLED"
  /\ RefuseAtGuard(route[c]) \/ RefuseAtQueue(route[c]) \/ Accept(route[c])
  /\ HandlerEnds(c)
  /\ UNCHANGED <<connected, workerVars, processVars>>

(* The peer, or a timeout of the server, ends the connection; only the     *)
(* reading of a body learns of it (onAborted, onError).                    *)
Disconnect(c) ==
  /\ connected[c]
  /\ connected' = [connected EXCEPT ![c] = FALSE]
  /\ IF stage[c] = "READING" THEN HandlerEnds(c) ELSE UNCHANGED <<stage, route>>
  /\ UNCHANGED <<vars, workerVars, processVars>>

----------------------------------------------------------------------------
(* The workers. *)

(* The poll timer, or the monitor's, fires: drain or monitor. *)
Poll(j) ==
  /\ polling[WorkerOf(j)] /\ busy[j] < Slots(j)
  /\ busy' = [busy EXCEPT ![j] = @ + 1]
  /\ UNCHANGED <<vars, httpVars, polling, processVars>>

(* drain goes on while there is work, unless the worker is stopping. *)
GoesOn(j) == j # "BACKLOG" /\ polling[WorkerOf(j)]

(* runOnce or monitorOnce settles; the next runOnce starts in its place.   *)
JobEnds(j) ==
  /\ busy[j] > 0
  /\ \/ busy' = [busy EXCEPT ![j] = @ - 1]
     \/ GoesOn(j) /\ UNCHANGED busy
  /\ UNCHANGED <<vars, httpVars, polling, processVars>>

----------------------------------------------------------------------------
(* shutdown(signal), from one await to the next. *)

Receives(s) ==
  /\ shutdown[s] = "NONE"
  /\ shutdown' = [shutdown EXCEPT ![s] = "CLOSING"]
  /\ listening' = FALSE
  /\ UNCHANGED <<vars, httpVars, workerVars, persistence, pool, exit>>

(* The server emits close when its last connection has ended: the callback *)
(* of every close() is called, and stop() of the first worker.  Without a  *)
(* database there is nothing to wait for after that.                       *)
Closed(s) ==
  /\ shutdown[s] = "CLOSING"
  /\ \A c \in Connection : ~connected[c]
  /\ shutdown' = [shutdown EXCEPT ![s] = IF persistence = "POSTGRES"
                                         THEN "STOPPING_WORKFLOW_RUNS" ELSE "STOPPED"]
  /\ polling' = [polling EXCEPT !["WORKFLOW_RUNS"] = FALSE]
  /\ UNCHANGED <<vars, httpVars, busy, persistence, listening, pool, exit>>

(* Mutant: stop() leaves the timers of the leads' worker set. *)
WorkflowRunsStoppedOnly(s) ==
  /\ shutdown[s] = "STOPPING_WORKFLOW_RUNS" /\ busy["REVIEW_TASK"] = 0
  /\ shutdown' = [shutdown EXCEPT ![s] = "STOPPING_LEADS"]
  /\ UNCHANGED <<vars, httpVars, workerVars, persistence, listening, pool, exit>>

WorkflowRunsStopped(s) ==
  /\ shutdown[s] = "STOPPING_WORKFLOW_RUNS" /\ busy["REVIEW_TASK"] = 0
  /\ shutdown' = [shutdown EXCEPT ![s] = "STOPPING_LEADS"]
  /\ polling' = [polling EXCEPT !["LEADS"] = FALSE]
  /\ UNCHANGED <<vars, httpVars, busy, persistence, listening, pool, exit>>

DrainingEnded(s) ==
  /\ shutdown[s] = "STOPPING_LEADS" /\ busy["NOTIFICATION"] = 0
  /\ shutdown' = [shutdown EXCEPT ![s] = "STOPPING_MONITOR"]
  /\ UNCHANGED <<vars, httpVars, workerVars, persistence, listening, pool, exit>>

(* Mutant: the monitor's query is not waited for. *)
CloseStoreEarly(s) ==
  /\ shutdown[s] = "STOPPING_MONITOR"
  /\ shutdown' = [shutdown EXCEPT ![s] = "STOPPED"]
  /\ pool' = "ENDED"
  /\ exit' = IF pool = "ENDED" THEN "REJECTED" ELSE exit
  /\ UNCHANGED <<vars, httpVars, workerVars, persistence, listening>>

(* lifecycleStore.close: a second pool.end() is rejected, and nothing      *)
(* handles the rejection of shutdown.                                      *)
CloseStore(s) ==
  /\ shutdown[s] = "STOPPING_MONITOR" /\ busy["BACKLOG"] = 0
  /\ shutdown' = [shutdown EXCEPT ![s] = "STOPPED"]
  /\ pool' = "ENDED"
  /\ exit' = IF pool = "ENDED" THEN "REJECTED" ELSE exit
  /\ UNCHANGED <<vars, httpVars, workerVars, persistence, listening>>

(* Nothing is left for the event loop, of the queue in memory as little as *)
(* of handlers; pending promises do not hold it, and timers are unref'd.   *)
LoopIsEmpty ==
  /\ ~listening
  /\ \A c \in Connection : ~connected[c] /\ stage[c] \in {"IDLE", "LOST"}
  /\ \A s \in Signal : shutdown[s] \in {"NONE", "STOPPED"}
  /\ ~scheduled /\ running = {}

Exit ==
  /\ LoopIsEmpty
  /\ exit' = "DONE"
  /\ UNCHANGED <<vars, httpVars, workerVars, persistence, listening, shutdown, pool>>

----------------------------------------------------------------------------

Queue(A) == persistence = "DISABLED" /\ A /\ UNCHANGED <<httpVars, workerVars, processVars>>

ReviewsOf(d) == \E t \in running : t[1] = d /\ Settle(t)

Request(c) == Authenticate(c) \/ ReadBody(c) \/ Decide(c) \/ Answer(c) \/ Receive(c)

Stops(s) == Closed(s) \/ WorkflowRunsStopped(s) \/ DrainingEnded(s) \/ CloseStore(s)

ServiceNext ==
  /\ exit = "NO"
  /\ \/ Queue(Tick) \/ Queue(Drain) \/ Queue(\E d \in Reviewable : ReviewsOf(d))
     \/ \E c \in Connection : \/ Connect(c) \/ (\E r \in Routes : HandleRequest(c, r))
                              \/ Request(c) \/ Disconnect(c)
     \/ \E j \in Job : Poll(j) \/ JobEnds(j)
     \/ \E s \in Signal : Receives(s) \/ Stops(s)
     \/ Exit

(* Whatever is due on the event loop runs, and every await settles: the    *)
(* peer sends the rest of a body or the server's timeouts end the          *)
(* connection, reviews and jobs end, and a peer does not keep a connection *)
(* to a closing server busy for ever.                                      *)
ServiceFairness ==
  /\ WF_svars(exit = "NO" /\ Queue(Drain))
  /\ \A d \in Reviewable : WF_svars(exit = "NO" /\ Queue(ReviewsOf(d)))
  /\ \A c \in Connection : /\ WF_svars(exit = "NO" /\ Request(c))
                           /\ SF_svars(exit = "NO" /\ stage[c] = "IDLE" /\ Disconnect(c))
  /\ \A j \in Job : WF_svars(exit = "NO" /\ JobEnds(j) /\ busy' # busy)
  /\ \A s \in Signal : WF_svars(exit = "NO" /\ Stops(s))
  /\ WF_svars(exit = "NO" /\ Exit)

Ended == exit # "NO" /\ UNCHANGED svars

ServiceSpec == ServiceInit /\ [][ServiceNext \/ Ended]_svars /\ ServiceFairness

----------------------------------------------------------------------------
(* Properties.                                                             *)

(* The pool is ended under nobody whose answer is still awaited: neither a *)
(* job that went on after stop() nor a request that was accepted just      *)
(* before close(), and not by the second signal either.  (A handler whose  *)
(* peer has gone may lose it.)                                             *)
StoreClosedLast ==
  pool = "ENDED" =>
    /\ \A c \in Connection : ~connected[c]
    /\ \A j \in Job : busy[j] = 0

(* After a signal the process ends, with requests kept alive, reviews and  *)
(* notifications in progress, and handlers that never settle.              *)
ShutdownEnds == (\E s \in Signal : shutdown[s] # "NONE") ~> (exit # "NO")

=============================================================================
