--------------------------- MODULE ServiceProofs ---------------------------
(***************************************************************************)
(* The pool is ended last, for any number of connections, slots and        *)
(* signals.  The inductive invariant says what is already at rest at each  *)
(* await of shutdown, and that it stays so: the server no longer listens,  *)
(* no connection is left, and each worker's timers went before its jobs.   *)
(***************************************************************************)
EXTENDS Service, TLAPS

AfterClose == {"STOPPING_WORKFLOW_RUNS", "STOPPING_LEADS", "STOPPING_MONITOR", "STOPPED"}

AtRest(s) ==
  /\ shutdown[s] # "NONE" => listening = FALSE
  /\ shutdown[s] \in AfterClose \ {"STOPPED"} => persistence = "POSTGRES"
  /\ shutdown[s] \in AfterClose => \A c \in Connection : ~connected[c]
  /\ shutdown[s] \in AfterClose /\ persistence = "POSTGRES" => ~polling["WORKFLOW_RUNS"]
  /\ shutdown[s] \in AfterClose \ {"STOPPING_WORKFLOW_RUNS"} /\ persistence = "POSTGRES" =>
       ~polling["LEADS"] /\ busy["REVIEW_TASK"] = 0
  /\ shutdown[s] \in {"STOPPING_MONITOR", "STOPPED"} /\ persistence = "POSTGRES" =>
       busy["NOTIFICATION"] = 0
  /\ shutdown[s] = "STOPPED" /\ persistence = "POSTGRES" => busy["BACKLOG"] = 0

ServiceTypes ==
  /\ shutdown \in [Signal -> {"NONE", "CLOSING"} \cup AfterClose]
  /\ connected \in [Connection -> BOOLEAN]
  /\ polling \in [Worker -> BOOLEAN]
  /\ busy \in [Job -> Nat]

ShutdownInv ==
  /\ ServiceTypes
  /\ \A s \in Signal : AtRest(s)
  /\ pool = "ENDED" => \E s \in Signal : shutdown[s] = "STOPPED" /\ persistence = "POSTGRES"

(* The actions that leave shutdown and the workers alone. *)
LEMMA RequestStep ==
  ASSUME ShutdownInv, UNCHANGED <<polling, busy, processVars>>,
         connected' = connected \/ (\E c \in Connection : connected' = [connected EXCEPT ![c] = FALSE])
  PROVE  ShutdownInv'
<1>1. connected' \in [Connection -> BOOLEAN] /\ \A c \in Connection : ~connected[c] => ~connected'[c]
  BY DEF ShutdownInv, ServiceTypes
<1> QED
  BY <1>1 DEF ShutdownInv, ServiceTypes, AtRest, processVars

LEMMA ConnectStep ==
  ASSUME ShutdownInv, NEW c \in Connection, Connect(c)
  PROVE  ShutdownInv'
<1>1. UNCHANGED <<polling, busy, persistence, listening, shutdown, pool>> /\ listening
  BY DEF Connect, workerVars, processVars
<1>2. connected' \in [Connection -> BOOLEAN]
  BY DEF Connect, ShutdownInv, ServiceTypes
<1>3. \A s \in Signal : shutdown[s] = "NONE"
  BY <1>1 DEF ShutdownInv, AtRest
<1> QED
  BY <1>1, <1>2, <1>3 DEF ShutdownInv, ServiceTypes, AtRest, AfterClose

(* A job that ends may be followed by another only while its timer is set. *)
LEMMA JobStep ==
  ASSUME ShutdownInv, NEW j \in Job, Poll(j) \/ JobEnds(j)
  PROVE  ShutdownInv'
<1>1. UNCHANGED <<connected, polling, processVars>>
  BY DEF Poll, JobEnds, httpVars
<1>2. busy' \in [Job -> Nat]
  BY DEF Poll, JobEnds, ShutdownInv, ServiceTypes
<1>3. ASSUME NEW i \in Job, busy[i] = 0, ~polling[WorkerOf(i)]
      PROVE  busy'[i] = 0
  BY <1>3 DEF Poll, JobEnds, ShutdownInv, ServiceTypes
<1>4. /\ WorkerOf("REVIEW_TASK") = "WORKFLOW_RUNS"
      /\ WorkerOf("NOTIFICATION") = "LEADS" /\ WorkerOf("BACKLOG") = "LEADS"
      /\ {"REVIEW_TASK", "NOTIFICATION", "BACKLOG"} = Job
  BY DEF WorkerOf, Job
<1> QED
  BY <1>1, <1>2, <1>3, <1>4 DEF ShutdownInv, ServiceTypes, AtRest, AfterClose, processVars

LEMMA ShutdownStep ==
  ASSUME ShutdownInv, NEW s \in Signal, Receives(s) \/ Stops(s)
  PROVE  ShutdownInv'
<1> USE DEF ShutdownInv, ServiceTypes, AtRest, AfterClose, Worker, Job, httpVars, workerVars
<1>1. CASE Receives(s)
  BY <1>1 DEF Receives
<1>2. CASE Closed(s)
  BY <1>2 DEF Closed
<1>3. CASE WorkflowRunsStopped(s)
  BY <1>3 DEF WorkflowRunsStopped
<1>4. CASE DrainingEnded(s)
  BY <1>4 DEF DrainingEnded
<1>5. CASE CloseStore(s)
  BY <1>5 DEF CloseStore
<1> QED
  BY <1>1, <1>2, <1>3, <1>4, <1>5 DEF Stops

LEMMA ShutdownInvStep ==
  ASSUME ShutdownInv, [ServiceNext \/ Ended]_svars
  PROVE  ShutdownInv'
<1>1. CASE UNCHANGED svars
  BY <1>1, RequestStep DEF svars, httpVars, workerVars
<1>2. CASE \/ Queue(Tick) \/ Queue(Drain) \/ Queue(\E d \in Reviewable : ReviewsOf(d))
  BY <1>2, RequestStep DEF Queue, httpVars, workerVars
<1>3. ASSUME NEW c \in Connection,
             (\E r \in Routes : HandleRequest(c, r)) \/ Request(c) \/ Disconnect(c)
      PROVE  ShutdownInv'
  BY <1>3, RequestStep DEF HandleRequest, Request, Authenticate, ReadBody, Decide, Answer, Receive,
                           Disconnect, workerVars
<1>4. CASE Exit
  BY <1>4 DEF Exit, ShutdownInv, ServiceTypes, AtRest, httpVars, workerVars
<1> QED
  BY <1>1, <1>2, <1>3, <1>4, ConnectStep, JobStep, ShutdownStep DEF ServiceNext, Ended

(* The pool is ended under no open connection and no job (StoreClosedLast: *)
(* server.ts's shutdown against the two workers' stop()).                  *)
THEOREM StoreClosedLastAlways == ServiceSpec => []StoreClosedLast
<1>1. ServiceInit => ShutdownInv
  BY DEF ServiceInit, ShutdownInv, ServiceTypes, AtRest, AfterClose
<1>2. ShutdownInv /\ [ServiceNext \/ Ended]_svars => ShutdownInv'
  BY ShutdownInvStep
<1>3. ShutdownInv => StoreClosedLast
  BY DEF ShutdownInv, AtRest, AfterClose, StoreClosedLast, Job
<1> QED
  BY <1>1, <1>2, <1>3, PTL DEF ServiceSpec

----------------------------------------------------------------------------
(* The replay guard.  A delivery's entry outlasts its time to live, through *)
(* every request that removes what has expired or releases a reservation.   *)

GuardInv ==
  /\ clock \in Nat \ {0}
  /\ expiresAt \in [DeliveryId -> Nat]
  /\ accepted \in [DeliveryId -> Nat] /\ acceptedAt \in [DeliveryId -> Nat]
  /\ \A d \in DeliveryId :
       accepted[d] > 0 => expiresAt[d] = acceptedAt[d] + Ttl \/ clock >= acceptedAt[d] + Ttl

(* Only an entry that has expired, or none, lets a delivery through. *)
LEMMA UnknownHasExpired ==
  ASSUME GuardInv, NEW d \in DeliveryId, ~Known(d), accepted[d] > 0
  PROVE  clock >= acceptedAt[d] + Ttl
<1>1. expiresAt[d] <= clock
  BY DEF GuardInv, Known, WithoutExpired
<1> QED
  BY <1>1, WebhookAssumption DEF GuardInv

LEMMA GuardAnswers ==
  ASSUME GuardInv, NEW d \in DeliveryId, RefuseAtGuard(d) \/ RefuseAtQueue(d) \/ Accept(d)
  PROVE  GuardInv'
<1> USE WebhookAssumption DEF GuardInv
<1>1. /\ WithoutExpired \in [DeliveryId -> Nat]
      /\ \A e \in DeliveryId : WithoutExpired[e] = expiresAt[e] \/ expiresAt[e] <= clock
  BY DEF WithoutExpired
<1>2. CASE RefuseAtGuard(d)
  BY <1>1, <1>2 DEF RefuseAtGuard
<1>3. CASE RefuseAtQueue(d)
  <2>1. /\ ~Known(d) /\ UNCHANGED <<clock, accepted, acceptedAt>>
        /\ expiresAt' = [WithoutExpired EXCEPT ![d] = 0]
    BY <1>3 DEF RefuseAtQueue, Released
  <2> QED
    BY <1>1, <2>1, UnknownHasExpired
<1>4. CASE Accept(d)
  <2>1. /\ UNCHANGED clock
        /\ expiresAt' = [WithoutExpired EXCEPT ![d] = clock + Ttl]
        /\ accepted' = [accepted EXCEPT ![d] = @ + 1]
        /\ acceptedAt' = [acceptedAt EXCEPT ![d] = clock]
    BY <1>4 DEF Accept, Reserved
  <2> QED
    BY <1>1, <2>1
<1> QED
  BY <1>2, <1>3, <1>4

(* Every step of the service moves the clock, answers a delivery, or does  *)
(* neither.                                                                *)
LEMMA GuardSteps ==
  ASSUME [ServiceNext \/ Ended]_svars
  PROVE  \/ \E d \in DeliveryId : RefuseAtGuard(d) \/ RefuseAtQueue(d) \/ Accept(d)
         \/ Tick
         \/ UNCHANGED <<clock, expiresAt, accepted, acceptedAt>>
<1>1. CASE UNCHANGED svars
  BY <1>1 DEF svars, vars
<1>2. CASE Queue(Tick) \/ Queue(Drain) \/ Queue(\E d \in Reviewable : ReviewsOf(d))
  BY <1>2 DEF Queue, Drain, ReviewsOf, Settle
<1>3. ASSUME NEW c \in Connection,
             Connect(c) \/ (\E r \in Routes : HandleRequest(c, r)) \/ Request(c) \/ Disconnect(c)
      PROVE  \/ \E d \in DeliveryId : RefuseAtGuard(d) \/ RefuseAtQueue(d) \/ Accept(d)
             \/ UNCHANGED <<clock, expiresAt, accepted, acceptedAt>>
  BY <1>3 DEF Connect, HandleRequest, Request, Authenticate, ReadBody, Decide, Answer, Receive,
              Disconnect, vars
<1>4. ASSUME NEW j \in Job, Poll(j) \/ JobEnds(j)
      PROVE  UNCHANGED <<clock, expiresAt, accepted, acceptedAt>>
  BY <1>4 DEF Poll, JobEnds, vars
<1>5. ASSUME NEW s \in Signal, Receives(s) \/ Stops(s)
      PROVE  UNCHANGED <<clock, expiresAt, accepted, acceptedAt>>
  BY <1>5 DEF Receives, Stops, Closed, WorkflowRunsStopped, DrainingEnded, CloseStore, vars
<1>6. CASE Exit
  BY <1>6 DEF Exit, vars
<1> QED
  BY <1>1, <1>2, <1>3, <1>4, <1>5, <1>6 DEF ServiceNext, Ended

(* A delivery is accepted again only when its time to live has passed      *)
(* (AcceptedOncePerTtl), for every time to live, capacity and number of    *)
(* concurrent requests.                                                    *)
THEOREM AcceptedOncePerTtlAlways == ServiceSpec => AcceptedOncePerTtl
<1> DEFINE Again == \A d \in DeliveryId :
      accepted'[d] > accepted[d] /\ accepted[d] > 0 => clock >= acceptedAt[d] + Ttl
<1>1. ServiceInit => GuardInv
  BY DEF ServiceInit, Init, GuardInv
<1>2. GuardInv /\ [ServiceNext \/ Ended]_svars => GuardInv'
  <2>1. ASSUME GuardInv, Tick PROVE GuardInv'
    BY <2>1, WebhookAssumption DEF GuardInv, Tick
  <2>2. ASSUME GuardInv, UNCHANGED <<clock, expiresAt, accepted, acceptedAt>> PROVE GuardInv'
    BY <2>2 DEF GuardInv
  <2> QED
    BY <2>1, <2>2, GuardSteps, GuardAnswers
<1>3. GuardInv /\ [ServiceNext \/ Ended]_svars => [Again]_vars
  <2> SUFFICES ASSUME GuardInv, [ServiceNext \/ Ended]_svars, NEW d \in DeliveryId,
                      accepted'[d] > accepted[d], accepted[d] > 0
               PROVE  clock >= acceptedAt[d] + Ttl
    BY DEF Again
  <2>1. Accept(d)
    <3>1. PICK e \in DeliveryId : RefuseAtGuard(e) \/ RefuseAtQueue(e) \/ Accept(e)
      BY GuardSteps DEF GuardInv, Tick
    <3>2. Accept(e) /\ e = d
      BY <3>1 DEF GuardInv, RefuseAtGuard, RefuseAtQueue, Accept
    <3> QED
      BY <3>2
  <2> QED
    BY <2>1, UnknownHasExpired DEF Accept
<1> QED
  BY <1>1, <1>2, <1>3, PTL DEF ServiceSpec, AcceptedOncePerTtl

=============================================================================
