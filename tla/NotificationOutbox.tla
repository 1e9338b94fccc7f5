------------------------- MODULE NotificationOutbox -------------------------
(***************************************************************************)
(* Customer leads and the outbox that mails the operator about them:       *)
(* PostgresCustomerLeadStore writes a notification in the transaction of   *)
(* the lead's change, a CustomerLeadNotificationWorker in each service     *)
(* instance claims due ones under a lease and posts them to the relay.     *)
(*                                                                         *)
(* next_attempt_at <= now, lease_expires_at > now and created_at <=        *)
(* oldBefore are the booleans due, leased and old.  The worker's drain and *)
(* its backlog monitor are in the memory of a service's process.           *)
(*                                                                         *)
(* The relay and the mail provider behind it are external: a request may   *)
(* be lost, refused, accepted with its answer lost, or accepted after the  *)
(* notifier gave up on it.                                                 *)
(***************************************************************************)
EXTENDS Integers, FiniteSets

CONSTANTS
  Lead, Worker, None,
  Requests,            \* statuses that operators ask for
  Monitored,           \* does the backlog monitor run?
  AlertAttempts,       \* attempts that make the backlog unhealthy
  MaxAttempts,         \* bound on attempts, for model checking
  LeaseOutlastsJob,    \* TRUE: no job runs longer than its lease
  KeyOutlastsRetries   \* TRUE: the provider forgets an idempotency key only
                       \* when nobody is going to use it again

Statuses == {"NEW", "QUALIFIED", "PROPOSAL_SENT", "ENGAGED", "CLOSED"}

ASSUME OutboxAssumption ==
  /\ Requests \subseteq Statuses
  /\ Monitored \in BOOLEAN
  /\ AlertAttempts \in Nat \ {0} /\ MaxAttempts \in Nat
  /\ AlertAttempts <= MaxAttempts
  /\ LeaseOutlastsJob \in BOOLEAN
  /\ KeyOutlastsRetries \in BOOLEAN

VARIABLES
  lead,                             \* customer_leads: status
  row, attempts, due, leased, old,  \* customer_lead_notifications
  claimer,                          \* history: who was given its last claim
  service, phase, holds, given,     \* the workers, and the attempts that
                                    \* their claims returned
  onWire, remembered, mails,        \* relay and provider
  monitoring, seen, alertActive     \* the workers' backlog monitors

rowVars      == <<row, attempts, due, leased, old, claimer>>
workerVars   == <<service, phase, holds, given>>
providerVars == <<onWire, remembered, mails>>
monitorVars  == <<monitoring, seen, alertActive>>
vars         == <<lead, rowVars, workerVars, providerVars, monitorVars>>

Event == {"RECEIVED", "QUALIFIED"}

(* createCustomerLeadNotificationId, which is also the idempotency key. *)
Notification == Event \X Lead

ASSUME NoneAssumption == None \notin Notification

TypeOK ==
  /\ lead \in [Lead -> Statuses \cup {"ABSENT"}]
  /\ row \in [Notification -> {"ABSENT", "PENDING", "DELIVERED"}]
  /\ attempts \in [Notification -> 0 .. MaxAttempts]
  /\ due \in [Notification -> BOOLEAN]
  /\ leased \in [Notification -> BOOLEAN]
  /\ old \in [Notification -> BOOLEAN]
  /\ claimer \in [Notification -> Worker \cup {None}]
  /\ service \in [Worker -> {"UP", "STOPPING", "DOWN"}]
  /\ phase \in [Worker -> {"IDLE", "DRAINING", "CLAIMED", "SENT", "FAILED"}]
  /\ holds \in [Worker -> Notification \cup {None}]
  /\ given \in [Worker -> 0 .. MaxAttempts]
  /\ onWire \subseteq Notification
  /\ remembered \subseteq Notification
  /\ mails \in [Notification -> Nat]
  /\ monitoring \in [Worker -> BOOLEAN]
  /\ seen \in [Worker -> BOOLEAN]
  /\ alertActive \in [Worker -> BOOLEAN]
  /\ \A w \in Worker : /\ phase[w] \in {"CLAIMED", "SENT", "FAILED"} <=> holds[w] # None
                       /\ service[w] = "DOWN" => phase[w] = "IDLE"

Init ==
  /\ lead = [l \in Lead |-> "ABSENT"]
  /\ row = [n \in Notification |-> "ABSENT"]
  /\ attempts = [n \in Notification |-> 0]
  /\ due = [n \in Notification |-> FALSE]
  /\ leased = [n \in Notification |-> FALSE]
  /\ old = [n \in Notification |-> FALSE]
  /\ claimer = [n \in Notification |-> None]
  /\ service = [w \in Worker |-> "DOWN"]
  /\ phase = [w \in Worker |-> "IDLE"]
  /\ holds = [w \in Worker |-> None]
  /\ given = [w \in Worker |-> 0]
  /\ onWire = {} /\ remembered = {}
  /\ mails = [n \in Notification |-> 0]
  /\ monitoring = [w \in Worker |-> FALSE]
  /\ seen = [w \in Worker |-> FALSE]
  /\ alertActive = [w \in Worker |-> FALSE]

----------------------------------------------------------------------------
(* The lead store.                                                         *)

(* Mutant: a notification that exists is scheduled again. *)
EnqueueAgain(n) ==
  /\ row' = [row EXCEPT ![n] = "PENDING"]
  /\ due' = [due EXCEPT ![n] = TRUE]
  /\ UNCHANGED <<attempts, leased, old, claimer>>

(* ON CONFLICT (notification_id) DO NOTHING. *)
Enqueue(n) ==
  IF row[n] = "ABSENT"
  THEN /\ row' = [row EXCEPT ![n] = "PENDING"]
       /\ due' = [due EXCEPT ![n] = TRUE]
       /\ UNCHANGED <<attempts, leased, old, claimer>>
  ELSE UNCHANGED rowVars

(* createLead: the first submission of a token, or its replay; the quotas  *)
(* and the payload of a token are LeadIntake's.                            *)
CreateLead(l) ==
  /\ lead' = [lead EXCEPT ![l] = IF @ = "ABSENT" THEN "NEW" ELSE @]
  /\ Enqueue(<<"RECEIVED", l>>)
  /\ UNCHANGED <<workerVars, providerVars, monitorVars>>

AllowedTransitions(status) ==
  CASE status = "NEW" -> {"QUALIFIED", "CLOSED"}
    [] status = "QUALIFIED" -> {"PROPOSAL_SENT", "CLOSED"}
    [] status = "PROPOSAL_SENT" -> {"ENGAGED", "CLOSED"}
    [] status = "ENGAGED" -> {"CLOSED"}
    [] OTHER -> {}

(* transitionLead: a repeated request changes nothing but may enqueue. *)
TransitionLead(l, status) ==
  /\ lead[l] # "ABSENT"
  /\ lead[l] = status \/ status \in AllowedTransitions(lead[l])
  /\ lead' = [lead EXCEPT ![l] = status]
  /\ IF status = "QUALIFIED" THEN Enqueue(<<"QUALIFIED", l>>) ELSE UNCHANGED rowVars
  /\ UNCHANGED <<workerVars, providerVars, monitorVars>>

----------------------------------------------------------------------------
(* Time. *)

HeldBy(w, n) == holds[w] = n /\ given[w] = attempts[n]

LeaseEnds(n) ==
  /\ leased[n]
  /\ LeaseOutlastsJob => ~\E w \in Worker : HeldBy(w, n)
  /\ leased' = [leased EXCEPT ![n] = FALSE]
  /\ UNCHANGED <<lead, row, attempts, due, old, claimer, workerVars, providerVars, monitorVars>>

BackoffEnds(n) ==
  /\ row[n] = "PENDING" /\ ~due[n]
  /\ due' = [due EXCEPT ![n] = TRUE]
  /\ UNCHANGED <<lead, row, attempts, leased, old, claimer, workerVars, providerVars, monitorVars>>

Ages(n) ==
  /\ Monitored
  /\ row[n] = "PENDING" /\ ~old[n]
  /\ old' = [old EXCEPT ![n] = TRUE]
  /\ UNCHANGED <<lead, row, attempts, due, leased, claimer, workerVars, providerVars, monitorVars>>

----------------------------------------------------------------------------
(* The worker: drain calls runOnce until nothing is due, it throws, or the *)
(* service stops.                                                          *)

Become(w, next) ==
  /\ phase' = [phase EXCEPT ![w] = next]
  /\ UNCHANGED <<service, holds, given>>

LetGo(w, next) ==
  /\ phase' = [phase EXCEPT ![w] = next]
  /\ holds' = [holds EXCEPT ![w] = None]
  /\ given' = [given EXCEPT ![w] = 0]
  /\ UNCHANGED service

(* The poll timer, when no drain is running. *)
Poll(w) ==
  /\ service[w] = "UP" /\ phase[w] = "IDLE"
  /\ Become(w, "DRAINING")
  /\ UNCHANGED <<lead, rowVars, providerVars, monitorVars>>

(* Mutant: a lease that ran out is not taken over. *)
ClaimableFresh(n) == row[n] = "PENDING" /\ due[n] /\ ~leased[n] /\ attempts[n] = 0

Claimable(n) == row[n] = "PENDING" /\ due[n] /\ ~leased[n]

GoesOn(w) == service[w] = "UP"

(* Where no stale count is ever compared the bound on attempts holds the   *)
(* counter, elsewhere it ends the claims.                                  *)
Increment(attempt) == IF attempt < MaxAttempts THEN attempt + 1 ELSE attempt

(* claimNotification; when its answer is lost, drain ends with the lease   *)
(* taken.                                                                  *)
Claim(w, n) ==
  /\ phase[w] = "DRAINING" /\ GoesOn(w) /\ Claimable(n)
  /\ LeaseOutlastsJob \/ attempts[n] < MaxAttempts
  /\ attempts' = [attempts EXCEPT ![n] = Increment(@)]
  /\ leased' = [leased EXCEPT ![n] = TRUE]
  /\ \/ /\ claimer' = [claimer EXCEPT ![n] = w]
        /\ phase' = [phase EXCEPT ![w] = "CLAIMED"]
        /\ holds' = [holds EXCEPT ![w] = n]
        /\ given' = [given EXCEPT ![w] = Increment(attempts[n])]
        /\ UNCHANGED service
     \/ claimer' = [claimer EXCEPT ![n] = None] /\ Become(w, "IDLE")
  /\ UNCHANGED <<lead, row, due, old, providerVars, monitorVars>>

DrainEnds(w) ==
  /\ phase[w] = "DRAINING"
  /\ ~GoesOn(w) \/ ~\E n \in Notification : Claimable(n)
  /\ Become(w, "IDLE")
  /\ UNCHANGED <<lead, rowVars, providerVars, monitorVars>>

(* The provider sends one mail per idempotency key that it remembers. *)
Accept(n) ==
  /\ remembered' = remembered \cup {n}
  /\ mails' = [mails EXCEPT ![n] = IF n \in remembered THEN @ ELSE @ + 1]

Notified(w) ==
  /\ phase[w] = "CLAIMED"
  /\ Accept(holds[w])
  /\ Become(w, "SENT")
  /\ UNCHANGED <<lead, rowVars, onWire, monitorVars>>

(* Refused or lost, or accepted later though the notifier gave it up. *)
NotifyFails(w) ==
  /\ phase[w] = "CLAIMED"
  /\ \/ UNCHANGED providerVars
     \/ onWire' = onWire \cup {holds[w]} /\ UNCHANGED <<remembered, mails>>
  /\ Become(w, "FAILED")
  /\ UNCHANGED <<lead, rowVars, monitorVars>>

(* Mutant: the reports are not fenced by the claim's attempts. *)
FencedNever(w, n) == row[n] = "PENDING"

(* WHERE delivered_at IS NULL AND attempts = claimAttempt. *)
Fenced(w, n) == row[n] = "PENDING" /\ attempts[n] = given[w]

Delivered(w) ==
  LET n == holds[w] IN
  IF Fenced(w, n)
  THEN /\ row' = [row EXCEPT ![n] = "DELIVERED"]
       /\ leased' = [leased EXCEPT ![n] = FALSE]
       /\ UNCHANGED <<attempts, due, old, claimer>>
  ELSE UNCHANGED rowVars

Complete(w) ==
  /\ phase[w] = "SENT"
  /\ Delivered(w)
  /\ LetGo(w, "DRAINING")
  /\ UNCHANGED <<lead, providerVars, monitorVars>>

(* completeNotification throws: done without an answer, or not done. *)
CompleteFails(w) ==
  /\ phase[w] = "SENT"
  /\ Delivered(w) \/ UNCHANGED rowVars
  /\ Become(w, "FAILED")
  /\ UNCHANGED <<lead, providerVars, monitorVars>>

(* The catch block; when it throws too, drain ends. *)
Retry(w) ==
  /\ phase[w] = "FAILED"
  /\ LET n == holds[w] IN
     IF Fenced(w, n)
     THEN /\ due' = [due EXCEPT ![n] = FALSE]
          /\ leased' = [leased EXCEPT ![n] = FALSE]
          /\ UNCHANGED <<row, attempts, old, claimer>>
     ELSE UNCHANGED rowVars
  /\ \E next \in {"DRAINING", "IDLE"} : LetGo(w, next)
  /\ UNCHANGED <<lead, providerVars, monitorVars>>

RetryFails(w) ==
  /\ phase[w] = "FAILED"
  /\ LetGo(w, "IDLE")
  /\ UNCHANGED <<lead, rowVars, providerVars, monitorVars>>

(* stop clears both timers and waits for the drain and the reading of the  *)
(* backlog that are under way; then the process ends.                      *)
Stop(w) ==
  /\ service[w] = "UP"
  /\ service' = [service EXCEPT ![w] = "STOPPING"]
  /\ UNCHANGED <<lead, rowVars, phase, holds, given, providerVars, monitorVars>>

(* What the monitor knows is gone with its process. *)
MonitorGone(w) ==
  /\ monitoring' = [monitoring EXCEPT ![w] = FALSE]
  /\ seen' = [seen EXCEPT ![w] = FALSE]
  /\ alertActive' = [alertActive EXCEPT ![w] = FALSE]

Stopped(w) ==
  /\ service[w] = "STOPPING" /\ phase[w] = "IDLE" /\ ~monitoring[w]
  /\ service' = [service EXCEPT ![w] = "DOWN"]
  /\ MonitorGone(w)
  /\ UNCHANGED <<lead, rowVars, phase, holds, given, providerVars>>

(* The process dies, perhaps with its request on the wire. *)
Crash(w) ==
  /\ service[w] # "DOWN"
  /\ service' = [service EXCEPT ![w] = "DOWN"]
  /\ phase' = [phase EXCEPT ![w] = "IDLE"]
  /\ holds' = [holds EXCEPT ![w] = None]
  /\ given' = [given EXCEPT ![w] = 0]
  /\ MonitorGone(w)
  /\ \/ UNCHANGED onWire
     \/ phase[w] = "CLAIMED" /\ onWire' = onWire \cup {holds[w]}
  /\ UNCHANGED <<lead, rowVars, remembered, mails>>

----------------------------------------------------------------------------
(* monitorOnce: the backlog is read, then judged. *)

(* Mutant: a notification that is being sent does not count. *)
UnhealthyUnclaimed ==
  \E n \in Notification :
    row[n] = "PENDING" /\ ~leased[n] /\ (old[n] \/ attempts[n] >= AlertAttempts)

Unhealthy ==
  \E n \in Notification : row[n] = "PENDING" /\ (old[n] \/ attempts[n] >= AlertAttempts)

Read(w) ==
  /\ monitoring' = [monitoring EXCEPT ![w] = TRUE]
  /\ seen' = [seen EXCEPT ![w] = Unhealthy]
  /\ UNCHANGED alertActive

(* The monitor's timer; a reading that is under way is not repeated. *)
MonitorReads(w) ==
  /\ Monitored /\ service[w] = "UP" /\ ~monitoring[w]
  /\ Read(w)
  /\ UNCHANGED <<lead, rowVars, workerVars, providerVars>>

MonitorJudges(w) ==
  /\ monitoring[w]
  /\ monitoring' = [monitoring EXCEPT ![w] = FALSE]
  /\ alertActive' = [alertActive EXCEPT ![w] = seen[w]]
  /\ seen' = [seen EXCEPT ![w] = FALSE]
  /\ UNCHANGED <<lead, rowVars, workerVars, providerVars>>

(* notificationBacklog throws: the alert stays as it was. *)
MonitorFails(w) ==
  /\ monitoring[w]
  /\ monitoring' = [monitoring EXCEPT ![w] = FALSE]
  /\ seen' = [seen EXCEPT ![w] = FALSE]
  /\ UNCHANGED <<lead, rowVars, workerVars, providerVars, alertActive>>

(* start drains and reads the backlog at once. *)
Start(w) ==
  /\ service[w] = "DOWN"
  /\ service' = [service EXCEPT ![w] = "UP"]
  /\ phase' = [phase EXCEPT ![w] = "DRAINING"]
  /\ IF Monitored THEN Read(w) ELSE UNCHANGED monitorVars
  /\ UNCHANGED <<lead, rowVars, holds, given, providerVars>>

----------------------------------------------------------------------------
(* The provider. *)

AcceptLate(n) ==
  /\ n \in onWire
  /\ onWire' = onWire \ {n}
  /\ Accept(n)
  /\ UNCHANGED <<lead, rowVars, workerVars, monitorVars>>

Forget(n) ==
  /\ n \in remembered
  /\ KeyOutlastsRetries =>
       row[n] = "DELIVERED" /\ n \notin onWire /\ \A w \in Worker : holds[w] # n
  /\ remembered' = remembered \ {n}
  /\ UNCHANGED <<lead, rowVars, workerVars, onWire, mails, monitorVars>>

----------------------------------------------------------------------------

Next ==
  \/ \E l \in Lead : CreateLead(l) \/ \E status \in Requests : TransitionLead(l, status)
  \/ \E n \in Notification : \/ LeaseEnds(n) \/ BackoffEnds(n) \/ Ages(n)
                             \/ AcceptLate(n) \/ Forget(n)
  \/ \E w \in Worker : \/ Poll(w) \/ DrainEnds(w)
                       \/ \E n \in Notification : Claim(w, n)
                       \/ Notified(w) \/ NotifyFails(w)
                       \/ Complete(w) \/ CompleteFails(w) \/ Retry(w) \/ RetryFails(w)
                       \/ Stop(w) \/ Stopped(w) \/ Crash(w) \/ Start(w)
                       \/ MonitorReads(w) \/ MonitorJudges(w) \/ MonitorFails(w)

(* Time passes, awaits settle (the notifier's abort timer), poll and       *)
(* monitor timers fire, a service that is down is started again.           *)
Progress ==
  /\ \A n \in Notification : WF_vars(LeaseEnds(n)) /\ WF_vars(BackoffEnds(n)) /\ WF_vars(Ages(n))
  /\ \A w \in Worker :
       /\ WF_vars(Poll(w)) /\ WF_vars(Stopped(w)) /\ WF_vars(Start(w))
       /\ WF_vars(DrainEnds(w) \/ \E n \in Notification : Claim(w, n))
       /\ WF_vars(Notified(w) \/ NotifyFails(w))
       /\ WF_vars(Complete(w) \/ CompleteFails(w))
       /\ WF_vars(Retry(w) \/ RetryFails(w))
       /\ WF_vars(MonitorReads(w)) /\ WF_vars(MonitorJudges(w) \/ MonitorFails(w))

Spec == Init /\ [][Next]_vars /\ Progress

(* No failure is for ever: of infinitely many claims, requests and reports *)
(* of a notification one succeeds.  The claims are ordered by              *)
(* next_attempt_at, so none is passed over for ever.                       *)
Recovery(n) ==
  \A w \in Worker :
    /\ SF_vars(Claim(w, n) /\ holds'[w] = n)
    /\ SF_vars(holds[w] = n /\ Notified(w))
    /\ SF_vars(holds[w] = n /\ Complete(w))

(* From some time on a service stays up and can read the backlog. *)
Watched ==
  \E w \in Worker : <>[](service[w] = "UP") /\ SF_vars(MonitorJudges(w))

----------------------------------------------------------------------------
(* Properties.                                                             *)

(* "Recovery after a timeout or process restart cannot intentionally       *)
(* duplicate an email": each event of a lead is mailed at most once, with  *)
(* stale workers, repeated requests of operators and customers, and late   *)
(* deliveries, as long as the provider remembers the key.                  *)
OneMail == \A n \in Notification : mails[n] <= 1

(* A notification on record as delivered was mailed. *)
DeliveredWasMailed == \A n \in Notification : row[n] = "DELIVERED" => mails[n] > 0

(* A notification is settled or put off only in the report of the worker   *)
(* that was given its last claim, however late the others report: neither  *)
(* the lease nor the worker is compared, only the attempts it was given.   *)
ReportsAreFenced ==
  [][\A n \in Notification :
       row[n] = "PENDING" /\ (row'[n] = "DELIVERED" \/ (due[n] /\ ~due'[n]))
         => \E w \in Worker : claimer[n] = w /\ holds[w] = n /\ phase'[w] # phase[w]]_vars

(* What is on record gets delivered, though workers crash and stop, the    *)
(* relay fails and answers are lost, if no failure of its own is for ever: *)
(* those of another notification do not hold it up.                        *)
EveryEventIsDelivered ==
  \A n \in Notification : Recovery(n) => (row[n] = "PENDING") ~> (row[n] = "DELIVERED")

(* A notification that nobody manages to deliver raises an alert, if a     *)
(* service stays up to raise it; "in-process notification worker and       *)
(* backlog monitor" sleep together, and are not watched from outside.      *)
StuckRaisesAlert ==
  Watched =>
    \A n \in Notification :
      (row[n] = "PENDING") ~> (row[n] = "DELIVERED" \/ \E w \in Worker : alertActive[w])

=============================================================================
