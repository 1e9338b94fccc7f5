--------------------------- MODULE InMemoryWebhook ---------------------------
(***************************************************************************)
(* The webhook path of a service without a database: receive guards a      *)
(* delivery by InMemoryGitHubWebhookReplayGuard and puts its task on       *)
(* InMemoryGitHubWorkflowRunQueue.  Everything runs on one event loop, so  *)
(* an action is one callback: a request, the drain that setImmediate runs, *)
(* or the end of a task's review.  A task is told by its delivery and by   *)
(* which acceptance of that delivery it comes from.  Service puts these    *)
(* actions behind requests and says when they happen.                      *)
(***************************************************************************)
EXTENDS Integers, Sequences, FiniteSets

CONSTANTS
  DeliveryId,
  Reviewable,      \* deliveries of completed runs with one pull request
  Ttl,             \* GITHUB_WEBHOOK_REPLAY_TTL_MS, in ticks of the clock
  ReplayCapacity,  \* GITHUB_WEBHOOK_REPLAY_CAPACITY
  QueueCapacity,   \* GITHUB_AUTOMATION_QUEUE_CAPACITY
  Concurrency,     \* GITHUB_AUTOMATION_CONCURRENCY
  MaxTime          \* bound on the clock, for model checking

ASSUME WebhookAssumption ==
  /\ Reviewable \subseteq DeliveryId
  /\ Ttl \in Nat \ {0} /\ ReplayCapacity \in Nat \ {0}
  /\ QueueCapacity \in Nat \ {0} /\ Concurrency \in Nat \ {0}
  /\ MaxTime \in Nat

VARIABLES
  clock,
  expiresAt,      \* deliveries: the guard's map; 0 for no entry
  pending, active, scheduled,   \* the queue
  running,        \* tasks under review
  accepted,       \* how often a delivery was answered with a receipt ...
  acceptedAt,     \* ... and when it was last
  settled         \* tasks whose review has ended, well or not

vars == <<clock, expiresAt, pending, active, scheduled, running, accepted, acceptedAt, settled>>

Task == Reviewable \X (Nat \ {0})

TypeOK ==
  /\ clock \in 1 .. MaxTime + 1
  /\ expiresAt \in [DeliveryId -> Nat]
  /\ pending \in Seq(Task)
  /\ active \in 0 .. Concurrency
  /\ scheduled \in BOOLEAN
  /\ running \subseteq Task
  /\ accepted \in [DeliveryId -> Nat]
  /\ acceptedAt \in [DeliveryId -> Nat]
  /\ settled \subseteq Task

Init ==
  /\ clock = 1
  /\ expiresAt = [d \in DeliveryId |-> 0]
  /\ pending = <<>> /\ active = 0 /\ scheduled = FALSE
  /\ running = {}
  /\ accepted = [d \in DeliveryId |-> 0]
  /\ acceptedAt = [d \in DeliveryId |-> 0]
  /\ settled = {}

Tick ==
  /\ clock <= MaxTime
  /\ clock' = clock + 1
  /\ UNCHANGED <<expiresAt, pending, active, scheduled, running, accepted, acceptedAt, settled>>

----------------------------------------------------------------------------
(* The replay guard. *)

(* Mutant: an entry expires a tick early. *)
WithoutExpiredEarly == [d \in DeliveryId |-> IF expiresAt[d] > clock + 1 THEN expiresAt[d] ELSE 0]

(* removeExpired *)
WithoutExpired == [d \in DeliveryId |-> IF expiresAt[d] > clock THEN expiresAt[d] ELSE 0]

Known(d) == WithoutExpired[d] > 0

GuardFull == Cardinality({d \in DeliveryId : Known(d)}) >= ReplayCapacity

Reserved(d) == [WithoutExpired EXCEPT ![d] = clock + Ttl]

Released(d) == [WithoutExpired EXCEPT ![d] = 0]

(* receive, for each of its answers.  409, or 503 from the guard: *)
RefuseAtGuard(d) ==
  /\ Known(d) \/ GuardFull
  /\ expiresAt' = WithoutExpired
  /\ UNCHANGED <<clock, pending, active, scheduled, running, accepted, acceptedAt, settled>>

QueueFull == Len(pending) + active >= QueueCapacity

(* 503 from the queue: dispatch throws, and the reservation is released. *)
RefuseAtQueue(d) ==
  /\ ~Known(d) /\ ~GuardFull
  /\ d \in Reviewable /\ QueueFull
  /\ expiresAt' = Released(d)
  /\ UNCHANGED <<clock, pending, active, scheduled, running, accepted, acceptedAt, settled>>

(* A receipt; dispatch queues the task, if there is one, and schedules a   *)
(* drain unless one is scheduled.                                          *)
Accept(d) ==
  /\ ~Known(d) /\ ~GuardFull
  /\ d \in Reviewable => ~QueueFull
  /\ expiresAt' = Reserved(d)
  /\ accepted' = [accepted EXCEPT ![d] = @ + 1]
  /\ acceptedAt' = [acceptedAt EXCEPT ![d] = clock]
  /\ IF d \in Reviewable
     THEN pending' = Append(pending, <<d, accepted[d] + 1>>) /\ scheduled' = TRUE
     ELSE UNCHANGED <<pending, scheduled>>
  /\ UNCHANGED <<clock, active, running, settled>>

----------------------------------------------------------------------------
(* The queue. *)

(* How many tasks drain's loop starts. *)
Startable ==
  IF Len(pending) <= Concurrency - active THEN Len(pending) ELSE Concurrency - active

Drain ==
  /\ scheduled
  /\ scheduled' = FALSE
  /\ running' = running \cup {pending[i] : i \in 1 .. Startable}
  /\ pending' = SubSeq(pending, Startable + 1, Len(pending))
  /\ active' = active + Startable
  /\ UNCHANGED <<clock, expiresAt, accepted, acceptedAt, settled>>

(* Mutant: the end of a task does not schedule a drain. *)
SettleQuietly(t) ==
  /\ t \in running
  /\ running' = running \ {t}
  /\ settled' = settled \cup {t}
  /\ active' = active - 1
  /\ UNCHANGED <<clock, expiresAt, pending, scheduled, accepted, acceptedAt>>

(* process has settled: finally. *)
Settle(t) ==
  /\ t \in running
  /\ running' = running \ {t}
  /\ settled' = settled \cup {t}
  /\ active' = active - 1
  /\ scheduled' = TRUE
  /\ UNCHANGED <<clock, expiresAt, pending, accepted, acceptedAt>>

----------------------------------------------------------------------------
(* Properties. *)

(* "Using X-GitHub-Delivery to identify replays": a delivery is accepted   *)
(* again only when its time to live has passed, whatever was refused, put  *)
(* off or expired in between.                                              *)
AcceptedOncePerTtl ==
  [][\A d \in DeliveryId :
       accepted'[d] > accepted[d] /\ accepted[d] > 0 => clock >= acceptedAt[d] + Ttl]_vars

(* Every accepted task is reviewed: neither the scheduled flag nor a slot  *)
(* is ever lost, whatever ends while a drain is due, and after a signal    *)
(* the process ends only when the queue has run empty.                     *)
AcceptedIsReviewed ==
  \A d \in Reviewable, k \in 1 .. MaxTime + 1 :
    (accepted[d] >= k) ~> (<<d, k>> \in settled)

=============================================================================
