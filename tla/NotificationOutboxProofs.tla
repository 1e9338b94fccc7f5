---------------------- MODULE NotificationOutboxProofs ----------------------
(***************************************************************************)
(* The mails of NotificationOutbox, for any leads and workers: what is on  *)
(* record as delivered was mailed, and nothing is mailed twice as long as  *)
(* the provider remembers the key of whatever may still be sent; and the   *)
(* count of attempts lets only the last claim of a notification report.    *)
(***************************************************************************)
EXTENDS NotificationOutbox, TLAPS

Busy(w) == phase[w] \in {"CLAIMED", "SENT", "FAILED"}

(* A worker that was told of success holds a mailed notification. *)
SentWasMailed == \A w \in Worker : phase[w] = "SENT" => mails[holds[w]] > 0

(* The provider remembers only what it sent. *)
RememberedWasMailed == \A n \in remembered : mails[n] > 0

(* Nobody is going to send n again. *)
Over(n) == row[n] = "DELIVERED" /\ n \notin onWire /\ \A w \in Worker : holds[w] # n

(* A key the provider does not know was never used or is never used again. *)
ForgottenIsOver ==
  KeyOutlastsRetries =>
    \A n \in Notification \ remembered : mails[n] = 0 \/ Over(n)

IInv ==
  /\ TypeOK
  /\ SentWasMailed
  /\ RememberedWasMailed
  /\ DeliveredWasMailed
  /\ ForgottenIsOver
  /\ KeyOutlastsRetries => OneMail

LEMMA InitIInv == Init => IInv
<1> SUFFICES ASSUME Init PROVE IInv
  OBVIOUS
<1>1. TypeOK
  <2>1. /\ attempts \in [Notification -> 0 .. MaxAttempts]
        /\ given \in [Worker -> 0 .. MaxAttempts]
    BY OutboxAssumption DEF OutboxAssumption, Init
  <2>2. row \in [Notification -> {"ABSENT", "PENDING", "DELIVERED"}]
    BY DEF Init
  <2>3. \A w \in Worker : phase[w] = "IDLE" /\ holds[w] = None
    BY DEF Init
  <2>4. mails \in [Notification -> Nat]
    BY DEF Init
  <2>5. lead \in [Lead -> Statuses \cup {"ABSENT"}]
    BY DEF Init
  <2>6. QED
    BY <2>1, <2>2, <2>3, <2>4, <2>5 DEF Init, TypeOK
<1>2. SentWasMailed /\ RememberedWasMailed
  BY DEF Init, SentWasMailed, RememberedWasMailed
<1>3. DeliveredWasMailed /\ ForgottenIsOver /\ OneMail
  BY DEF Init, DeliveredWasMailed, ForgottenIsOver, OneMail
<1>4. QED
  BY <1>1, <1>2, <1>3 DEF IInv

----------------------------------------------------------------------------
(* What acceptance does to the mails: it sends one for an unknown key only. *)
LEMMA AcceptMails ==
  ASSUME IInv, NEW n \in Notification, Accept(n)
  PROVE  /\ mails' \in [Notification -> Nat]
         /\ remembered' = remembered \cup {n}
         /\ remembered' \subseteq Notification
         /\ mails'[n] > 0
         /\ \A m \in Notification : mails'[m] >= mails[m]
         /\ \A m \in Notification \ {n} : mails'[m] = mails[m]
         /\ n \in remembered => mails'[n] = mails[n]
         /\ n \notin remembered => mails'[n] = mails[n] + 1
  BY DEF IInv, TypeOK, RememberedWasMailed, Accept

(* A step that leaves the provider alone keeps the invariant when it makes *)
(* no new claim to have mailed and lets nobody take up what is over.       *)
LEMMA QuietStep ==
  ASSUME IInv, TypeOK', UNCHANGED <<remembered, mails>>,
         \A w \in Worker : phase'[w] = "SENT" => phase[w] = "SENT" /\ holds'[w] = holds[w],
         \A n \in Notification : row'[n] = "DELIVERED" =>
              row[n] = "DELIVERED" \/ \E w \in Worker : phase[w] = "SENT" /\ holds[w] = n,
         \A n \in Notification : Over(n) => Over(n)'
  PROVE  IInv'
<1>1. SentWasMailed'
  BY DEF IInv, SentWasMailed
<1>2. DeliveredWasMailed'
  BY DEF IInv, SentWasMailed, DeliveredWasMailed
<1>3. ForgottenIsOver'
  BY DEF IInv, ForgottenIsOver
<1>4. QED
  BY <1>1, <1>2, <1>3 DEF IInv, RememberedWasMailed, OneMail

(* One that sends a mail is the answer to the notifier, or comes late.     *)
LEMMA AcceptStep ==
  ASSUME IInv, TypeOK', NEW n \in Notification, Accept(n), ~Over(n), UNCHANGED row,
         onWire' \subseteq onWire,
         \A w \in Worker : holds'[w] = holds[w],
         \A w \in Worker : phase'[w] = "SENT" => phase[w] = "SENT" \/ holds[w] = n
  PROVE  IInv'
<1>0. \A w \in Worker : phase[w] = "SENT" => holds[w] \in Notification
  BY DEF IInv, TypeOK
<1>1. SentWasMailed'
  BY <1>0, AcceptMails DEF IInv, TypeOK, SentWasMailed
<1>2. RememberedWasMailed'
  BY AcceptMails DEF IInv, TypeOK, RememberedWasMailed
<1>3. DeliveredWasMailed'
  BY AcceptMails DEF IInv, TypeOK, DeliveredWasMailed
<1>4. ForgottenIsOver'
  BY AcceptMails DEF IInv, TypeOK, ForgottenIsOver, Over
<1>5. KeyOutlastsRetries => OneMail'
  BY AcceptMails DEF IInv, TypeOK, ForgottenIsOver, OneMail
<1>6. QED
  BY <1>1, <1>2, <1>3, <1>4, <1>5 DEF IInv

----------------------------------------------------------------------------
(* The types of each part of the state, one lemma per part of Next.        *)
WorkerTypes ==
  /\ service \in [Worker -> {"UP", "STOPPING", "DOWN"}]
  /\ phase \in [Worker -> {"IDLE", "DRAINING", "CLAIMED", "SENT", "FAILED"}]
  /\ holds \in [Worker -> Notification \cup {None}]
  /\ given \in [Worker -> 0 .. MaxAttempts]
  /\ \A v \in Worker : phase[v] \in {"CLAIMED", "SENT", "FAILED"} <=> holds[v] # None
  /\ \A v \in Worker : service[v] = "DOWN" => phase[v] = "IDLE"

RestTypes ==
  /\ lead \in [Lead -> Statuses \cup {"ABSENT"}]
  /\ row \in [Notification -> {"ABSENT", "PENDING", "DELIVERED"}]
  /\ attempts \in [Notification -> 0 .. MaxAttempts]
  /\ due \in [Notification -> BOOLEAN]
  /\ leased \in [Notification -> BOOLEAN]
  /\ old \in [Notification -> BOOLEAN]
  /\ claimer \in [Notification -> Worker \cup {None}]
  /\ onWire \subseteq Notification
  /\ remembered \subseteq Notification
  /\ mails \in [Notification -> Nat]
  /\ monitoring \in [Worker -> BOOLEAN]
  /\ seen \in [Worker -> BOOLEAN]
  /\ alertActive \in [Worker -> BOOLEAN]

LEMMA TypeParts == TypeOK <=> WorkerTypes /\ RestTypes
  BY DEF TypeOK, WorkerTypes, RestTypes

LEMMA TypePartsNext == TypeOK' <=> WorkerTypes' /\ RestTypes'
  BY DEF TypeOK, WorkerTypes, RestTypes

LEMMA LeadTypes ==
  ASSUME TypeOK, NEW l \in Lead,
         CreateLead(l) \/ \E status \in Requests : TransitionLead(l, status)
  PROVE  TypeOK'
<1>1. \A e \in Event : <<e, l>> \in Notification
  BY DEF Notification
<1>2. lead' \in [Lead -> Statuses \cup {"ABSENT"}]
  BY OutboxAssumption DEF OutboxAssumption, TypeOK, CreateLead, TransitionLead, Statuses
<1>3. UNCHANGED rowVars \/ \E e \in Event : Enqueue(<<e, l>>)
  BY DEF CreateLead, TransitionLead, Event
<1>4. /\ row' \in [Notification -> {"ABSENT", "PENDING", "DELIVERED"}]
      /\ due' \in [Notification -> BOOLEAN]
      /\ UNCHANGED <<attempts, leased, old, claimer>>
  <2>1. /\ row \in [Notification -> {"ABSENT", "PENDING", "DELIVERED"}]
        /\ due \in [Notification -> BOOLEAN]
    BY DEF TypeOK
  <2>2. CASE UNCHANGED rowVars
    BY <2>1, <2>2 DEF rowVars
  <2>3. ASSUME NEW e \in Event, Enqueue(<<e, l>>), ~UNCHANGED rowVars
        PROVE  /\ row' = [row EXCEPT ![<<e, l>>] = "PENDING"]
               /\ due' = [due EXCEPT ![<<e, l>>] = TRUE]
               /\ UNCHANGED <<attempts, leased, old, claimer>>
    BY <2>3, Zenon DEF Enqueue
  <2>4. QED
    BY <1>1, <1>3, <2>1, <2>2, <2>3
<1>5. UNCHANGED <<workerVars, providerVars, monitorVars>>
  BY DEF CreateLead, TransitionLead
<1>6. WorkerTypes'
  BY <1>5, TypeParts DEF WorkerTypes, workerVars
<1>7. RestTypes'
  BY <1>2, <1>4, <1>5, TypeParts DEF RestTypes, providerVars, monitorVars
<1>8. QED
  BY <1>6, <1>7, TypePartsNext

LEMMA TimeTypes ==
  ASSUME TypeOK, NEW n \in Notification,
         LeaseEnds(n) \/ BackoffEnds(n) \/ Ages(n) \/ AcceptLate(n) \/ Forget(n)
  PROVE  TypeOK'
<1>1. CASE LeaseEnds(n) \/ BackoffEnds(n) \/ Ages(n)
  <2>1. UNCHANGED <<lead, row, attempts, claimer, workerVars, providerVars, monitorVars>>
    BY <1>1 DEF LeaseEnds, BackoffEnds, Ages
  <2>2. /\ leased' \in [Notification -> BOOLEAN] /\ due' \in [Notification -> BOOLEAN]
        /\ old' \in [Notification -> BOOLEAN]
    <3>1. CASE LeaseEnds(n)
      BY <3>1 DEF TypeOK, LeaseEnds
    <3>2. CASE BackoffEnds(n)
      BY <3>2 DEF TypeOK, BackoffEnds
    <3>3. CASE Ages(n)
      BY <3>3 DEF TypeOK, Ages
    <3>4. QED
      BY <1>1, <3>1, <3>2, <3>3
  <2>3. WorkerTypes'
    BY <2>1, TypeParts DEF WorkerTypes, workerVars
  <2>4. RestTypes'
    BY <2>1, <2>2, TypeParts DEF RestTypes, providerVars, monitorVars
  <2>5. QED
    BY <2>3, <2>4, TypePartsNext
<1>2. CASE AcceptLate(n) \/ Forget(n)
  <2>1. onWire' \subseteq Notification /\ remembered' \subseteq Notification
        /\ mails' \in [Notification -> Nat]
    BY <1>2 DEF TypeOK, AcceptLate, Accept, Forget
  <2>2. UNCHANGED <<lead, rowVars, workerVars, monitorVars>>
    BY <1>2 DEF AcceptLate, Forget
  <2>3. QED
    BY <2>1, <2>2 DEF TypeOK, rowVars, workerVars, monitorVars
<1>3. QED
  BY <1>1, <1>2

(* A worker moves from one phase to another, and holds what it held or     *)
(* lets go of it.                                                          *)
LEMMA BecomeTypes ==
  ASSUME TypeOK, NEW w \in Worker, NEW next \in {"IDLE", "DRAINING", "CLAIMED", "SENT", "FAILED"},
         \/ Become(w, next) /\ (next \in {"CLAIMED", "SENT", "FAILED"} <=> Busy(w))
         \/ LetGo(w, next) /\ next \in {"IDLE", "DRAINING"},
         next = "IDLE" \/ phase[w] # "IDLE" \/ service[w] = "UP"
  PROVE  WorkerTypes'
<1>1. /\ phase' \in [Worker -> {"IDLE", "DRAINING", "CLAIMED", "SENT", "FAILED"}]
      /\ holds' \in [Worker -> Notification \cup {None}]
      /\ given' \in [Worker -> 0 .. MaxAttempts]
      /\ service' = service
  BY OutboxAssumption DEF OutboxAssumption, TypeOK, Become, LetGo
<1>2. \A v \in Worker \ {w} : phase'[v] = phase[v] /\ holds'[v] = holds[v]
  BY DEF TypeOK, Become, LetGo
<1>3. phase'[w] = next
  BY DEF TypeOK, Become, LetGo
<1>4. next \in {"CLAIMED", "SENT", "FAILED"} <=> holds'[w] # None
  BY DEF TypeOK, Become, LetGo, Busy
<1>5. \A v \in Worker : phase'[v] \in {"CLAIMED", "SENT", "FAILED"} <=> holds'[v] # None
  BY <1>2, <1>3, <1>4 DEF TypeOK
<1>6. \A v \in Worker : service'[v] = "DOWN" => phase'[v] = "IDLE"
  BY <1>1, <1>2, <1>3 DEF TypeOK
<1>7. QED
  BY <1>1, <1>5, <1>6 DEF TypeOK, WorkerTypes

LEMMA DrainTypes ==
  ASSUME TypeOK, NEW w \in Worker,
         Poll(w) \/ DrainEnds(w) \/ Notified(w) \/ NotifyFails(w) \/ RetryFails(w)
  PROVE  TypeOK'
<1>1. CASE Poll(w) \/ DrainEnds(w) \/ RetryFails(w)
  <2>1. WorkerTypes'
    <3>1. CASE Poll(w)
      BY <3>1, BecomeTypes DEF Poll, Busy
    <3>2. CASE DrainEnds(w)
      BY <3>2, BecomeTypes DEF DrainEnds, Busy
    <3>3. CASE RetryFails(w)
      BY <3>3, BecomeTypes DEF RetryFails
    <3>4. QED
      BY <1>1, <3>1, <3>2, <3>3
  <2>2. UNCHANGED <<lead, rowVars, providerVars, monitorVars>>
    BY <1>1 DEF Poll, DrainEnds, RetryFails
  <2>3. RestTypes'
    BY <2>2, TypeParts DEF RestTypes, rowVars, providerVars, monitorVars
  <2>4. QED
    BY <2>1, <2>3, TypePartsNext
<1>2. CASE Notified(w) \/ NotifyFails(w)
  <2>1. /\ \E next \in {"SENT", "FAILED"} : Become(w, next)
        /\ phase[w] = "CLAIMED" /\ Busy(w)
    BY <1>2 DEF Notified, NotifyFails, Busy
  <2>2. holds[w] \in Notification
    BY <2>1 DEF TypeOK
  <2>3. onWire' \subseteq Notification /\ remembered' \subseteq Notification
        /\ mails' \in [Notification -> Nat]
    BY <1>2, <2>2 DEF TypeOK, Notified, NotifyFails, Accept, providerVars
  <2>4. UNCHANGED <<lead, rowVars, monitorVars>>
    BY <1>2 DEF Notified, NotifyFails
  <2>5. WorkerTypes'
    BY <2>1, BecomeTypes
  <2>6. RestTypes'
    BY <2>3, <2>4, TypeParts DEF RestTypes, rowVars, monitorVars
  <2>7. QED
    BY <2>5, <2>6, TypePartsNext
<1>3. QED
  BY <1>1, <1>2

LEMMA ReportTypes ==
  ASSUME TypeOK, NEW w \in Worker, Complete(w) \/ CompleteFails(w) \/ Retry(w)
  PROVE  TypeOK'
<1>1. holds[w] \in Notification /\ Busy(w) /\ phase[w] # "IDLE"
  BY DEF TypeOK, Complete, CompleteFails, Retry, Busy
<1>2. UNCHANGED rowVars \/ Delivered(w) \/ Retry(w)
  BY DEF Complete, CompleteFails
<1>3. /\ row' \in [Notification -> {"ABSENT", "PENDING", "DELIVERED"}]
      /\ leased' \in [Notification -> BOOLEAN] /\ due' \in [Notification -> BOOLEAN]
      /\ attempts' = attempts /\ old' = old /\ claimer' = claimer
  <2>1. CASE UNCHANGED rowVars
    BY <2>1 DEF TypeOK, rowVars
  <2>2. CASE Delivered(w)
    BY <1>1, <2>2 DEF TypeOK, Delivered, rowVars
  <2>3. CASE Retry(w)
    BY <1>1, <2>3 DEF TypeOK, Retry, rowVars
  <2>4. QED
    BY <1>2, <2>1, <2>2, <2>3
<1>4. Become(w, "FAILED") \/ \E next \in {"IDLE", "DRAINING"} : LetGo(w, next)
  BY DEF Complete, CompleteFails, Retry
<1>5. UNCHANGED <<lead, providerVars, monitorVars>>
  BY DEF Complete, CompleteFails, Retry
<1>6. WorkerTypes'
  BY <1>1, <1>4, BecomeTypes
<1>7. RestTypes'
  BY <1>3, <1>5, TypeParts DEF RestTypes, providerVars, monitorVars
<1>8. QED
  BY <1>6, <1>7, TypePartsNext

(* What a claim does, with its answer and without it. *)
LEMMA ClaimSays ==
  ASSUME TypeOK, NEW w \in Worker, NEW n \in Notification, Claim(w, n)
  PROVE  /\ attempts' \in [Notification -> 0 .. MaxAttempts]
         /\ attempts'[n] = Increment(attempts[n])
         /\ \A m \in Notification \ {n} : attempts'[m] = attempts[m] /\ claimer'[m] = claimer[m]
         /\ \A v \in Worker \ {w} : phase'[v] = phase[v] /\ holds'[v] = holds[v] /\ given'[v] = given[v]
         /\ holds[w] = None
         /\ \/ claimer'[n] = w /\ phase'[w] = "CLAIMED" /\ holds'[w] = n /\ given'[w] = attempts'[n]
            \/ claimer'[n] = None /\ phase'[w] = "IDLE" /\ holds'[w] = None
<1>1. attempts[n] \in 0 .. MaxAttempts /\ Increment(attempts[n]) \in 0 .. MaxAttempts
  BY OutboxAssumption DEF OutboxAssumption, TypeOK, Increment
<1>2. attempts' = [attempts EXCEPT ![n] = Increment(attempts[n])] /\ phase[w] = "DRAINING"
  BY DEF Claim
<1>3. holds[w] = None
  BY <1>2 DEF TypeOK
<1>4. QED
  BY <1>1, <1>2, <1>3 DEF Claim, TypeOK, Become

LEMMA ClaimTypes ==
  ASSUME TypeOK, NEW w \in Worker, NEW n \in Notification, Claim(w, n)
  PROVE  TypeOK'
<1>1. leased' \in [Notification -> BOOLEAN] /\ claimer' \in [Notification -> Worker \cup {None}]
  BY DEF TypeOK, Claim
<1>2. UNCHANGED <<lead, row, due, old, providerVars, monitorVars>>
  BY DEF Claim
<1>3. RestTypes'
  BY <1>1, <1>2, ClaimSays, TypeParts DEF RestTypes, providerVars, monitorVars
<1>4. /\ phase' \in [Worker -> {"IDLE", "DRAINING", "CLAIMED", "SENT", "FAILED"}]
      /\ holds' \in [Worker -> Notification \cup {None}]
      /\ service' = service
  BY DEF Claim, Become, TypeOK
<1>5. given' \in [Worker -> 0 .. MaxAttempts]
  <2>1. Increment(attempts[n]) \in 0 .. MaxAttempts
    BY ClaimSays
  <2>2. QED
    BY <2>1 DEF Claim, Become, TypeOK
<1>6. \A v \in Worker : phase'[v] \in {"CLAIMED", "SENT", "FAILED"} <=> holds'[v] # None
  BY ClaimSays, NoneAssumption DEF TypeOK
<1>7. \A v \in Worker : service'[v] = "DOWN" => phase'[v] = "IDLE"
  <2>1. service[w] = "UP"
    BY DEF Claim, GoesOn
  <2>2. QED
    BY <1>4, <2>1, ClaimSays DEF TypeOK
<1>8. QED
  BY <1>3, <1>4, <1>5, <1>6, <1>7, TypePartsNext DEF TypeOK, WorkerTypes

(* The monitors. *)
MonitorTypes ==
  /\ monitoring \in [Worker -> BOOLEAN]
  /\ seen \in [Worker -> BOOLEAN]
  /\ alertActive \in [Worker -> BOOLEAN]

LEMMA ReadTypes ==
  ASSUME TypeOK, NEW w \in Worker, Read(w) \/ MonitorGone(w) \/ UNCHANGED monitorVars
  PROVE  MonitorTypes'
<1>1. CASE Read(w)
  <2>1. \A v \in Worker \ {w} : seen'[v] = seen[v]
    BY <1>1 DEF TypeOK, Read
  <2>2. seen'[w] \in BOOLEAN
    BY <1>1 DEF TypeOK, Read, Unhealthy
  <2>3. seen' \in [Worker -> BOOLEAN]
    BY <1>1, <2>1, <2>2 DEF TypeOK, Read
  <2>4. QED
    BY <1>1, <2>3 DEF TypeOK, MonitorTypes, Read
<1>2. CASE MonitorGone(w)
  BY <1>2 DEF TypeOK, MonitorTypes, MonitorGone
<1>3. QED
  BY <1>1, <1>2 DEF TypeOK, MonitorTypes, monitorVars

LEMMA ServiceTypes ==
  ASSUME TypeOK, NEW w \in Worker, Stop(w) \/ Stopped(w) \/ Crash(w) \/ Start(w)
  PROVE  TypeOK'
<1>1. onWire' \subseteq Notification
  BY NoneAssumption DEF TypeOK, Stop, Stopped, Crash, Start, providerVars
<1>2. MonitorTypes'
  BY ReadTypes DEF Stop, Stopped, Crash, Start
<1>3. UNCHANGED <<lead, rowVars, remembered, mails>>
  BY DEF Stop, Stopped, Crash, Start, providerVars
<1>4. RestTypes'
  BY <1>1, <1>2, <1>3, TypeParts DEF RestTypes, MonitorTypes, rowVars
<1>5. WorkerTypes'
  <2>1. CASE Stop(w) \/ Stopped(w)
    BY <2>1 DEF TypeOK, WorkerTypes, Stop, Stopped
  <2>2. CASE Crash(w)
    BY <2>2, OutboxAssumption DEF OutboxAssumption, TypeOK, WorkerTypes, Crash
  <2>3. CASE Start(w)
    BY <2>3 DEF TypeOK, WorkerTypes, Start
  <2>4. QED
    BY <2>1, <2>2, <2>3
<1>6. QED
  BY <1>4, <1>5, TypePartsNext

----------------------------------------------------------------------------
(* The monitor only reads. *)
LEMMA MonitorStep ==
  ASSUME IInv, NEW w \in Worker, MonitorReads(w) \/ MonitorJudges(w) \/ MonitorFails(w)
  PROVE  IInv'
<1>1. seen' \in [Worker -> BOOLEAN] /\ alertActive' \in [Worker -> BOOLEAN] /\ monitoring' \in [Worker -> BOOLEAN]
  <2>1. CASE MonitorReads(w)
    BY <2>1, ReadTypes DEF IInv, MonitorReads, MonitorTypes
  <2>2. CASE MonitorJudges(w) \/ MonitorFails(w)
    BY <2>2 DEF IInv, TypeOK, MonitorJudges, MonitorFails
  <2>3. QED
    BY <2>1, <2>2
<1>2. UNCHANGED <<lead, rowVars, workerVars, providerVars>>
  BY DEF MonitorReads, MonitorJudges, MonitorFails
<1>3. TypeOK'
  BY <1>1, <1>2 DEF IInv, TypeOK, rowVars, workerVars, providerVars
<1>4. \A n \in Notification : Over(n) => Over(n)'
  BY <1>2 DEF Over, rowVars, workerVars, providerVars
<1>5. QED
  BY <1>2, <1>3, <1>4, QuietStep DEF rowVars, workerVars, providerVars

LEMMA LeadStep ==
  ASSUME IInv, NEW l \in Lead,
         CreateLead(l) \/ \E status \in Requests : TransitionLead(l, status)
  PROVE  IInv'
<1>1. TypeOK'
  BY LeadTypes DEF IInv
<1>2. UNCHANGED <<workerVars, providerVars>>
  BY DEF CreateLead, TransitionLead
<1>3. \A n \in Notification : row'[n] = "DELIVERED" <=> row[n] = "DELIVERED"
  <2>1. UNCHANGED rowVars \/ \E e \in Event : Enqueue(<<e, l>>)
    BY DEF CreateLead, TransitionLead, Event
  <2>2. \A e \in Event : <<e, l>> \in Notification
    BY DEF Notification
  <2>3. ASSUME NEW n \in Notification, NEW e \in Event, Enqueue(<<e, l>>)
        PROVE  row'[n] = "DELIVERED" <=> row[n] = "DELIVERED"
    <3>1. CASE row[<<e, l>>] = "ABSENT" /\ n = <<e, l>>
      BY <2>2, <2>3, <3>1 DEF IInv, TypeOK, Enqueue
    <3>2. CASE row[<<e, l>>] # "ABSENT" \/ n # <<e, l>>
      BY <2>2, <2>3, <3>2 DEF IInv, TypeOK, Enqueue, rowVars
    <3>3. QED
      BY <3>1, <3>2
  <2>4. QED
    BY <2>1, <2>3 DEF rowVars
<1>4. \A n \in Notification : Over(n) => Over(n)'
  BY <1>2, <1>3 DEF Over, workerVars, providerVars
<1>5. QED
  BY <1>1, <1>2, <1>3, <1>4, QuietStep DEF workerVars, providerVars

LEMMA TimeStep ==
  ASSUME IInv, NEW n \in Notification, LeaseEnds(n) \/ BackoffEnds(n) \/ Ages(n)
  PROVE  IInv'
<1>1. TypeOK'
  BY TimeTypes DEF IInv
<1>2. UNCHANGED <<row, workerVars, providerVars>>
  BY DEF LeaseEnds, BackoffEnds, Ages
<1>3. QED
  BY <1>1, <1>2, QuietStep DEF Over, workerVars, providerVars

LEMMA ProviderStep ==
  ASSUME IInv, NEW n \in Notification, AcceptLate(n) \/ Forget(n)
  PROVE  IInv'
<1>1. TypeOK'
  BY TimeTypes DEF IInv
<1>2. CASE AcceptLate(n)
  BY <1>1, <1>2, AcceptStep DEF AcceptLate, Over, rowVars, workerVars
<1>3. CASE Forget(n)
  <2>1. UNCHANGED <<row, phase, holds, onWire, mails>> /\ remembered' = remembered \ {n}
    BY <1>3 DEF Forget, rowVars, workerVars
  <2>2. KeyOutlastsRetries => Over(n)'
    BY <1>3, <2>1 DEF Forget, Over
  <2>3. ForgottenIsOver'
    BY <2>1, <2>2 DEF IInv, ForgottenIsOver, Over
  <2>4. SentWasMailed' /\ RememberedWasMailed' /\ DeliveredWasMailed'
        /\ (KeyOutlastsRetries => OneMail')
    BY <2>1 DEF IInv, SentWasMailed, RememberedWasMailed, DeliveredWasMailed, OneMail
  <2>5. QED
    BY <1>1, <2>3, <2>4 DEF IInv
<1>4. QED
  BY <1>2, <1>3

(* A worker's step that leaves the provider alone takes up only what is    *)
(* pending, and puts a request on the wire only for what it holds.         *)
LEMMA WorkerStep ==
  ASSUME IInv, NEW w \in Worker,
         \/ Poll(w) \/ DrainEnds(w) \/ \E n \in Notification : Claim(w, n)
         \/ NotifyFails(w) \/ Complete(w) \/ CompleteFails(w) \/ Retry(w) \/ RetryFails(w)
         \/ Stop(w) \/ Stopped(w) \/ Crash(w) \/ Start(w)
  PROVE  IInv'
<1>1. TypeOK'
  BY DrainTypes, ClaimTypes, ReportTypes, ServiceTypes DEF IInv
<1>2. UNCHANGED <<remembered, mails>>
  BY DEF Poll, DrainEnds, Claim, NotifyFails, Complete, CompleteFails, Retry, RetryFails, Stop,
         Stopped, Crash, Start, providerVars
<1>3. \A v \in Worker \ {w} : phase'[v] = phase[v] /\ holds'[v] = holds[v]
  BY DEF IInv, TypeOK, Poll, DrainEnds, Claim, NotifyFails, Complete, CompleteFails, Retry,
         RetryFails, Stop, Stopped, Crash, Start, Become, LetGo
<1>4. phase'[w] = "SENT" => phase[w] = "SENT" /\ holds'[w] = holds[w]
  BY DEF IInv, TypeOK, Poll, DrainEnds, Claim, NotifyFails, Complete, CompleteFails, Retry,
         RetryFails, Stop, Stopped, Crash, Start, Become, LetGo
<1>5. \A n \in Notification : row'[n] = "DELIVERED" =>
            row[n] = "DELIVERED" \/ (phase[w] = "SENT" /\ holds[w] = n)
  <2>1. UNCHANGED row \/ (phase[w] = "SENT" /\ Delivered(w))
    BY DEF Poll, DrainEnds, Claim, NotifyFails, Complete, CompleteFails, Retry, RetryFails, Stop,
           Stopped, Crash, Start, rowVars
  <2>2. QED
    BY <2>1 DEF IInv, TypeOK, Delivered, rowVars
<1>6. \A n \in Notification : row[n] = "DELIVERED" => row'[n] = "DELIVERED"
  <2>1. UNCHANGED row \/ Delivered(w)
    BY DEF Poll, DrainEnds, Claim, NotifyFails, Complete, CompleteFails, Retry, RetryFails, Stop,
           Stopped, Crash, Start, rowVars
  <2>2. QED
    BY <2>1 DEF IInv, TypeOK, Delivered, rowVars
<1>7. onWire' \subseteq onWire \cup {holds[w]}
  BY DEF Poll, DrainEnds, Claim, NotifyFails, Complete, CompleteFails, Retry, RetryFails, Stop,
         Stopped, Crash, Start, providerVars
<1>8. holds'[w] \in Notification => holds'[w] = holds[w] \/ row[holds'[w]] = "PENDING"
  BY NoneAssumption
  DEF IInv, TypeOK, Poll, DrainEnds, Claim, Claimable, NotifyFails, Complete, CompleteFails, Retry,
      RetryFails, Stop, Stopped, Crash, Start, Become, LetGo
<1>9. \A n \in Notification : Over(n) => Over(n)'
  BY <1>3, <1>6, <1>7, <1>8 DEF Over
<1>10. QED
  BY <1>1, <1>2, <1>3, <1>4, <1>5, <1>9, QuietStep

LEMMA NotifiedStep ==
  ASSUME IInv, NEW w \in Worker, Notified(w)
  PROVE  IInv'
<1>1. TypeOK'
  BY DrainTypes DEF IInv
<1>2. holds[w] \in Notification /\ Accept(holds[w])
  BY DEF IInv, TypeOK, Notified
<1>3. /\ \A v \in Worker : holds'[v] = holds[v]
      /\ \A v \in Worker : phase'[v] = "SENT" => phase[v] = "SENT" \/ holds[v] = holds[w]
      /\ UNCHANGED <<row, onWire>>
  BY DEF IInv, TypeOK, Notified, Become, rowVars
<1>4. ~Over(holds[w])
  BY DEF Over
<1>5. QED
  BY <1>1, <1>2, <1>3, <1>4, AcceptStep

LEMMA NextIInv == IInv /\ [Next]_vars => IInv'
<1> SUFFICES ASSUME IInv, [Next]_vars PROVE IInv'
  OBVIOUS
<1>1. CASE UNCHANGED vars
  BY <1>1 DEF vars, rowVars, workerVars, providerVars, monitorVars, IInv, TypeOK, SentWasMailed,
              RememberedWasMailed, DeliveredWasMailed, ForgottenIsOver, Over, OneMail
<1>2. CASE Next
  BY <1>2, LeadStep, TimeStep, ProviderStep, WorkerStep, NotifiedStep, MonitorStep DEF Next
<1>3. QED
  BY <1>1, <1>2

(* What the store has on record as delivered was mailed: stale workers,    *)
(* crashes and lost answers never complete a notification that the         *)
(* provider did not accept.                                                *)
THEOREM DeliveredWasMailedAlways == Spec => []DeliveredWasMailed
<1>1. IInv => DeliveredWasMailed
  BY DEF IInv
<1>2. QED
  BY <1>1, InitIInv, NextIInv, PTL DEF Spec

(* No event of a lead is mailed twice, if the provider forgets a key only  *)
(* when the notification is on record as delivered and no request for it   *)
(* is held or on its way.                                                  *)
THEOREM OneMailAlways ==
  ASSUME KeyOutlastsRetries
  PROVE  Spec => []OneMail
<1>1. IInv => OneMail
  BY DEF IInv
<1>2. QED
  BY <1>1, InitIInv, NextIInv, PTL DEF Spec

----------------------------------------------------------------------------
(* The fence.  A claim counts on, so that what an earlier one was given is *)
(* behind it for good.                                                     *)

GivenIsBehind ==
  \A w \in Worker : holds[w] \in Notification => given[w] <= attempts[holds[w]]

CurrentIsLast == \A w \in Worker, n \in Notification : HeldBy(w, n) => claimer[n] = w

FenceInv == IInv /\ GivenIsBehind /\ CurrentIsLast

LEMMA InitFence == Init => FenceInv
<1> SUFFICES ASSUME Init PROVE FenceInv
  OBVIOUS
<1>1. \A w \in Worker : holds[w] \notin Notification
  BY NoneAssumption DEF Init
<1>2. QED
  BY <1>1, InitIInv DEF FenceInv, GivenIsBehind, CurrentIsLast, HeldBy

(* What makes no claim only lets go. *)
LEMMA LettingGoKeepsFence ==
  ASSUME FenceInv, UNCHANGED <<attempts, claimer>>,
         \A w \in Worker : holds'[w] = None \/ (holds'[w] = holds[w] /\ given'[w] = given[w])
  PROVE  GivenIsBehind' /\ CurrentIsLast'
BY NoneAssumption DEF FenceInv, GivenIsBehind, CurrentIsLast, HeldBy

LEMMA ClaimKeepsFence ==
  ASSUME FenceInv, ~LeaseOutlastsJob, NEW w \in Worker, NEW n \in Notification, Claim(w, n)
  PROVE  GivenIsBehind' /\ CurrentIsLast'
<1> USE DEF FenceInv, IInv
<1>1. attempts[n] \in Nat /\ attempts'[n] = attempts[n] + 1
  BY ClaimSays DEF Claim, Increment, TypeOK
<1>2. \A v \in Worker : given[v] \in Nat
  BY DEF TypeOK
<1>3. ASSUME NEW v \in Worker, holds'[v] \in Notification
      PROVE  \/ v = w /\ holds'[v] = n /\ given'[v] = attempts'[n] /\ claimer'[n] = w
             \/ /\ v # w /\ holds'[v] = holds[v] /\ given'[v] = given[v]
                /\ given[v] <= attempts[holds[v]]
  BY <1>3, ClaimSays, NoneAssumption DEF GivenIsBehind
<1>4. GivenIsBehind'
  <2> SUFFICES ASSUME NEW v \in Worker, holds'[v] \in Notification
               PROVE  given'[v] <= attempts'[holds'[v]]
    BY DEF GivenIsBehind
  <2>1. CASE v = w
    BY <1>1, <1>3, <2>1
  <2>2. CASE v # w /\ holds[v] = n
    BY <1>1, <1>2, <1>3, <2>2
  <2>3. CASE v # w /\ holds[v] # n
    BY <1>3, <2>3, ClaimSays
  <2>4. QED
    BY <2>1, <2>2, <2>3
<1>5. CurrentIsLast'
  <2> SUFFICES ASSUME NEW v \in Worker, NEW m \in Notification,
                      holds'[v] = m, given'[v] = attempts'[m]
               PROVE  claimer'[m] = v
    BY DEF CurrentIsLast, HeldBy
  <2>1. CASE v = w
    BY <1>3, <2>1
  <2>2. CASE v # w /\ m = n
    BY <1>1, <1>2, <1>3, <2>2
  <2>3. CASE v # w /\ m # n
    BY <1>3, <2>3, ClaimSays DEF CurrentIsLast, HeldBy
  <2>4. QED
    BY <2>1, <2>2, <2>3
<1>6. QED
  BY <1>4, <1>5

LEMMA NextFence == FenceInv /\ ~LeaseOutlastsJob /\ [Next]_vars => FenceInv'
<1> SUFFICES ASSUME FenceInv, ~LeaseOutlastsJob, [Next]_vars PROVE GivenIsBehind' /\ CurrentIsLast'
  BY NextIInv DEF FenceInv
<1>1. ASSUME NEW l \in Lead, CreateLead(l) \/ \E status \in Requests : TransitionLead(l, status)
      PROVE  GivenIsBehind' /\ CurrentIsLast'
  <2>1. UNCHANGED <<attempts, claimer, workerVars>>
    BY <1>1 DEF CreateLead, TransitionLead, Enqueue, rowVars
  <2>2. QED
    BY <2>1, LettingGoKeepsFence DEF workerVars
<1>2. ASSUME NEW n \in Notification,
             LeaseEnds(n) \/ BackoffEnds(n) \/ Ages(n) \/ AcceptLate(n) \/ Forget(n)
      PROVE  GivenIsBehind' /\ CurrentIsLast'
  <2>1. UNCHANGED <<attempts, claimer, workerVars>>
    BY <1>2 DEF LeaseEnds, BackoffEnds, Ages, AcceptLate, Forget, rowVars
  <2>2. QED
    BY <2>1, LettingGoKeepsFence DEF workerVars
<1>3. ASSUME NEW w \in Worker,
             \/ Poll(w) \/ DrainEnds(w) \/ Notified(w) \/ NotifyFails(w)
             \/ Complete(w) \/ CompleteFails(w) \/ Retry(w) \/ RetryFails(w)
             \/ Stop(w) \/ Stopped(w) \/ Crash(w) \/ Start(w)
             \/ MonitorReads(w) \/ MonitorJudges(w) \/ MonitorFails(w)
      PROVE  GivenIsBehind' /\ CurrentIsLast'
  <2>1. UNCHANGED <<attempts, claimer>>
    BY <1>3 DEF Poll, DrainEnds, Notified, NotifyFails, Complete, CompleteFails, Delivered, Retry,
                RetryFails, Stop, Stopped, Crash, Start, MonitorReads, MonitorJudges, MonitorFails, rowVars
  <2>2. \/ UNCHANGED <<holds, given>>
        \/ holds' = [holds EXCEPT ![w] = None] /\ given' = [given EXCEPT ![w] = 0]
    BY <1>3 DEF Poll, DrainEnds, Notified, NotifyFails, Complete, CompleteFails, Retry,
                RetryFails, Stop, Stopped, Crash, Start, MonitorReads, MonitorJudges, MonitorFails,
                Become, LetGo, workerVars
  <2>3. \A v \in Worker : holds'[v] = None \/ (holds'[v] = holds[v] /\ given'[v] = given[v])
    BY <2>2 DEF FenceInv, IInv, TypeOK
  <2>4. QED
    BY <2>1, <2>3, LettingGoKeepsFence
<1>4. CASE UNCHANGED vars
  BY <1>4, LettingGoKeepsFence DEF vars, rowVars, workerVars
<1>5. QED
  BY <1>1, <1>2, <1>3, <1>4, ClaimKeepsFence DEF Next

(* A notification is settled or put off only in the report of the worker   *)
(* that was given its last claim (completeNotification, retryNotification: *)
(* attempts = claimAttempt), whatever stale workers, other replicas and    *)
(* crashes do in between and however leases run out.                       *)
THEOREM ReportsAreFencedAlways ==
  ASSUME ~LeaseOutlastsJob
  PROVE  Spec => ReportsAreFenced
<1> DEFINE Settles(n) == row[n] = "PENDING" /\ (row'[n] = "DELIVERED" \/ (due[n] /\ ~due'[n]))
           Reported(n) == \E w \in Worker : claimer[n] = w /\ holds[w] = n /\ phase'[w] # phase[w]
           Fences == \A n \in Notification : Settles(n) => Reported(n)
<1>1. FenceInv /\ [Next]_vars => [Fences]_vars
  <2> SUFFICES ASSUME TypeOK, CurrentIsLast, Next, NEW n \in Notification, Settles(n) PROVE Reported(n)
    BY DEF Fences, FenceInv, IInv
  <2> USE DEF Settles, TypeOK
  <2>1. ASSUME NEW l \in Lead,
               CreateLead(l) \/ \E status \in Requests : TransitionLead(l, status)
        PROVE  FALSE
    <3>1. UNCHANGED rowVars \/ \E e \in Event : Enqueue(<<e, l>>)
      BY <2>1 DEF CreateLead, TransitionLead, Event
    <3>2. \A e \in Event : <<e, l>> \in Notification
      BY DEF Notification
    <3>3. ASSUME NEW m \in Notification, Enqueue(m) PROVE row'[n] = "PENDING" /\ due'[n] \in {due[n], TRUE}
      <4>1. row[n] = "PENDING" /\ n \in DOMAIN row /\ n \in DOMAIN due
        OBVIOUS
      <4>2. CASE row[m] = "ABSENT"
        <5>1. row' = [row EXCEPT ![m] = "PENDING"] /\ due' = [due EXCEPT ![m] = TRUE] /\ m # n
          BY <3>3, <4>1, <4>2 DEF Enqueue
        <5> QED
          BY <4>1, <5>1, Zenon
      <4>3. CASE row[m] # "ABSENT"
        BY <3>3, <4>1, <4>3, Zenon DEF Enqueue, rowVars
      <4> QED
        BY <4>2, <4>3
    <3> QED
      BY <3>1, <3>2, <3>3 DEF rowVars
  <2>2. ASSUME NEW m \in Notification,
               LeaseEnds(m) \/ BackoffEnds(m) \/ Ages(m) \/ AcceptLate(m) \/ Forget(m)
        PROVE  FALSE
    <3>1. row' = row /\ (due' = due \/ due' = [due EXCEPT ![m] = TRUE])
      BY <2>2 DEF LeaseEnds, BackoffEnds, Ages, AcceptLate, Forget, rowVars
    <3>2. due'[n] = due[n] \/ due'[n] = TRUE
      <4>1. CASE due' = due
        BY <4>1
      <4>2. CASE due' = [due EXCEPT ![m] = TRUE] /\ n = m
        BY <4>2
      <4>3. CASE due' = [due EXCEPT ![m] = TRUE] /\ n # m
        BY <4>3
      <4> QED
        BY <3>1, <4>1, <4>2, <4>3
    <3> QED
      BY <3>1, <3>2
  <2>3. ASSUME NEW w \in Worker, Complete(w) \/ CompleteFails(w) \/ Retry(w)
        PROVE  Reported(n)
    <3>1. holds[w] = n /\ given[w] = attempts[n]
      BY <2>3 DEF Complete, CompleteFails, Retry, Delivered, Fenced, rowVars
    <3>2. claimer[n] = w
      BY <3>1 DEF CurrentIsLast, HeldBy
    <3>3. phase'[w] # phase[w]
      BY <2>3 DEF Complete, CompleteFails, Retry, Become, LetGo
    <3> QED
      BY <3>1, <3>2, <3>3
  <2>4. ASSUME NEW w \in Worker,
               \/ Poll(w) \/ DrainEnds(w) \/ (\E m \in Notification : Claim(w, m))
               \/ Notified(w) \/ NotifyFails(w) \/ RetryFails(w)
               \/ Stop(w) \/ Stopped(w) \/ Crash(w) \/ Start(w)
               \/ MonitorReads(w) \/ MonitorJudges(w) \/ MonitorFails(w)
        PROVE  FALSE
    BY <2>4 DEF Poll, DrainEnds, Claim, Notified, NotifyFails, RetryFails, Stop, Stopped, Crash,
                Start, MonitorReads, MonitorJudges, MonitorFails, rowVars
  <2> QED
    BY <2>1, <2>2, <2>3, <2>4 DEF Next
<1>2. FenceInv /\ [Next]_vars => FenceInv'
  BY NextFence
<1>3. QED
  BY <1>1, <1>2, InitFence, PTL DEF Spec, ReportsAreFenced

=============================================================================
