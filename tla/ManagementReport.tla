-------------------------- MODULE ManagementReport --------------------------
(***************************************************************************)
(* The read-only management reports: listReleases and getRelease of        *)
(* PostgresManagementReportStore behind tenant authorization, while the    *)
(* lifecycle and event stores go on writing.                               *)
(*                                                                         *)
(* What a release's rows go through is modelled in full by                 *)
(* ReleaseLifecycleStore and DeploymentEventStore.  Here a transaction of  *)
(* theirs is one step of one release, and a row is what the reports show   *)
(* of it: of its attempts their number and the state of the last, those    *)
(* before it being over.  Identifiers of events and attempts, the times    *)
(* events give themselves, and decisions read before a concurrent review   *)
(* are left to those modules: they change who is refused, not what a       *)
(* commit leaves.                                                          *)
(*                                                                         *)
(* Stamps are PostgreSQL's microseconds; a report's are milliseconds.      *)
(***************************************************************************)
EXTENDS Integers, Sequences, FiniteSets

CONSTANTS
  Repository,
  Release,       \* release_id values, ordered as the database orders them
  RepositoryOf,  \* release -> its repository
  PR,
  HeadOf,        \* pull request -> the release of its head commit
  None,          \* SQL NULL
  Millisecond,   \* microseconds in a millisecond
  Limit,         \* the page size asked for
  MaximumAttempts, MaximumObservations, MaximumAuditEvents,  \* maximumManagement...
  MaxTime, MaxTransactions                  \* bounds for model checking

Status   == {"PENDING", "REVIEWED", "DEPLOYING", "COMPLETED", "SUPERSEDED", "CANCELLED"}
Policy   == {None, "CANARY", "STANDARD", "BLOCKED"}
Attempt  == {None, "STARTED", "OBSERVING", "PROMOTED", "ROLLED_BACK", "FAILED", "CANCELLED"}
Outcome  == {None, "CONTINUED", "PROMOTED", "ROLLED_BACK", "FAILED", "BLOCKED"}

Continues == {"CANARY", "STANDARD"}    \* the strategies of the decision CONTINUE
Active    == {"STARTED", "OBSERVING"}

(* A release's rows, as far as the reports tell. *)
Row ==
  [at : Nat, pr : PR \cup {None},
   status : Status, policy : Policy,
   attempts : Nat, attempt : Attempt, strategy : {None} \cup Continues,
   outcome : Outcome, observations : Nat, auditEvents : Nat]

(* Rows cut to a maximum. *)
Part == [items : Nat, truncated : BOOLEAN]

(* A cursor is a page's last release, bound to its repository. *)
Cursor == [repository : Repository, createdAt : Nat, releaseId : Release]

ASSUME ManagementReportAssumption ==
  /\ None \notin Row \cup Cursor \cup Continues \cup Active
  /\ None \notin {"PROMOTED", "ROLLED_BACK", "FAILED", "CANCELLED", "CONTINUED", "BLOCKED"}
  /\ Release \subseteq Nat \ {0}
  /\ RepositoryOf \in [Release -> Repository]
  /\ HeadOf \in [PR -> Release]
  /\ Millisecond \in Nat \ {0} /\ Limit \in Nat \ {0}
  /\ MaximumAttempts \in Nat \ {0}
  /\ MaximumObservations \in Nat \ {0} /\ MaximumAuditEvents \in Nat \ {0}
  /\ MaxTime \in Nat \ {0} /\ MaxTransactions \in Nat

VARIABLES
  clock,
  row,           \* release -> its committed rows, or None
  transactions,  \* committed so far
  credential,    \* whether the caller's credential and tenant are active
  granted        \* tenant_repository_access: the tenant's repositories

accessVars == <<credential, granted>>
tableVars == <<clock, row, transactions, accessVars>>

ReportTypeOK ==
  /\ clock \in 1 .. MaxTime
  /\ row \in [Release -> Row \cup {None}]
  /\ \A r \in Release : row[r] # None => row[r].at \in 1 .. MaxTime
  /\ transactions \in 0 .. MaxTransactions
  /\ credential \in BOOLEAN /\ granted \subseteq Repository

(* What authenticateRequest asks of the credential and assertRepositoryAccess *)
(* of the repository.                                                        *)
Entitled(repository) == credential /\ repository \in granted

(* Credentials and access are provisioned before they are used, and only   *)
(* taken away here: scripts/provision-tenant.ts adds a tenant, with a      *)
(* credential of its own.                                                  *)
ReportInit ==
  /\ clock = 1
  /\ row = [r \in Release |-> None]
  /\ transactions = 0
  /\ credential = TRUE /\ granted = Repository

Tick ==
  /\ clock < MaxTime
  /\ clock' = clock + 1
  /\ UNCHANGED <<row, transactions, accessVars>>

----------------------------------------------------------------------------
(* What the other stores commit. *)

(* A transaction on rows that exist. *)
Change(r, new) ==
  /\ transactions < MaxTransactions
  /\ transactions' = transactions + 1
  /\ row' = [row EXCEPT ![r] = new]
  /\ UNCHANGED <<clock, accessVars>>

Audited(new) == [new EXCEPT !.auditEvents = @ + 1]

(* findOrCreateRelease, for a new head: by a review's request, by a        *)
(* workflow run's delivery or, with an audit event, by a pull request's.   *)
(* created_at is now(), the time the transaction began; one that began     *)
(* later may commit before it.                                             *)
CommitRelease(r) ==
  /\ row[r] = None
  /\ \E at \in 1 .. clock, p \in {p \in PR : HeadOf[p] = r} \cup {None} :
       LET new == [at |-> at, pr |-> p, status |-> "PENDING", policy |-> None, attempts |-> 0,
                   attempt |-> None, strategy |-> None, outcome |-> None, observations |-> 0,
                   auditEvents |-> 0]
       IN  Change(r, new) \/ (p # None /\ Change(r, Audited(new)))

(* recordReview: from whatever status, also of a release that is being     *)
(* deployed or is completed.                                               *)
RecordReview(r) ==
  \E policy \in Policy \ {None} :
    Change(r, Audited([row[r] EXCEPT !.status = "REVIEWED", !.policy = policy]))

StatusAfter(action, status) ==
  IF action = "closed" THEN "CANCELLED"
  ELSE IF action = "reopened" /\ status = "CANCELLED" THEN "PENDING" ELSE status

Ended(attempt) == IF attempt \in Active THEN "CANCELLED" ELSE attempt

(* A delivery of a pull request with this head takes the release; one that *)
(* closes it unmerged cancels the release, one that reopens it restores it. *)
RecordDelivery(r) ==
  \E p \in {p \in PR : HeadOf[p] = r}, action \in {"opened", "closed", "reopened"} :
    Change(r, Audited([row[r] EXCEPT !.pr = p,
                                     !.status = StatusAfter(action, @),
                                     !.attempt = IF action = "closed" THEN Ended(@) ELSE @]))

(* So does a workflow run's delivery, which leaves no audit event. *)
RecordWorkflowRun(r) ==
  \E p \in {p \in PR : HeadOf[p] = r} \ {row[r].pr} : Change(r, [row[r] EXCEPT !.pr = p])

(* recordStarted *)
RecordStarted(r) ==
  /\ row[r].policy \in Continues
  /\ row[r].status \in {"REVIEWED", "COMPLETED"}
  /\ row[r].attempt \notin Active
  /\ row[r].status = "COMPLETED" => row[r].outcome \in {"ROLLED_BACK", "FAILED"}
  /\ Change(r, Audited([row[r] EXCEPT !.status = "DEPLOYING", !.attempts = @ + 1,
                                      !.attempt = "STARTED", !.strategy = row[r].policy]))

(* recordObservation *)
RecordObservation(r) ==
  /\ row[r].status = "DEPLOYING" /\ row[r].attempt \in Active /\ row[r].strategy = "CANARY"
  /\ Change(r, Audited([row[r] EXCEPT !.attempt = "OBSERVING", !.observations = @ + 1]))

(* recordAttemptedOutcome: a canary that continues stays under observation, *)
(* a standard deployment that continues is promoted.                        *)
RecordAttemptedOutcome(r) ==
  /\ row[r].policy \in Continues
  /\ row[r].status = "DEPLOYING" /\ row[r].attempt \in Active
  /\ \/ /\ row[r].strategy = "CANARY"
        /\ Change(r, Audited([row[r] EXCEPT !.attempt = "OBSERVING", !.outcome = "CONTINUED"]))
     \/ /\ row[r].strategy = "STANDARD"
        /\ Change(r, Audited([row[r] EXCEPT !.status = "COMPLETED", !.attempt = "PROMOTED",
                                            !.outcome = "CONTINUED"]))
     \/ \E result \in {"PROMOTED", "ROLLED_BACK", "FAILED"} :
          /\ row[r].strategy = "STANDARD" => result = "FAILED"
          /\ Change(r, Audited([row[r] EXCEPT !.status = "COMPLETED", !.attempt = result,
                                              !.outcome = result]))

(* recordBlockedOutcome: no attempt is looked for, active or not. *)
RecordBlockedOutcome(r) ==
  /\ row[r].policy = "BLOCKED" /\ row[r].status = "REVIEWED"
  /\ Change(r, Audited([row[r] EXCEPT !.status = "COMPLETED", !.outcome = "BLOCKED"]))

(* A delivery of the pull request's next head; its audit event is of that. *)
Supersede(r) ==
  /\ row[r].pr # None
  /\ row[r].status \in {"PENDING", "REVIEWED", "DEPLOYING"}
  /\ Change(r, [row[r] EXCEPT !.status = "SUPERSEDED", !.attempt = Ended(@)])

(* tenant_repository_access: an operator takes a repository away ... *)
Withdraw(repository) ==
  /\ repository \in granted
  /\ granted' = granted \ {repository}
  /\ UNCHANGED <<clock, row, transactions, credential>>

(* ... or the credential or its tenant is made inactive, or it expires. *)
Revoke ==
  /\ credential /\ credential' = FALSE
  /\ UNCHANGED <<clock, row, transactions, granted>>

Write ==
  \/ Tick \/ Revoke \/ (\E repository \in Repository : Withdraw(repository))
  \/ \E r \in Release : CommitRelease(r)
  \/ \E r \in {r \in Release : row[r] # None} :
       \/ RecordReview(r) \/ RecordDelivery(r) \/ RecordWorkflowRun(r) \/ RecordStarted(r)
       \/ RecordObservation(r) \/ RecordAttemptedOutcome(r) \/ RecordBlockedOutcome(r)
       \/ Supersede(r)

----------------------------------------------------------------------------
(* The queries. *)

(* asIsoDateTime: a JavaScript date has milliseconds. *)
IsoDateTime(at) == (at \div Millisecond) * Millisecond

(* Mutant: a release as old as the cursor's is taken whatever its identifier. *)
OlderOrEqual(cursor, r) == row[r].at <= cursor.createdAt

(* created_at < $2 OR (created_at = $2 AND release_id < $3) *)
Older(cursor, r) ==
  \/ row[r].at < cursor.createdAt
  \/ row[r].at = cursor.createdAt /\ r < cursor.releaseId

(* ORDER BY created_at DESC, release_id DESC *)
Precedes(r, q) == row[r].at > row[q].at \/ (row[r].at = row[q].at /\ r > q)

History(repository) == {r \in Release : row[r] # None /\ RepositoryOf[r] = repository}

Ordered(S) ==
  CHOOSE s \in [1 .. Cardinality(S) -> S] :
    /\ \A r \in S : \E i \in DOMAIN s : s[i] = r
    /\ \A i, j \in DOMAIN s : i < j => Precedes(s[i], s[j])

(* LIMIT is a row more than the page, to know whether there is another.    *)
Rows(repository, cursor) ==
  LET matching == {r \in History(repository) : cursor = None \/ Older(cursor, r)}
      ordered  == Ordered(matching)
  IN  SubSeq(ordered, 1, IF Len(ordered) > Limit THEN Limit + 1 ELSE Len(ordered))

(* The cursor of the last release of a page. *)
CursorOf(r) == [repository |-> RepositoryOf[r], createdAt |-> IsoDateTime(row[r].at), releaseId |-> r]

(* The cursor does not belong to another repository. *)
QueryParses(repository, cursor) == cursor # None => cursor.repository = repository

(* Mutant: the cursor is that of the row beyond the page. *)
PageFromBeyond(rows) ==
  IF Len(rows) > Limit
  THEN [releases |-> SubSeq(rows, 1, Limit), nextCursor |-> CursorOf(rows[Limit + 1])]
  ELSE [releases |-> rows, nextCursor |-> None]

(* listReleases of those rows. *)
Page(rows) ==
  IF Len(rows) > Limit
  THEN [releases |-> SubSeq(rows, 1, Limit), nextCursor |-> CursorOf(rows[Limit])]
  ELSE [releases |-> rows, nextCursor |-> None]

(* boundRows *)
Bounded(n, maximum) ==
  [items |-> IF n > maximum THEN maximum ELSE n, truncated |-> n > maximum]

(* The sections of getRelease, from a release's rows as a query sees them. *)
Summary(seen) == [status |-> seen.status, policy |-> seen.policy, outcome |-> seen.outcome]

(* Attempts are read in the order they started; of a list that is cut off  *)
(* nothing is said of the last.  Observations are cut off for each attempt, *)
(* here for all of them together.                                          *)
AttemptSection(seen) ==
  [attempts |-> Bounded(seen.attempts, MaximumAttempts),
   last |-> IF seen.attempts > MaximumAttempts THEN None ELSE seen.attempt,
   observations |-> Bounded(seen.observations, MaximumObservations)]

AuditSection(seen) == [auditEvents |-> Bounded(seen.auditEvents, MaximumAuditEvents)]

=============================================================================
