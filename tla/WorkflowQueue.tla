--------------------------- MODULE WorkflowQueue ---------------------------
(***************************************************************************)
(* The leased task queue of DurableGitHubWorkflowRunWorker with what the   *)
(* lifecycle modules leave out: the passing of leases and of retry delays, *)
(* the review and the Check Run that a task's job produces, and crashes.   *)
(*                                                                         *)
(* available_at <= now() and leased_until >= now() are the booleans due    *)
(* and leased, which the clock may change at any time.  GitHub is external *)
(* and a request may be applied although its answer is lost, also after    *)
(* the job gave it up.                                                     *)
(*                                                                         *)
(* A commit has one release and so one review on record (ON CONFLICT       *)
(* (release_id)), but as many tasks as runs of its workflow, and all its   *)
(* Check Runs have one name.  publishCheckRun asks for the latest of that  *)
(* name (filter=latest) and looks for the task's external_id among them.   *)
(* What GitHub counts as the latest is not in the repository: a task's     *)
(* Check Run is surely listed as long as none of another task was          *)
(* published on the commit since it was created, and may or may not be     *)
(* listed after that.  A review is told from another by its task and the   *)
(* claim it was made under.                                                *)
(***************************************************************************)
EXTENDS Integers, FiniteSets

CONSTANTS
  Task,              \* tasks that have been accepted for open pull requests
  Commit, CommitOf,  \* the commits they are for
  Shared,            \* commits that other runs and POST /reviews also review
  Worker,            \* runOnce slots of all service instances
  MaximumAttempts,   \* GITHUB_AUTOMATION_MAX_ATTEMPTS
  MaxCrashes,        \* bounds on crashes and on publications that were
  MaxOnWire,         \* given up, for model checking
  None

ASSUME QueueAssumption ==
  /\ MaximumAttempts \in Nat \ {0}
  /\ MaxCrashes \in Nat /\ MaxOnWire \in Nat
  /\ CommitOf \in [Task -> Commit] /\ Shared \subseteq Commit
  /\ None \notin Task

VARIABLES
  status, attempts, due, leased,   \* automation_tasks
  phase, holds, count, found,      \* the workers' jobs
  reviewed,                        \* the review on record of a commit's
                                   \* release: of which task and claim
  checkRuns, shown,                \* GitHub: how many Check Runs a task has
                                   \* and the claim whose review they show,
  newest,                          \* the task, if any, since whose Check Run
                                   \* no other was published on a commit
  onWire,                          \* publications that were given up and may
                                   \* yet be applied
  outlived,                        \* history: tasks a job of which outlived its
                                   \* lease, or a request of which its job
  crashes

taskVars   == <<status, attempts, due, leased>>
jobVars    == <<phase, holds, count, found>>
githubVars == <<checkRuns, shown, newest, onWire>>
vars       == <<taskVars, jobVars, reviewed, githubVars, outlived, crashes>>

(* No review, or that of another run or of a request. *)
Unreviewed == [by |-> None, claim |-> 0]

Phases == {"IDLE", "CLAIMED", "REVIEWED", "LISTED", "PUBLISHED"}

TypeOK ==
  /\ status \in [Task -> {"PENDING", "PROCESSING", "COMPLETED", "FAILED", "SUPERSEDED"}]
  /\ attempts \in [Task -> Nat]
  /\ due \in [Task -> BOOLEAN]
  /\ leased \in [Task -> BOOLEAN]
  /\ phase \in [Worker -> Phases]
  /\ holds \in [Worker -> Task \cup {None}]
  /\ count \in [Worker -> Nat]
  /\ found \in [Worker -> BOOLEAN]
  /\ reviewed \in [Commit -> [by : Task \cup {None}, claim : Nat]]
  /\ checkRuns \in [Task -> Nat]
  /\ shown \in [Task -> Nat]
  /\ newest \in [Commit -> Task \cup {None}]
  /\ onWire \subseteq [task : Task, claim : Nat, found : BOOLEAN]
  /\ outlived \subseteq Task
  /\ crashes \in 0 .. MaxCrashes
  /\ \A w \in Worker : phase[w] = "IDLE" <=> holds[w] = None

Init ==
  /\ status = [t \in Task |-> "PENDING"]
  /\ attempts = [t \in Task |-> 0]
  /\ due = [t \in Task |-> TRUE]
  /\ leased = [t \in Task |-> FALSE]
  /\ phase = [w \in Worker |-> "IDLE"]
  /\ holds = [w \in Worker |-> None]
  /\ count = [w \in Worker |-> 0]
  /\ found = [w \in Worker |-> FALSE]
  /\ reviewed = [c \in Commit |-> Unreviewed]
  /\ checkRuns = [t \in Task |-> 0]
  /\ shown = [t \in Task |-> 0]
  /\ newest = [c \in Commit |-> None]
  /\ onWire = {}
  /\ outlived = {}
  /\ crashes = 0

----------------------------------------------------------------------------
(* Time, and the deliveries that supersede a task. *)

Busy(w) == phase[w] # "IDLE"

HeldBy(w, t) == Busy(w) /\ holds[w] = t

LeaseEnds(t) ==
  /\ status[t] = "PROCESSING"
  /\ leased[t]
  /\ leased' = [leased EXCEPT ![t] = FALSE]
  /\ outlived' = IF \E w \in Worker : HeldBy(w, t) THEN outlived \cup {t} ELSE outlived
  /\ UNCHANGED <<status, attempts, due, jobVars, reviewed, githubVars, crashes>>

BackoffEnds(t) ==
  /\ ~due[t]
  /\ due' = [due EXCEPT ![t] = TRUE]
  /\ UNCHANGED <<status, attempts, leased, jobVars, reviewed, githubVars, outlived, crashes>>

Supersede(t) ==
  /\ status[t] \in {"PENDING", "PROCESSING"}
  /\ status' = [status EXCEPT ![t] = "SUPERSEDED"]
  /\ leased' = [leased EXCEPT ![t] = FALSE]
  /\ UNCHANGED <<attempts, due, jobVars, reviewed, githubVars, outlived, crashes>>

----------------------------------------------------------------------------
(* Others on a shared commit: the job of a task that is not in Task, or a  *)
(* request to POST /reviews or POST /github/reviews, replaces the review   *)
(* on record; such a job publishes a Check Run of its own.                 *)

OthersReview(c) ==
  /\ c \in Shared
  /\ reviewed[c].by # None
  /\ reviewed' = [reviewed EXCEPT ![c] = Unreviewed]
  /\ UNCHANGED <<taskVars, jobVars, githubVars, outlived, crashes>>

OthersCheckRun(c) ==
  /\ c \in Shared
  /\ newest[c] # None
  /\ newest' = [newest EXCEPT ![c] = None]
  /\ UNCHANGED <<taskVars, jobVars, reviewed, checkRuns, shown, onWire, outlived, crashes>>

----------------------------------------------------------------------------
(* runOnce.  SKIP LOCKED lets a claim pass over a task that any other      *)
(* transaction has locked, so the ORDER BY does not decide.                *)

(* Mutant: the lease of a PROCESSING task is not looked at. *)
ClaimableAnyLease(t) ==
  \/ status[t] = "PENDING" /\ due[t]
  \/ status[t] = "PROCESSING"

(* Mutant: an expired lease is not taken over. *)
ClaimablePendingOnly(t) == status[t] = "PENDING" /\ due[t]

Claimable(t) ==
  \/ status[t] = "PENDING" /\ due[t]
  \/ status[t] = "PROCESSING" /\ ~leased[t]

Claim(w, t) ==
  /\ phase[w] = "IDLE"
  /\ Claimable(t)
  /\ status' = [status EXCEPT ![t] = "PROCESSING"]
  /\ attempts' = [attempts EXCEPT ![t] = @ + 1]
  /\ leased' = [leased EXCEPT ![t] = TRUE]
  /\ phase' = [phase EXCEPT ![w] = "CLAIMED"]
  /\ holds' = [holds EXCEPT ![w] = t]
  /\ count' = [count EXCEPT ![w] = attempts[t] + 1]
  /\ UNCHANGED <<due, found, reviewed, githubVars, outlived, crashes>>

(* process: the evidence is collected and the review recorded. *)
Review(w) ==
  /\ phase[w] = "CLAIMED"
  /\ reviewed' = [reviewed EXCEPT ![CommitOf[holds[w]]] = [by |-> holds[w], claim |-> count[w]]]
  /\ phase' = [phase EXCEPT ![w] = "REVIEWED"]
  /\ UNCHANGED <<taskVars, holds, count, found, githubVars, outlived, crashes>>

(* What a list may say of a task's Check Run. *)
Listed(t, answer) ==
  /\ answer => checkRuns[t] > 0
  /\ newest[CommitOf[t]] = t => answer

(* publishCheckRun: the commit's latest Check Runs are listed ... *)
List(w) ==
  /\ phase[w] = "REVIEWED"
  /\ \E answer \in BOOLEAN : /\ Listed(holds[w], answer)
                              /\ found' = [found EXCEPT ![w] = answer]
  /\ phase' = [phase EXCEPT ![w] = "LISTED"]
  /\ UNCHANGED <<taskVars, holds, count, reviewed, githubVars, outlived, crashes>>

(* One that is created is the newest; one that is updated stays what it    *)
(* was, and another's is no longer sure to be listed.                      *)
NewestAfter(t, existing) == IF ~existing \/ newest[CommitOf[t]] = t THEN t ELSE None

(* Mutant: a Check Run that exists is left as it is. *)
PublishKeepsExisting(w) ==
  /\ phase[w] = "LISTED"
  /\ checkRuns' = [checkRuns EXCEPT ![holds[w]] = IF found[w] THEN @ ELSE @ + 1]
  /\ shown' = [shown EXCEPT ![holds[w]] = IF found[w] THEN @ ELSE count[w]]
  /\ newest' = [newest EXCEPT ![CommitOf[holds[w]]] = NewestAfter(holds[w], found[w])]
  /\ phase' = [phase EXCEPT ![w] = "PUBLISHED"]
  /\ UNCHANGED <<taskVars, holds, count, found, reviewed, onWire, outlived, crashes>>

(* ... and the one with the task's external_id is updated, or one created. *)
Publish(w) ==
  /\ phase[w] = "LISTED"
  /\ checkRuns' = [checkRuns EXCEPT ![holds[w]] = IF found[w] THEN @ ELSE @ + 1]
  /\ shown' = [shown EXCEPT ![holds[w]] = count[w]]
  /\ newest' = [newest EXCEPT ![CommitOf[holds[w]]] = NewestAfter(holds[w], found[w])]
  /\ phase' = [phase EXCEPT ![w] = "PUBLISHED"]
  /\ UNCHANGED <<taskVars, holds, count, found, reviewed, onWire, outlived, crashes>>

(* A publication that was given up may still be on its way ... *)
GivenUp(w) ==
  /\ \/ UNCHANGED onWire
     \/ /\ phase[w] = "LISTED" /\ Cardinality(onWire) < MaxOnWire
        /\ onWire' = onWire \cup {[task |-> holds[w], claim |-> count[w], found |-> found[w]]}
  /\ UNCHANGED <<checkRuns, shown, newest>>

(* ... and be applied. *)
ApplyLate(request) ==
  LET t == request.task IN
  /\ request \in onWire
  /\ onWire' = onWire \ {request}
  /\ checkRuns' = [checkRuns EXCEPT ![t] = IF request.found THEN @ ELSE @ + 1]
  /\ shown' = [shown EXCEPT ![t] = request.claim]
  /\ newest' = [newest EXCEPT ![CommitOf[t]] = NewestAfter(t, request.found)]
  /\ outlived' = outlived \cup {t}
  /\ UNCHANGED <<taskVars, jobVars, reviewed, crashes>>

(* The worker lets go of its task. *)
LetGo(w) ==
  /\ phase' = [phase EXCEPT ![w] = "IDLE"]
  /\ holds' = [holds EXCEPT ![w] = None]
  /\ count' = [count EXCEPT ![w] = 0]
  /\ found' = [found EXCEPT ![w] = FALSE]

(* Both updates: WHERE task_id = $1 AND status = 'PROCESSING'. *)
Settle(t, settled) ==
  IF status[t] = "PROCESSING"
  THEN /\ status' = [status EXCEPT ![t] = settled]
       /\ leased' = [leased EXCEPT ![t] = FALSE]
  ELSE UNCHANGED <<status, leased>>

Complete(w) ==
  /\ phase[w] = "PUBLISHED"
  /\ Settle(holds[w], "COMPLETED")
  /\ LetGo(w)
  /\ UNCHANGED <<attempts, due, reviewed, githubVars, outlived, crashes>>

Terminal(w) == count[w] >= MaximumAttempts

(* Anything in process threw, or an answer was lost: the catch block. *)
Fail(w) ==
  /\ Busy(w)
  /\ Settle(holds[w], IF Terminal(w) THEN "FAILED" ELSE "PENDING")
  /\ due' = [due EXCEPT ![holds[w]] = IF status[holds[w]] = "PROCESSING" THEN FALSE ELSE @]
  /\ LetGo(w)
  /\ GivenUp(w)
  /\ UNCHANGED <<attempts, reviewed, outlived, crashes>>

(* The process dies; a retry that cannot reach the database comes to the   *)
(* same, since its rejection is swallowed by drain.                        *)
Crash(w) ==
  /\ Busy(w)
  /\ crashes < MaxCrashes
  /\ crashes' = crashes + 1
  /\ LetGo(w)
  /\ GivenUp(w)
  /\ UNCHANGED <<taskVars, reviewed, outlived>>

Job(w) == Review(w) \/ List(w) \/ Publish(w) \/ Complete(w) \/ Fail(w)

Next ==
  \/ \E t \in Task : LeaseEnds(t) \/ BackoffEnds(t) \/ Supersede(t)
  \/ \E c \in Commit : OthersReview(c) \/ OthersCheckRun(c)
  \/ \E request \in onWire : ApplyLate(request)
  \/ \E w \in Worker : \/ \E t \in Task : Claim(w, t)
                       \/ Review(w) \/ List(w) \/ Publish(w) \/ Complete(w) \/ Fail(w)
                       \/ Crash(w)

(* Time passes, every await of a job settles, and the poll timer of drain  *)
(* finds what can be claimed.                                              *)
Fairness ==
  /\ \A t \in Task : WF_vars(LeaseEnds(t)) /\ WF_vars(BackoffEnds(t))
  /\ \A w \in Worker : WF_vars(Job(w)) /\ WF_vars(\E t \in Task : Claim(w, t))

Spec == Init /\ [][Next]_vars /\ Fairness

----------------------------------------------------------------------------
(* Properties.                                                             *)

Settled(t) == status[t] \in {"COMPLETED", "FAILED", "SUPERSEDED"}

(* A completed task has a Check Run, though the worker that completes it   *)
(* need not be the one that holds its lease.                               *)
CompletedHasCheckRun == \A t \in Task : status[t] = "COMPLETED" => checkRuns[t] > 0

(* However its jobs fail, crash and are repeated, no second Check Run of a *)
(* task is created while its own is sure to be listed, unless a job of it  *)
(* outlived its lease or a request its job (publishCheckRun).              *)
OneCheckRun ==
  [][\A t \in Task \ outlived' :
       checkRuns'[t] > checkRuns[t] => checkRuns[t] = 0 \/ newest[CommitOf[t]] # t]_vars

(* With the same exception the Check Run of a completed task shows the     *)
(* review on record, not that of an earlier attempt, unless the review on  *)
(* record is by now that of another run or of a request.                   *)
CheckRunShowsReview ==
  \A t \in Task \ outlived :
    status[t] = "COMPLETED" /\ reviewed[CommitOf[t]].by = t
      => shown[t] = reviewed[CommitOf[t]].claim

(* Every task is completed, given up or superseded in the end, whatever    *)
(* fails and however workers die.                                          *)
EveryTaskSettles == \A t \in Task : <>Settled(t)

=============================================================================
