------------------------ MODULE WorkflowQueueProofs ------------------------
(***************************************************************************)
(* Proofs about WorkflowQueue for any tasks, workers and bounds.  The      *)
(* inductive invariant says what each phase of a job has already done and, *)
(* while no job of it has outlived its lease, that a task in progress      *)
(* belongs to the one worker whose claim is its latest.                    *)
(***************************************************************************)
EXTENDS WorkflowQueue, TLAPS

(* What a job has done by its phase, whoever else works on its task. *)
JobPublishes ==
  /\ \A w \in Worker :
       phase[w] = "PUBLISHED" \/ (phase[w] = "LISTED" /\ found[w]) => checkRuns[holds[w]] > 0
  /\ \A t \in Task : status[t] = "COMPLETED" => checkRuns[t] > 0

(* Who holds a task no job of which outlived its lease. *)
HolderIsCurrent ==
  \A w \in Worker, t \in Task \ outlived :
    HeldBy(w, t) => /\ status[t] \in {"PROCESSING", "SUPERSEDED"}
                    /\ status[t] = "PROCESSING" => leased[t]
                    /\ count[w] = attempts[t]

OneHolder ==
  \A w, v \in Worker, t \in Task \ outlived : HeldBy(w, t) /\ HeldBy(v, t) => w = v

(* What a job knows of GitHub and of the record while it is the only one. *)
JobIsAlone ==
  \A w \in Worker :
    holds[w] \notin outlived =>
      /\ phase[w] = "LISTED" /\ ~found[w] =>
           checkRuns[holds[w]] = 0 \/ newest[CommitOf[holds[w]]] # holds[w]
      /\ phase[w] \in {"REVIEWED", "LISTED", "PUBLISHED"} =>
           LET review == reviewed[CommitOf[holds[w]]]
           IN  review.by = holds[w] => review.claim = count[w]
      /\ phase[w] = "PUBLISHED" => shown[holds[w]] = count[w]

AloneInv ==
  HolderIsCurrent /\ OneHolder /\ JobIsAlone /\ CheckRunShowsReview

QueueInv == TypeOK /\ JobPublishes /\ AloneInv

----------------------------------------------------------------------------
Statuses == {"PENDING", "PROCESSING", "COMPLETED", "FAILED", "SUPERSEDED"}

(* What a worker that ends its job does to the rows and to itself. *)
LEMMA SettleTypes ==
  ASSUME TypeOK, NEW t \in Task, NEW s \in Statuses, Settle(t, s)
  PROVE  status' \in [Task -> Statuses] /\ leased' \in [Task -> BOOLEAN]
BY DEF TypeOK, Settle, Statuses

LEMMA LetGoTypes ==
  ASSUME TypeOK, NEW w \in Worker, LetGo(w)
  PROVE  /\ phase' \in [Worker -> Phases] /\ holds' \in [Worker -> Task \cup {None}]
         /\ count' \in [Worker -> Nat] /\ found' \in [Worker -> BOOLEAN]
         /\ \A v \in Worker : phase'[v] = "IDLE" <=> holds'[v] = None
BY DEF TypeOK, LetGo, Phases

LEMMA GivenUpTypes ==
  ASSUME TypeOK, NEW w \in Worker, GivenUp(w), holds[w] \in Task
  PROVE  /\ onWire' \subseteq [task : Task, claim : Nat, found : BOOLEAN]
         /\ UNCHANGED <<checkRuns, shown, newest>>
BY DEF TypeOK, GivenUp

LEMMA BusyHolds ==
  ASSUME TypeOK, NEW w \in Worker, phase[w] # "IDLE"
  PROVE  holds[w] \in Task
BY DEF TypeOK

(* Every type conjunct holds after every step. *)
LEMMA QueueTypes ==
  ASSUME TypeOK, [Next]_vars
  PROVE  TypeOK'
<1> USE QueueAssumption
<1>1. ASSUME NEW t \in Task, LeaseEnds(t) \/ BackoffEnds(t) \/ Supersede(t)
      PROVE  TypeOK'
  <2>1. /\ status' \in [Task -> Statuses] /\ due' \in [Task -> BOOLEAN]
        /\ leased' \in [Task -> BOOLEAN]
    <3>1. CASE LeaseEnds(t)
      <4>1. leased' = [leased EXCEPT ![t] = FALSE] /\ UNCHANGED <<status, due>>
        BY <3>1 DEF LeaseEnds
      <4> QED  BY <4>1 DEF TypeOK, Statuses
    <3>2. CASE BackoffEnds(t)
      BY <3>2 DEF TypeOK, BackoffEnds, Statuses
    <3>3. CASE Supersede(t)
      BY <3>3 DEF TypeOK, Supersede, Statuses
    <3> QED  BY <1>1, <3>1, <3>2, <3>3
  <2>2. outlived' \subseteq Task
    BY <1>1 DEF TypeOK, LeaseEnds, BackoffEnds, Supersede
  <2>3. UNCHANGED <<attempts, jobVars, reviewed, githubVars, crashes>>
    BY <1>1 DEF LeaseEnds, BackoffEnds, Supersede
  <2> QED  BY <2>1, <2>2, <2>3 DEF TypeOK, Statuses, jobVars, githubVars
<1>2. ASSUME NEW w \in Worker, NEW t \in Task, Claim(w, t)
      PROVE  TypeOK'
  BY <1>2 DEF TypeOK, Claim, Phases, githubVars
<1>3. ASSUME NEW w \in Worker, Review(w)
      PROVE  TypeOK'
  <2>1. holds[w] \in Task /\ count[w] \in Nat
    BY <1>3, BusyHolds DEF TypeOK, Review
  <2>2. reviewed' \in [Commit -> [by : Task \cup {None}, claim : Nat]]
    BY <1>3, <2>1 DEF TypeOK, Review
  <2> QED  BY <1>3, <2>2 DEF TypeOK, Review, Phases, taskVars, githubVars
<1>4. ASSUME NEW w \in Worker, List(w)
      PROVE  TypeOK'
  BY <1>4 DEF TypeOK, List, Phases, taskVars, githubVars
<1>5. ASSUME NEW w \in Worker, Publish(w)
      PROVE  TypeOK'
  <2>1. holds[w] \in Task
    BY <1>5, BusyHolds DEF Publish
  <2>2. newest' \in [Commit -> Task \cup {None}]
    BY <1>5, <2>1 DEF TypeOK, Publish, NewestAfter
  <2>3. checkRuns' \in [Task -> Nat] /\ shown' \in [Task -> Nat]
    BY <1>5, <2>1 DEF TypeOK, Publish
  <2>4. phase' \in [Worker -> Phases] /\ \A v \in Worker : phase'[v] = "IDLE" <=> phase[v] = "IDLE"
    BY <1>5 DEF TypeOK, Publish, Phases
  <2>5. UNCHANGED <<taskVars, holds, count, found, reviewed, onWire, outlived, crashes>>
    BY <1>5 DEF Publish
  <2> QED  BY <2>2, <2>3, <2>4, <2>5 DEF TypeOK, taskVars
<1>6. ASSUME NEW w \in Worker, Complete(w) \/ Fail(w) \/ Crash(w)
      PROVE  TypeOK'
  <2>1. LetGo(w) /\ holds[w] \in Task
    BY <1>6, BusyHolds DEF Complete, Fail, Crash, Busy
  <2>2. CASE Complete(w)
    <3>1. Settle(holds[w], "COMPLETED")
      BY <2>2 DEF Complete
    <3> QED  BY <2>1, <2>2, <3>1, SettleTypes, LetGoTypes DEF TypeOK, Complete, Statuses, githubVars
  <2>3. CASE Fail(w)
    <3>1. PICK s \in {"FAILED", "PENDING"} : Settle(holds[w], s)
      BY <2>3 DEF Fail
    <3>2. due' \in [Task -> BOOLEAN]
      BY <2>3 DEF TypeOK, Fail
    <3>3. GivenUp(w)
      BY <2>3 DEF Fail
    <3>4. UNCHANGED <<attempts, reviewed, outlived, crashes>>
      BY <2>3 DEF Fail
    <3>5. status' \in [Task -> Statuses] /\ leased' \in [Task -> BOOLEAN]
      BY <2>1, <3>1, SettleTypes DEF Statuses
    <3> QED
      BY <2>1, <3>2, <3>3, <3>4, <3>5, LetGoTypes, GivenUpTypes DEF TypeOK, Statuses
  <2>4. CASE Crash(w)
    <3>1. GivenUp(w)
      BY <2>4 DEF Crash
    <3>2. crashes' \in 0 .. MaxCrashes /\ UNCHANGED <<taskVars, reviewed, outlived>>
      BY <2>4 DEF TypeOK, Crash
    <3> QED  BY <2>1, <3>1, <3>2, LetGoTypes, GivenUpTypes DEF TypeOK, taskVars
  <2> QED  BY <1>6, <2>2, <2>3, <2>4
<1>7. CASE UNCHANGED vars
  BY <1>7 DEF TypeOK, vars, taskVars, jobVars, githubVars
<1>8. ASSUME NEW c \in Commit, OthersReview(c) \/ OthersCheckRun(c)
      PROVE  TypeOK'
  <2>1. reviewed' \in [Commit -> [by : Task \cup {None}, claim : Nat]]
    BY <1>8 DEF TypeOK, OthersReview, OthersCheckRun, Unreviewed
  <2>2. newest' \in [Commit -> Task \cup {None}]
    BY <1>8 DEF TypeOK, OthersReview, OthersCheckRun, githubVars
  <2>3. UNCHANGED <<taskVars, jobVars, checkRuns, shown, onWire, outlived, crashes>>
    BY <1>8 DEF OthersReview, OthersCheckRun, githubVars
  <2> QED  BY <2>1, <2>2, <2>3 DEF TypeOK, taskVars, jobVars
<1>9. ASSUME NEW request \in onWire, ApplyLate(request)
      PROVE  TypeOK'
  <2>1. request.task \in Task /\ request.claim \in Nat
    BY DEF TypeOK
  <2>2. newest' \in [Commit -> Task \cup {None}]
    BY <1>9, <2>1 DEF TypeOK, ApplyLate, NewestAfter
  <2>3. checkRuns' \in [Task -> Nat] /\ shown' \in [Task -> Nat]
    BY <1>9, <2>1 DEF TypeOK, ApplyLate
  <2>4. /\ onWire' \subseteq [task : Task, claim : Nat, found : BOOLEAN]
        /\ outlived' \subseteq Task
    BY <1>9, <2>1 DEF TypeOK, ApplyLate
  <2>5. UNCHANGED <<taskVars, jobVars, reviewed, crashes>>
    BY <1>9 DEF ApplyLate
  <2> QED  BY <2>2, <2>3, <2>4, <2>5 DEF TypeOK, taskVars, jobVars
<1> QED  BY <1>1, <1>2, <1>3, <1>4, <1>5, <1>6, <1>7, <1>8, <1>9 DEF Next

(* A job's Check Run exists once it is published, and Check Runs stay. *)
LEMMA QueuePublishes ==
  ASSUME TypeOK, JobPublishes, [Next]_vars
  PROVE  JobPublishes'
<1>1. ASSUME NEW t \in Task, LeaseEnds(t) \/ BackoffEnds(t) \/ Supersede(t)
      PROVE  JobPublishes'
  BY <1>1 DEF TypeOK, JobPublishes, LeaseEnds, BackoffEnds, Supersede, jobVars, githubVars
<1>2. ASSUME NEW w \in Worker, NEW t \in Task, Claim(w, t)
      PROVE  JobPublishes'
  BY <1>2 DEF TypeOK, JobPublishes, Claim, githubVars
<1>3. ASSUME NEW w \in Worker, Review(w) \/ List(w)
      PROVE  JobPublishes'
  BY <1>3 DEF TypeOK, JobPublishes, Review, List, Listed, taskVars, githubVars
<1>4. ASSUME NEW w \in Worker, Publish(w)
      PROVE  JobPublishes'
  <2>1. PICK t \in Task : holds[w] = t
    BY <1>4, BusyHolds DEF Publish
  <2>2. /\ phase[w] = "LISTED" /\ phase' = [phase EXCEPT ![w] = "PUBLISHED"]
        /\ UNCHANGED <<status, holds, found>>
        /\ checkRuns' = [checkRuns EXCEPT ![t] = IF found[w] THEN @ ELSE @ + 1]
    BY <1>4, <2>1 DEF Publish, taskVars
  <2>3. checkRuns'[t] > 0 /\ \A r \in Task : checkRuns[r] > 0 => checkRuns'[r] > 0
    BY <2>1, <2>2 DEF TypeOK, JobPublishes
  <2> QED  BY <2>1, <2>2, <2>3, BusyHolds DEF TypeOK, JobPublishes
<1>5. ASSUME NEW w \in Worker, Complete(w) \/ Fail(w) \/ Crash(w)
      PROVE  JobPublishes'
  <2>1. /\ \A v \in Worker : phase'[v] # "IDLE" =>
             phase'[v] = phase[v] /\ holds'[v] = holds[v] /\ found'[v] = found[v]
        /\ UNCHANGED checkRuns
    BY <1>5 DEF TypeOK, Complete, Fail, Crash, LetGo, GivenUp, githubVars
  <2>2. \A t \in Task : status'[t] = "COMPLETED" =>
          status[t] = "COMPLETED" \/ (phase[w] = "PUBLISHED" /\ holds[w] = t)
    BY <1>5 DEF TypeOK, Complete, Fail, Crash, Settle, taskVars
  <2> QED  BY <2>1, <2>2 DEF TypeOK, JobPublishes
<1>6. CASE UNCHANGED vars
  BY <1>6 DEF JobPublishes, vars, taskVars, jobVars, githubVars
<1>7. ASSUME NEW c \in Commit, OthersReview(c) \/ OthersCheckRun(c)
      PROVE  JobPublishes'
  BY <1>7 DEF JobPublishes, OthersReview, OthersCheckRun, taskVars, jobVars, githubVars
<1>8. ASSUME NEW request \in onWire, ApplyLate(request)
      PROVE  JobPublishes'
  <2>1. \A t \in Task : checkRuns[t] > 0 => checkRuns'[t] > 0
    BY <1>8 DEF TypeOK, ApplyLate
  <2>2. UNCHANGED <<status, phase, holds, found>>
    BY <1>8 DEF ApplyLate, taskVars, jobVars
  <2> QED  BY <2>1, <2>2, BusyHolds DEF JobPublishes
<1> QED  BY <1>1, <1>2, <1>3, <1>4, <1>5, <1>6, <1>7, <1>8 DEF Next

(* No Check Run of a completed task is missing, stale workers or not. *)
THEOREM CompletedHasCheckRunAlways == Spec => []CompletedHasCheckRun
<1>1. Init => TypeOK /\ JobPublishes
  BY QueueAssumption DEF Init, TypeOK, JobPublishes, Phases, Unreviewed
<1>2. TypeOK /\ JobPublishes /\ [Next]_vars => (TypeOK /\ JobPublishes)'
  BY QueueTypes, QueuePublishes
<1>3. TypeOK /\ JobPublishes => CompletedHasCheckRun
  BY DEF JobPublishes, CompletedHasCheckRun
<1> QED  BY <1>1, <1>2, <1>3, PTL DEF Spec

----------------------------------------------------------------------------
(* Tasks no job of which outlived its lease: one step per action.          *)

LEMMA AloneTime ==
  ASSUME TypeOK, AloneInv, NEW t \in Task,
         LeaseEnds(t) \/ BackoffEnds(t) \/ Supersede(t)
  PROVE  AloneInv'
<1>1. /\ UNCHANGED <<attempts, jobVars, reviewed, githubVars>>
      /\ outlived \subseteq outlived'
  BY DEF LeaseEnds, BackoffEnds, Supersede
<1>2. OneHolder' /\ JobIsAlone'
  BY <1>1 DEF AloneInv, OneHolder, JobIsAlone, HeldBy, Busy, jobVars, githubVars
<1>3. CASE LeaseEnds(t)
  <2>1. \A w \in Worker : t \notin outlived' => ~HeldBy(w, t)
    BY <1>3 DEF LeaseEnds
  <2>2. HolderIsCurrent'
    BY <1>1, <1>3, <2>1 DEF TypeOK, LeaseEnds, AloneInv, HolderIsCurrent, HeldBy, Busy, jobVars
  <2>3. CheckRunShowsReview'
    BY <1>1, <1>3 DEF LeaseEnds, AloneInv, CheckRunShowsReview, githubVars
  <2> QED  BY <1>2, <2>2, <2>3 DEF AloneInv
<1>4. CASE BackoffEnds(t)
  BY <1>1, <1>2, <1>4 DEF BackoffEnds, AloneInv, HolderIsCurrent, CheckRunShowsReview, HeldBy, Busy,
                          jobVars, githubVars
<1>5. CASE Supersede(t)
  <2>1. HolderIsCurrent'
    BY <1>1, <1>5 DEF TypeOK, Supersede, AloneInv, HolderIsCurrent, HeldBy, Busy, jobVars
  <2>2. CheckRunShowsReview'
    BY <1>1, <1>5 DEF TypeOK, Supersede, AloneInv, CheckRunShowsReview, githubVars
  <2> QED  BY <1>2, <2>1, <2>2 DEF AloneInv
<1> QED  BY <1>3, <1>4, <1>5

(* What others do on the commit only lets go of what a job relies on. *)
LEMMA AloneOthers ==
  ASSUME TypeOK, AloneInv, NEW c \in Commit, OthersReview(c) \/ OthersCheckRun(c)
  PROVE  AloneInv'
<1> USE QueueAssumption
<1>1. UNCHANGED <<taskVars, jobVars, checkRuns, shown, outlived>>
  BY DEF OthersReview, OthersCheckRun, githubVars
<1>2. HolderIsCurrent' /\ OneHolder'
  BY <1>1 DEF AloneInv, HolderIsCurrent, OneHolder, HeldBy, Busy, taskVars, jobVars
<1>3. \A t \in Task : newest'[CommitOf[t]] = t => newest[CommitOf[t]] = t
  BY DEF TypeOK, OthersReview, OthersCheckRun, githubVars
<1>4. \A t \in Task : reviewed'[CommitOf[t]].by = t => reviewed'[CommitOf[t]] = reviewed[CommitOf[t]]
  BY DEF TypeOK, OthersReview, OthersCheckRun, Unreviewed
<1>5. JobIsAlone'
  BY <1>1, <1>3, <1>4, BusyHolds DEF AloneInv, JobIsAlone, taskVars, jobVars
<1>6. CheckRunShowsReview'
  BY <1>1, <1>4 DEF AloneInv, CheckRunShowsReview, taskVars
<1> QED  BY <1>2, <1>5, <1>6 DEF AloneInv

(* A publication that is applied late only concerns a task that is no      *)
(* longer looked at.                                                       *)
LEMMA AloneLate ==
  ASSUME TypeOK, AloneInv, NEW request \in onWire, ApplyLate(request)
  PROVE  AloneInv'
<1> USE QueueAssumption
<1> DEFINE t == request.task
<1>1. t \in Task
  BY DEF TypeOK
<1>2. UNCHANGED <<taskVars, jobVars, reviewed>> /\ outlived' = outlived \cup {t}
  BY DEF ApplyLate
<1>3. \A r \in Task \ {t} : /\ checkRuns'[r] = checkRuns[r] /\ shown'[r] = shown[r]
                            /\ newest'[CommitOf[r]] = r => newest[CommitOf[r]] = r
  BY <1>1 DEF TypeOK, ApplyLate, NewestAfter
<1>4. HolderIsCurrent' /\ OneHolder'
  BY <1>2 DEF AloneInv, HolderIsCurrent, OneHolder, HeldBy, Busy, taskVars, jobVars
<1>5. JobIsAlone'
  BY <1>2, <1>3, BusyHolds DEF AloneInv, JobIsAlone, jobVars
<1>6. CheckRunShowsReview'
  BY <1>2, <1>3 DEF AloneInv, CheckRunShowsReview, taskVars
<1> QED  BY <1>4, <1>5, <1>6 DEF AloneInv

LEMMA AloneClaim ==
  ASSUME TypeOK, AloneInv, NEW w \in Worker, NEW t \in Task, Claim(w, t)
  PROVE  AloneInv'
<1>1. t \notin outlived => \A v \in Worker : ~HeldBy(v, t)
  BY DEF Claim, Claimable, AloneInv, HolderIsCurrent
<1>2. /\ \A v \in Worker \ {w} : /\ phase'[v] = phase[v] /\ holds'[v] = holds[v]
                                 /\ count'[v] = count[v] /\ found'[v] = found[v]
      /\ phase'[w] = "CLAIMED" /\ holds'[w] = t /\ count'[w] = attempts'[t]
      /\ UNCHANGED outlived
  BY DEF TypeOK, Claim
<1>3. /\ \A r \in Task \ {t} : /\ status'[r] = status[r] /\ attempts'[r] = attempts[r]
                               /\ leased'[r] = leased[r]
      /\ status'[t] = "PROCESSING" /\ leased'[t]
  BY DEF TypeOK, Claim
<1>4. HolderIsCurrent' /\ OneHolder'
  BY <1>1, <1>2, <1>3, BusyHolds DEF AloneInv, HolderIsCurrent, OneHolder, HeldBy, Busy
<1>5. JobIsAlone' /\ CheckRunShowsReview'
  BY <1>2, <1>3 DEF Claim, AloneInv, JobIsAlone, CheckRunShowsReview, githubVars
<1> QED  BY <1>4, <1>5 DEF AloneInv

(* A step inside a job moves only that job's phase. *)
LEMMA AloneInside ==
  ASSUME TypeOK, AloneInv, NEW w \in Worker, Review(w) \/ List(w) \/ Publish(w)
  PROVE  AloneInv'
<1> USE QueueAssumption
<1>1. PICK t \in Task : HeldBy(w, t)
  BY BusyHolds DEF Review, List, Publish, HeldBy, Busy
<1>2. t \notin outlived => \A v \in Worker : holds[v] = t /\ phase[v] # "IDLE" => v = w
  BY <1>1 DEF AloneInv, OneHolder, HeldBy, Busy
<1>3. (t \notin outlived => status[t] # "COMPLETED") /\ holds[w] = t
  BY <1>1 DEF AloneInv, HolderIsCurrent, HeldBy
<1>4. /\ \A v \in Worker : phase'[v] = "IDLE" <=> phase[v] = "IDLE"
      /\ \A v \in Worker \ {w} : phase'[v] = phase[v] /\ found'[v] = found[v]
      /\ UNCHANGED <<taskVars, holds, count, outlived>>
  BY DEF TypeOK, Review, List, Publish
<1>5. HolderIsCurrent' /\ OneHolder'
  BY <1>4 DEF AloneInv, HolderIsCurrent, OneHolder, HeldBy, Busy, taskVars
<1>6. CASE Review(w)
  <2>1. /\ reviewed' = [reviewed EXCEPT ![CommitOf[t]] = [by |-> t, claim |-> count[w]]]
        /\ phase'[w] = "REVIEWED" /\ UNCHANGED githubVars
    BY <1>3, <1>6 DEF TypeOK, Review
  <2>2. \A r \in Task : reviewed'[CommitOf[r]].by = r =>
          \/ r = t /\ reviewed'[CommitOf[r]].claim = count[w]
          \/ r # t /\ reviewed'[CommitOf[r]] = reviewed[CommitOf[r]]
    BY <1>1, <2>1 DEF TypeOK
  <2>3. JobIsAlone'
    BY <1>2, <1>3, <1>4, <2>1, <2>2, BusyHolds DEF TypeOK, AloneInv, JobIsAlone, githubVars
  <2>4. CheckRunShowsReview'
    BY <1>3, <1>4, <2>1, <2>2 DEF AloneInv, CheckRunShowsReview, githubVars, taskVars
  <2> QED  BY <1>5, <2>3, <2>4 DEF AloneInv
<1>7. CASE List(w)
  <2>1. /\ phase[w] = "REVIEWED" /\ phase'[w] = "LISTED" /\ Listed(t, found'[w])
        /\ UNCHANGED <<reviewed, githubVars>>
    BY <1>3, <1>7 DEF TypeOK, List
  <2>2. JobIsAlone'
    BY <1>3, <1>4, <2>1 DEF TypeOK, AloneInv, JobIsAlone, Listed, githubVars
  <2>3. CheckRunShowsReview'
    BY <1>4, <2>1 DEF AloneInv, CheckRunShowsReview, githubVars, taskVars
  <2> QED  BY <1>5, <2>2, <2>3 DEF AloneInv
<1>8. CASE Publish(w)
  <2>1. /\ phase[w] = "LISTED" /\ phase'[w] = "PUBLISHED" /\ UNCHANGED reviewed
        /\ checkRuns' = [checkRuns EXCEPT ![t] = IF found[w] THEN @ ELSE @ + 1]
        /\ shown' = [shown EXCEPT ![t] = count[w]]
        /\ newest' = [newest EXCEPT ![CommitOf[t]] = NewestAfter(t, found[w])]
    BY <1>3, <1>8 DEF TypeOK, Publish
  <2>2. \A r \in Task \ {t} : checkRuns'[r] = checkRuns[r] /\ (newest'[CommitOf[r]] = r => newest[CommitOf[r]] = r)
    BY <1>3, <2>1 DEF TypeOK, NewestAfter
  <2>3. JobIsAlone'
    BY <1>2, <1>3, <1>4, <2>1, <2>2, BusyHolds DEF TypeOK, AloneInv, JobIsAlone
  <2>4. CheckRunShowsReview'
    BY <1>3, <1>4, <2>1 DEF TypeOK, AloneInv, CheckRunShowsReview, taskVars
  <2> QED  BY <1>5, <2>3, <2>4 DEF AloneInv
<1> QED  BY <1>6, <1>7, <1>8

(* A job that ends leaves its task to nobody. *)
LEMMA AloneEnd ==
  ASSUME TypeOK, AloneInv, NEW w \in Worker, Complete(w) \/ Fail(w) \/ Crash(w)
  PROVE  AloneInv'
<1>1. PICK t \in Task : HeldBy(w, t)
  BY BusyHolds DEF Complete, Fail, Crash, HeldBy, Busy
<1>2. /\ \A v \in Worker \ {w} : /\ phase'[v] = phase[v] /\ holds'[v] = holds[v]
                                 /\ count'[v] = count[v] /\ found'[v] = found[v]
      /\ phase'[w] = "IDLE" /\ UNCHANGED <<attempts, reviewed, checkRuns, shown, newest, outlived>>
  BY DEF TypeOK, Complete, Fail, Crash, LetGo, GivenUp, taskVars, githubVars
<1>3. \A r \in Task \ {t} : status'[r] = status[r] /\ leased'[r] = leased[r]
  BY <1>1 DEF TypeOK, Complete, Fail, Crash, Settle, HeldBy, taskVars
<1>4. t \notin outlived /\ status'[t] = "COMPLETED" /\ reviewed[CommitOf[t]].by = t
        => shown[t] = reviewed[CommitOf[t]].claim
  BY <1>1 DEF TypeOK, Complete, Fail, Crash, Settle, HeldBy, taskVars, AloneInv, JobIsAlone,
              CheckRunShowsReview
<1>5. HolderIsCurrent' /\ OneHolder'
  BY <1>1, <1>2, <1>3 DEF AloneInv, HolderIsCurrent, OneHolder, HeldBy, Busy
<1>6. JobIsAlone' /\ CheckRunShowsReview'
  BY <1>2, <1>3, <1>4 DEF AloneInv, JobIsAlone, CheckRunShowsReview
<1> QED  BY <1>5, <1>6 DEF AloneInv

LEMMA QueueInvariant == Spec => []QueueInv
<1>1. Init => QueueInv
  BY QueueAssumption DEF Init, QueueInv, TypeOK, JobPublishes, Phases, AloneInv, HolderIsCurrent,
     OneHolder, JobIsAlone, CheckRunShowsReview, HeldBy, Busy, Unreviewed
<1>2. QueueInv /\ [Next]_vars => QueueInv'
  <2> SUFFICES ASSUME QueueInv, [Next]_vars PROVE QueueInv'
    OBVIOUS
  <2>1. TypeOK' /\ JobPublishes'
    BY QueueTypes, QueuePublishes DEF QueueInv
  <2>2. CASE UNCHANGED vars
    <3>1. AloneInv'
      BY <2>2 DEF QueueInv, AloneInv, HolderIsCurrent, OneHolder, JobIsAlone,
         CheckRunShowsReview, HeldBy, Busy, vars, taskVars, jobVars, githubVars
    <3> QED  BY <2>1, <3>1 DEF QueueInv
  <2>3. CASE Next
    BY <2>1, <2>3, AloneTime, AloneOthers, AloneLate, AloneClaim, AloneInside, AloneEnd DEF QueueInv, Next
  <2> QED  BY <2>2, <2>3
<1> QED  BY <1>1, <1>2, PTL DEF Spec

(* As long as no job of it outlives its lease and no request its job, no   *)
(* second Check Run of a task is created while its own is sure to be       *)
(* listed (OneCheckRun), for any number of tasks on a commit, workers,     *)
(* failures and crashes, and whatever others publish there.                *)
THEOREM OneCheckRunAlways == Spec => OneCheckRun
<1>1. ASSUME QueueInv, [Next]_vars,
             NEW t \in Task \ outlived', checkRuns'[t] > checkRuns[t]
      PROVE  checkRuns[t] = 0 \/ newest[CommitOf[t]] # t
  <2>1. checkRuns' # checkRuns
    BY <1>1 DEF QueueInv, TypeOK
  <2>2. ASSUME NEW request \in onWire, ApplyLate(request)
        PROVE  FALSE
    BY <1>1, <2>2 DEF QueueInv, TypeOK, ApplyLate
  <2>3. PICK w \in Worker : Publish(w)
    BY <1>1, <2>1, <2>2 DEF Next, vars, githubVars, LeaseEnds, BackoffEnds, Supersede, OthersReview,
                            OthersCheckRun, Claim, Review, List, Complete, Fail, Crash, GivenUp
  <2>4. holds[w] = t /\ phase[w] = "LISTED" /\ ~found[w] /\ t \notin outlived
    BY <1>1, <2>3 DEF QueueInv, TypeOK, Publish
  <2> QED
    BY <1>1, <2>4 DEF QueueInv, AloneInv, JobIsAlone
<1>2. QueueInv /\ [Next]_vars =>
        [\A t \in Task \ outlived' :
           checkRuns'[t] > checkRuns[t] => checkRuns[t] = 0 \/ newest[CommitOf[t]] # t]_vars
  BY <1>1
<1> QED  BY <1>2, QueueInvariant, PTL DEF Spec, OneCheckRun

(* With the same exception the Check Run of a completed task shows the     *)
(* review on record, whichever attempt of the job completes it, unless     *)
(* another run or a request has replaced that review.                      *)
THEOREM CheckRunShowsReviewAlways == Spec => []CheckRunShowsReview
<1>1. QueueInv => CheckRunShowsReview
  BY DEF QueueInv, AloneInv
<1> QED  BY <1>1, QueueInvariant, PTL

=============================================================================
