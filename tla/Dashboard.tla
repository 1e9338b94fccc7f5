----------------------------- MODULE Dashboard ------------------------------
(***************************************************************************)
(* The management dashboard in a browser, and the service answering its    *)
(* requests one query at a time.  The page allows one request at a time    *)
(* (setBusy), but its detail can be closed at any moment and any request   *)
(* may fail: refused, timed out, or answered with an error.                *)
(***************************************************************************)
EXTENDS ManagementReport

VARIABLES
  key,        \* whether the tab still holds the bearer token
  scope,      \* repositoryOwner/repositoryName of the access form, or None
  releases, nextCursor,   \* the history loaded so far
  selected,   \* selectedReleaseId
  detail,     \* the release whose evidence is on display, or None
  request,    \* the request under way, or None; state.busy
  known       \* what the repository held when the first page was read

pageVars == <<key, scope, releases, nextCursor, selected, detail, known>>

(* What a request was answered: a page of the history, or the evidence of  *)
(* a release as far as it has been read.                                   *)
ListAnswer == [releases : Seq(Release), nextCursor : Cursor \cup {None}]

DetailAnswer ==
  [summary : [status : Status, policy : Policy, outcome : Outcome],
   attempts : {None} \cup [attempts : Part, last : Attempt, observations : Part],
   audit : {None} \cup [auditEvents : Part]]

(* A request as it goes from the page to the service and through its      *)
(* queries: "view" is what its transaction sees, and what is "entitled"    *)
(* and "held" is kept for the properties: whether, as the request was      *)
(* sent, its credential was active and its repository granted.             *)
Request ==
  [kind : {"LIST", "DETAIL", "EVIDENCE"}, repository : Repository \cup {None},
   append : BOOLEAN, release : Release \cup {None}, cursor : Cursor \cup {None},
   bearer : BOOLEAN, entitled : BOOLEAN,
   stage : {"SENT", "AUTHENTICATED", "AUTHORIZED", "READ", "READ_ATTEMPTS", "READ_AUDIT", "ANSWERED"},
   view : Row \cup {None}, held : SUBSET Release,
   answer : {None} \cup ListAnswer \cup DetailAnswer]

ASSUME DashboardAssumption == None \notin Request

DashboardTypeOK ==
  /\ key \in BOOLEAN
  /\ scope \in Repository \cup {None}
  /\ releases \in Seq(Release)
  /\ nextCursor \in Cursor \cup {None}
  /\ selected \in Release \cup {None}
  /\ detail \in Release \cup {None}
  /\ request \in Request \cup {None}
  /\ known \subseteq Release

DashboardInit ==
  /\ key = FALSE /\ scope = None
  /\ releases = <<>> /\ nextCursor = None
  /\ selected = None /\ detail = None
  /\ request = None
  /\ known = {}

Busy == request # None

----------------------------------------------------------------------------
(* The page. *)

Send(bearer, kind, repository, append, release) ==
  request' = [kind |-> kind, repository |-> repository, append |-> append, release |-> release,
              cursor |-> IF append THEN nextCursor ELSE None,
              bearer |-> bearer, entitled |-> Entitled(repository),
              stage |-> "SENT", view |-> None, held |-> {}, answer |-> None]

(* The access form; its only button is disabled while a request is out. *)
SubmitAccess(repository) ==
  /\ ~Busy
  /\ key' = TRUE /\ scope' = repository
  /\ nextCursor' = None /\ selected' = None /\ detail' = None
  /\ Send(TRUE, "LIST", repository, FALSE, None)
  /\ UNCHANGED <<releases, known>>

(* loadReleases(true); the button is hidden at the end of the history. *)
LoadOlder ==
  /\ ~Busy /\ nextCursor # None
  /\ Send(key, "LIST", scope, TRUE, None)
  /\ UNCHANGED pageVars

(* loadReleaseDetail, from a release's card *)
OpenDetail(r) ==
  /\ ~Busy /\ key
  /\ \E i \in DOMAIN releases : releases[i] = r
  /\ selected' = r
  /\ Send(key, "DETAIL", scope, FALSE, r)
  /\ UNCHANGED <<key, scope, releases, nextCursor, detail, known>>

(* closeDetail, by its button or the Escape key, both only while it shows. *)
CloseDetail ==
  /\ detail # None
  /\ selected' = None /\ detail' = None
  /\ UNCHANGED <<key, scope, releases, nextCursor, request, known>>

(* downloadEvidence; its button is part of the detail. *)
DownloadEvidence ==
  /\ ~Busy /\ key /\ selected # None /\ detail # None
  /\ Send(key, "EVIDENCE", scope, FALSE, selected)
  /\ UNCHANGED pageVars

ClearAccess ==
  /\ ~Busy /\ scope # None
  /\ key' = FALSE /\ scope' = None
  /\ releases' = <<>> /\ nextCursor' = None
  /\ selected' = None /\ detail' = None
  /\ UNCHANGED <<request, known>>

(* pagehide; the browser may bring the page back as it was. *)
HidePage ==
  /\ key /\ key' = FALSE
  /\ UNCHANGED <<scope, releases, nextCursor, selected, detail, request, known>>

----------------------------------------------------------------------------
(* The service. *)

At(stage) == Busy /\ request.stage = stage

Advance(stage) == request' = [request EXCEPT !.stage = stage]

(* Mutant: the credential is found whatever became of it. *)
AuthenticateAny ==
  /\ At("SENT") /\ request.bearer
  /\ Advance("AUTHENTICATED")
  /\ UNCHANGED pageVars

(* authenticateRequest: the credential is looked up ... *)
Authenticate ==
  /\ At("SENT") /\ request.bearer /\ credential
  /\ Advance("AUTHENTICATED")
  /\ UNCHANGED pageVars

(* Mutant: a detail is read without asking for access to its repository. *)
AuthorizeLists ==
  /\ At("AUTHENTICATED")
  /\ request.kind = "LIST" => request.repository \in granted
  /\ Advance("AUTHORIZED")
  /\ UNCHANGED pageVars

(* ... and assertRepositoryAccess asks for the repository alone, before    *)
(* the store is asked: the credential is not looked at again.              *)
Authorize ==
  /\ At("AUTHENTICATED")
  /\ request.repository \in granted
  /\ Advance("AUTHORIZED")
  /\ UNCHANGED pageVars

(* listReleases; what the repository holds is kept for the properties. *)
ReadList ==
  /\ At("AUTHORIZED") /\ request.kind = "LIST"
  /\ QueryParses(request.repository, request.cursor)
  /\ request' = [request EXCEPT !.stage = "ANSWERED",
       !.answer = Page(Rows(request.repository, request.cursor)),
       !.held = History(request.repository)]
  /\ UNCHANGED pageVars

(* Mutant: every query sees what is committed when it runs. *)
SeenNow == row[request.release]

(* REPEATABLE READ: every query sees what the first one saw. *)
Seen == request.view

(* getRelease: the first query of its transaction.  A release of another   *)
(* repository is not found.                                                *)
BeginDetail ==
  /\ At("AUTHORIZED") /\ request.kind # "LIST"
  /\ request.release \in History(request.repository)
  /\ request' = [request EXCEPT !.stage = "READ", !.view = row[request.release]]
  /\ UNCHANGED pageVars

ReadSummary ==
  /\ At("READ")
  /\ request' = [request EXCEPT !.stage = "READ_ATTEMPTS",
       !.answer = [summary |-> Summary(Seen), attempts |-> None, audit |-> None]]
  /\ UNCHANGED pageVars

ReadAttempts ==
  /\ At("READ_ATTEMPTS")
  /\ request' = [request EXCEPT !.stage = "READ_AUDIT", !.answer.attempts = AttemptSection(Seen)]
  /\ UNCHANGED pageVars

ReadAudit ==
  /\ At("READ_AUDIT")
  /\ request' = [request EXCEPT !.stage = "ANSWERED", !.answer.audit = AuditSection(Seen)]
  /\ UNCHANGED pageVars

----------------------------------------------------------------------------
(* The answers. *)

ShowList ==
  /\ At("ANSWERED") /\ request.kind = "LIST"
  /\ releases' = IF request.append THEN releases \o request.answer.releases ELSE request.answer.releases
  /\ nextCursor' = request.answer.nextCursor
  /\ known' = IF request.append THEN known ELSE request.held
  /\ request' = None
  /\ UNCHANGED <<key, scope, selected, detail>>

(* Only if the release is still the one selected. *)
ShowDetail ==
  /\ At("ANSWERED") /\ request.kind = "DETAIL"
  /\ detail' = IF selected = request.release THEN selected ELSE detail
  /\ request' = None
  /\ UNCHANGED <<key, scope, releases, nextCursor, selected, known>>

(* The file is saved, whether or not the detail is still on display. *)
SaveEvidence ==
  /\ At("ANSWERED") /\ request.kind = "EVIDENCE"
  /\ request' = None
  /\ UNCHANGED pageVars

(* An error answer, an aborted fetch, an unreadable body: at any stage.    *)
Fail ==
  /\ Busy
  /\ request' = None
  /\ IF request.kind = "LIST" /\ ~request.append
     THEN releases' = <<>> /\ nextCursor' = None /\ selected' = None /\ detail' = None
     ELSE UNCHANGED <<releases, nextCursor, selected, detail>>
  /\ UNCHANGED <<key, scope, known>>

Browse ==
  \/ \E repository \in Repository : SubmitAccess(repository)
  \/ LoadOlder \/ (\E r \in Release : OpenDetail(r)) \/ CloseDetail \/ DownloadEvidence
  \/ ClearAccess \/ HidePage
  \/ Authenticate \/ Authorize \/ ReadList \/ BeginDetail \/ ReadSummary \/ ReadAttempts \/ ReadAudit
  \/ ShowList \/ ShowDetail \/ SaveEvidence \/ Fail

----------------------------------------------------------------------------
(* Properties. *)

(* "Descending creation order" across pages read while releases are        *)
(* created: a history never repeats or reorders a release, and is of the   *)
(* repository asked for.  (While another repository is loaded the old       *)
(* history stays on display, out of use.)                                  *)
HistoryIsOrdered ==
  ~Busy => \A i \in DOMAIN releases :
    /\ RepositoryOf[releases[i]] = scope
    /\ i > 1 => Precedes(releases[i - 1], releases[i])

SharesMillisecond(r) ==
  \E i \in DOMAIN releases : IsoDateTime(row[releases[i]].at) = IsoDateTime(row[r].at)

(* At the end of the history every release is on it that the repository    *)
(* held when its first page was read, however long the pages were apart -  *)
(* but for one created in the millisecond of another that is: the cursor   *)
(* forgets microseconds, and the next page begins before the millisecond.  *)
HistoryIsWhole ==
  ~Busy /\ releases # <<>> /\ nextCursor = None =>
    \A r \in known : (\E i \in DOMAIN releases : releases[i] = r) \/ SharesMillisecond(r)

One(condition) == IF condition THEN 1 ELSE 0

(* What an attempt that is over may have left as its release's outcome,    *)
(* which a later review that blocks, and its outcome, overwrites.          *)
OutcomesOf(attempt) ==
  {attempt, "BLOCKED"} \cup (IF attempt = "PROMOTED" THEN {"CONTINUED"} ELSE {})

(* The sections of a detail are read by several queries but tell of one    *)
(* moment: whatever is reviewed, deployed, closed or superseded meanwhile, *)
(* the status and outcome of the first query agree with the attempts of a  *)
(* later one, and unless it is cut off the audit trail of the last has the *)
(* events that led there.  (A release may be REVIEWED, or COMPLETED by a    *)
(* blocked outcome, beside an active attempt: the lifecycle allows it.)     *)
DetailIsOfOneMoment ==
  At("ANSWERED") /\ request.kind # "LIST" =>
    LET status   == request.answer.summary.status
        outcome  == request.answer.summary.outcome
        attempts == request.answer.attempts.attempts
        last     == request.answer.attempts.last
        observed == request.answer.attempts.observations
        trail    == request.answer.audit.auditEvents
    IN  /\ ~attempts.truncated =>
             /\ status = "DEPLOYING" => last \in Active
             /\ status \in {"PENDING", "CANCELLED", "SUPERSEDED"} => last \notin Active
             /\ status = "COMPLETED" /\ outcome # "BLOCKED" => last \notin Active \cup {None}
             /\ last \in {"PROMOTED", "ROLLED_BACK", "FAILED"} => outcome \in OutcomesOf(last)
        /\ ~trail.truncated =>
             trail.items >=
               One(request.answer.summary.policy # None) + attempts.items
                 + observed.items + One(outcome # None)

(* Nothing is answered to a caller whose credential was no longer active,  *)
(* or whose tenant no longer had the repository, when the request was      *)
(* sent: neither check is made again, and each is needed for its half.     *)
AnswerIsEntitled == At("ANSWERED") => request.entitled

(* "From a release detail view, Download JSON evidence exports a versioned *)
(* artifact containing the same bounded normalized evidence": what is      *)
(* asked for is the release on display.                                    *)
DownloadIsOfDetail ==
  [][~Busy /\ Busy' /\ request'.kind = "EVIDENCE" => request'.release = detail]_<<pageVars, request>>

=============================================================================
