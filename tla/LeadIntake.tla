----------------------------- MODULE LeadIntake -----------------------------
(***************************************************************************)
(* POST /customer-leads: DefaultCustomerLeadController stamps a submission *)
(* with its service's clock and PostgresCustomerLeadStore.createLead       *)
(* decides on it some time later, one submission at a time under an        *)
(* advisory lock.  Submissions of several services are therefore decided   *)
(* in an order that need not be that of their stamps, and a client whose   *)
(* answer was lost sends its token again.                                  *)
(*                                                                         *)
(* A payload is told by the mailbox it names and by the spelling of the    *)
(* address, which stands for all else that its digest covers.  Operators   *)
(* delete leads whose retention deadline has passed: this is external.     *)
(***************************************************************************)
EXTENDS Integers, FiniteSets

CONSTANTS
  Token, Mailbox, Spelling, None,
  Hour, Day,              \* the two windows, in ticks of the clock
  Retention,              \* 180 days
  TotalQuota, EmailQuota, \* 120 and 3 in the code
  MaxTime, MaxSubmitted,  \* bounds on the clock, on the submissions in
  MaxReceived             \* flight and on the receipts that are looked at,
                          \* for model checking

Payload == [mailbox : Mailbox, spelling : Spelling]
Time    == 0 .. MaxTime
Lead    == [payload : Payload, at : Time]

ASSUME IntakeAssumption ==
  /\ IsFiniteSet(Token)
  /\ Hour \in Nat /\ Day \in Nat /\ Retention \in Nat /\ MaxTime \in Nat
  /\ TotalQuota \in Nat /\ EmailQuota \in Nat
  /\ None \notin Lead

VARIABLES
  clock,
  submitted,   \* stamped submissions that createLead has not decided
  leads,       \* customer_leads, by submission token
  received     \* history: the receipts that clients have got

vars == <<clock, submitted, leads, received>>

Submission == [token : Token, payload : Payload, at : Time]

(* RECEIVED, the submission it answers and the time it gives; whether the  *)
(* honeypot field was left empty.                                          *)
Receipt == [token : Token, payload : Payload, at : Time, genuine : BOOLEAN]

TypeOK ==
  /\ clock \in Time
  /\ submitted \subseteq Submission
  /\ leads \in [Token -> Lead \cup {None}]
  /\ received \subseteq Receipt

Init ==
  /\ clock = 0
  /\ submitted = {}
  /\ leads = [t \in Token |-> None]
  /\ received = {}

----------------------------------------------------------------------------

Tick ==
  /\ clock < MaxTime
  /\ clock' = clock + 1
  /\ UNCHANGED <<submitted, leads, received>>

(* The answer may be lost, and beyond the bound it is not looked at. *)
Answer(receipt) ==
  \/ UNCHANGED received
  \/ /\ Cardinality(received) < MaxReceived
     /\ received' = received \cup {receipt}

(* submitLead: a submission that fills in the honeypot field never reaches *)
(* the store and is answered as if it had.                                 *)
Submit(t, p, genuine) ==
  /\ IF genuine
     THEN /\ Cardinality(submitted) < MaxSubmitted
          /\ submitted' = submitted \cup {[token |-> t, payload |-> p, at |-> clock]}
          /\ UNCHANGED received
     ELSE /\ Answer([token |-> t, payload |-> p, at |-> clock, genuine |-> FALSE])
          /\ UNCHANGED submitted
  /\ UNCHANGED <<clock, leads>>

Recorded(t) == leads[t] # None

(* Mutant: leads stamped after the submission are not counted. *)
RecentUpToNow(at, window) == {t \in Token : Recorded(t) /\ leads[t].at \in at - window .. at}

(* submitted_at >= $1 - interval: also the leads stamped later. *)
Recent(at, window) == {t \in Token : Recorded(t) /\ leads[t].at >= at - window}

(* Mutant: the address is compared as it is spelled. *)
SameAddressSpelled(p, q) == p.mailbox = q.mailbox /\ p.spelling = q.spelling

(* lower(work_email) *)
SameAddress(p, q) == p.mailbox = q.mailbox

WithinQuota(s) ==
  /\ Cardinality(Recent(s.at, Hour)) < TotalQuota
  /\ Cardinality({t \in Recent(s.at, Day) : SameAddress(leads[t].payload, s.payload)}) < EmailQuota

(* Mutant: the payload of a known token is not compared. *)
IsReplayAnyPayload(s) == Recorded(s.token)

IsReplay(s) == Recorded(s.token) /\ leads[s.token].payload = s.payload

(* The lead, or the lead of an earlier submission of the token, whose time *)
(* the client is told.                                                     *)
Create(s) ==
  /\ s \in submitted
  /\ \/ IsReplay(s) /\ UNCHANGED leads
     \/ /\ ~Recorded(s.token)
        /\ WithinQuota(s)
        /\ leads' = [leads EXCEPT ![s.token] = [payload |-> s.payload, at |-> s.at]]
  /\ Answer([token |-> s.token, payload |-> s.payload, at |-> leads'[s.token].at, genuine |-> TRUE])
  /\ submitted' = submitted \ {s}
  /\ UNCHANGED clock

(* 409 or 429. *)
Refuse(s) ==
  /\ s \in submitted
  /\ ~IsReplay(s)
  /\ Recorded(s.token) \/ ~WithinQuota(s)
  /\ submitted' = submitted \ {s}
  /\ UNCHANGED <<clock, leads, received>>

(* The service or the connection fails before the commit. *)
Lose(s) ==
  /\ s \in submitted
  /\ submitted' = submitted \ {s}
  /\ UNCHANGED <<clock, leads, received>>

(* An operator deletes the lead, no sooner than its deadline. *)
Delete(t) ==
  /\ Recorded(t)
  /\ clock >= leads[t].at + Retention
  /\ leads' = [leads EXCEPT ![t] = None]
  /\ UNCHANGED <<clock, submitted, received>>

Next ==
  \/ Tick
  \/ \E t \in Token, p \in Payload, genuine \in BOOLEAN : Submit(t, p, genuine)
  \/ \E t \in Token : Delete(t)
  \/ \E s \in submitted : Create(s) \/ Refuse(s) \/ Lose(s)

Spec == Init /\ [][Next]_vars

----------------------------------------------------------------------------
(* Properties. *)

InWindow(x, window) == {t \in Token : Recorded(t) /\ leads[t].at \in x .. x + window}

(* "120 new requests per rolling hour globally": no hour, wherever it      *)
(* begins, holds more leads than the quota, though leads are recorded out  *)
(* of the order of their stamps.                                           *)
HourlyQuota == \A x \in Time : Cardinality(InWindow(x, Hour)) <= TotalQuota

(* "Three per work email per rolling day", however the address is spelled. *)
DailyQuota ==
  \A x \in Time, m \in Mailbox :
    Cardinality({t \in InWindow(x, Day) : leads[t].payload.mailbox = m}) <= EmailQuota

(* A client that was told RECEIVED has exactly its payload on record, with *)
(* the time it was told, until the retention deadline of the lead: neither *)
(* another client's payload under its token nor a repeated submission      *)
(* replaces it.  What the honeypot discards is answered alike and promises *)
(* nothing.                                                                *)
ReceivedIsRecorded ==
  \A r \in received :
    r.genuine /\ clock < r.at + Retention => leads[r.token] = [payload |-> r.payload, at |-> r.at]

=============================================================================
