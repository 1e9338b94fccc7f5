-------------------------- MODULE LeadIntakeProofs --------------------------
(***************************************************************************)
(* The quotas and receipts of LeadIntake, for any tokens, windows and      *)
(* quotas, and whatever the order in which submissions are decided.        *)
(***************************************************************************)
EXTENDS LeadIntake, FiniteSetTheorems, TLAPS

IInv == TypeOK /\ HourlyQuota /\ DailyQuota /\ ReceivedIsRecorded

(* The leads of mailbox m in the window that begins at x. *)
OfMailbox(x, m) == {t \in InWindow(x, Day) : leads[t].payload.mailbox = m}

LEMMA InitIInv == Init => IInv
<1> SUFFICES ASSUME Init PROVE IInv
  OBVIOUS
<1>1. TypeOK
  BY IntakeAssumption DEF IntakeAssumption, Init, TypeOK, Time
<1>2. \A t \in Token : ~Recorded(t)
  BY DEF Init, Recorded
<1>3. \A x \in Time : InWindow(x, Hour) = {} /\ InWindow(x, Day) = {}
  BY <1>2 DEF InWindow
<1>4. Cardinality({}) = 0
  BY FS_EmptySet
<1>5. HourlyQuota
  BY <1>3, <1>4, IntakeAssumption DEF IntakeAssumption, HourlyQuota
<1>6. ASSUME NEW x \in Time, NEW m \in Mailbox PROVE Cardinality(OfMailbox(x, m)) <= EmailQuota
  <2>1. OfMailbox(x, m) = {}
    BY <1>3 DEF OfMailbox
  <2>2. QED
    BY <2>1, <1>4, IntakeAssumption DEF IntakeAssumption
<1>7. DailyQuota
  BY <1>6 DEF DailyQuota, OfMailbox
<1>8. ReceivedIsRecorded
  BY DEF Init, ReceivedIsRecorded
<1>9. QED
  BY <1>1, <1>5, <1>7, <1>8 DEF IInv

(* A set of tokens that gains at most one element beyond a set smaller     *)
(* than the quota stays within the quota.                                  *)
LEMMA OneMore ==
  ASSUME NEW old \in SUBSET Token, NEW counted \in SUBSET Token, NEW new, NEW t \in Token,
         NEW quota \in Nat, old \subseteq counted, Cardinality(counted) < quota,
         new \subseteq old \cup {t}
  PROVE  Cardinality(new) <= quota
<1>1. IsFiniteSet(counted)
  BY IntakeAssumption, FS_Subset DEF IntakeAssumption
<1>2. IsFiniteSet(old) /\ Cardinality(old) <= Cardinality(counted)
  BY <1>1, FS_Subset
<1>3. IsFiniteSet(old \cup {t})
      /\ (Cardinality(old \cup {t}) = Cardinality(old) \/ Cardinality(old \cup {t}) = Cardinality(old) + 1)
  BY <1>2, FS_AddElement
<1>4. Cardinality(new) <= Cardinality(old \cup {t}) /\ IsFiniteSet(new)
  BY <1>3, FS_Subset
<1>5. Cardinality(old) \in Nat /\ Cardinality(counted) \in Nat /\ Cardinality(new) \in Nat
  BY <1>1, <1>2, <1>4, FS_CardinalityType
<1>6. QED
  BY <1>2, <1>3, <1>4, <1>5

(* Recording s keeps the quotas: every window that s falls into begins     *)
(* late enough for all that it holds to have been counted.                 *)
LEMMA RecordingKeepsQuotas ==
  ASSUME IInv, NEW s \in Submission, ~Recorded(s.token), WithinQuota(s),
         leads' = [leads EXCEPT ![s.token] = [payload |-> s.payload, at |-> s.at]]
  PROVE  HourlyQuota' /\ DailyQuota'
<1>1. /\ s.token \in Token /\ s.at \in Int /\ s.payload \in Payload
      /\ Hour \in Nat /\ Day \in Nat /\ TotalQuota \in Nat /\ EmailQuota \in Nat
  BY IntakeAssumption DEF IntakeAssumption, Submission, Time
<1>2. \A t \in Token \ {s.token} : leads'[t] = leads[t]
  BY <1>1 DEF IInv, TypeOK
<1>3. leads'[s.token] = [payload |-> s.payload, at |-> s.at]
  BY <1>1 DEF IInv, TypeOK
<1>4. \A t \in Token : Recorded(t) => leads[t].at \in Int
  BY IntakeAssumption DEF IntakeAssumption, IInv, TypeOK, Recorded, Lead, Time
<1>5. \A x \in Time : x \in Int
  BY IntakeAssumption DEF IntakeAssumption, Time
<1>6. ASSUME NEW x \in Time, NEW window \in Nat
      PROVE  /\ s.at \in x .. x + window => InWindow(x, window) \subseteq Recent(s.at, window)
             /\ s.at \notin x .. x + window => s.token \notin InWindow(x, window)'
             /\ InWindow(x, window)' \subseteq InWindow(x, window) \cup {s.token}
  BY <1>1, <1>2, <1>3, <1>4, <1>5 DEF InWindow, Recent, Recorded
<1>7. ASSUME NEW x \in Time PROVE Cardinality(InWindow(x, Hour)') <= TotalQuota
  <2>1. CASE s.at \in x .. x + Hour
    BY <2>1, <1>1, <1>6, OneMore DEF WithinQuota, InWindow, Recent
  <2>2. CASE s.at \notin x .. x + Hour
    <3>1. InWindow(x, Hour)' \subseteq InWindow(x, Hour)
      BY <2>2, <1>1, <1>6
    <3>2. IsFiniteSet(InWindow(x, Hour))
      BY IntakeAssumption, FS_Subset DEF IntakeAssumption, InWindow
    <3>3. Cardinality(InWindow(x, Hour)') <= Cardinality(InWindow(x, Hour))
      BY <3>1, <3>2, FS_Subset
    <3>4. QED
      BY <3>1, <3>2, <3>3, <1>1, FS_CardinalityType, FS_Subset DEF IInv, HourlyQuota
  <2>3. QED
    BY <2>1, <2>2
<1>8. ASSUME NEW x \in Time, NEW m \in Mailbox PROVE Cardinality(OfMailbox(x, m)') <= EmailQuota
  <2>1. OfMailbox(x, m)' \subseteq OfMailbox(x, m) \cup {s.token}
    BY <1>1, <1>2, <1>6 DEF OfMailbox, InWindow
  <2>2. IsFiniteSet(OfMailbox(x, m)) /\ Cardinality(OfMailbox(x, m)) <= EmailQuota
    BY IntakeAssumption, FS_Subset DEF IntakeAssumption, InWindow, OfMailbox, IInv, DailyQuota
  <2>3. CASE s.at \in x .. x + Day /\ s.payload.mailbox = m
    <3>1. OfMailbox(x, m) \subseteq
            {t \in Recent(s.at, Day) : SameAddress(leads[t].payload, s.payload)}
      BY <2>3, <1>1, <1>6 DEF OfMailbox, SameAddress
    <3> DEFINE counted == {t \in Recent(s.at, Day) : SameAddress(leads[t].payload, s.payload)}
    <3>2. counted \subseteq Token /\ OfMailbox(x, m) \subseteq Token
      BY DEF Recent, OfMailbox, InWindow
    <3>3. Cardinality(counted) < EmailQuota
      BY DEF WithinQuota
    <3>4. OfMailbox(x, m) \subseteq counted
      BY <3>1
    <3> HIDE DEF counted
    <3>5. QED
      BY <2>1, <3>2, <3>3, <3>4, <1>1, OneMore
  <2>4. CASE ~(s.at \in x .. x + Day /\ s.payload.mailbox = m)
    <3>1. s.token \notin OfMailbox(x, m)'
      BY <2>4, <1>1, <1>3, <1>6 DEF OfMailbox
    <3>2. Cardinality(OfMailbox(x, m)') <= Cardinality(OfMailbox(x, m))
          /\ IsFiniteSet(OfMailbox(x, m)')
      BY <2>1, <2>2, <3>1, FS_Subset
    <3>3. Cardinality(OfMailbox(x, m)') \in Nat /\ Cardinality(OfMailbox(x, m)) \in Nat
      BY <2>2, <3>2, FS_CardinalityType
    <3>4. QED
      BY <2>2, <3>2, <3>3, <1>1
  <2>5. QED
    BY <2>3, <2>4
<1>9. QED
  BY <1>7, <1>8 DEF HourlyQuota, DailyQuota, OfMailbox

(* A client is told of the lead that is now on record. *)
LEMMA AnswerTells ==
  ASSUME TypeOK, NEW receipt \in Receipt, Answer(receipt)
  PROVE  received' \subseteq Receipt /\ received' \subseteq received \cup {receipt}
BY DEF TypeOK, Answer

LEMMA CreateKeepsIInv ==
  ASSUME IInv, NEW s \in submitted, Create(s)
  PROVE  IInv'
<1> DEFINE receipt == [token |-> s.token, payload |-> s.payload, at |-> leads'[s.token].at,
                       genuine |-> TRUE]
<1>1. s \in Submission
  BY DEF IInv, TypeOK
<1>2. s.token \in Token /\ s.payload \in Payload /\ [payload |-> s.payload, at |-> s.at] \in Lead
  BY <1>1 DEF Submission, Lead
<1>3. leads' \in [Token -> Lead \cup {None}]
  BY <1>2 DEF IInv, TypeOK, Create
<1>4. /\ \A t \in Token : Recorded(t) => leads'[t] = leads[t]
      /\ leads'[s.token] # None /\ leads'[s.token].payload = s.payload
  BY <1>2, IntakeAssumption DEF IntakeAssumption, IInv, TypeOK, Create, IsReplay, Recorded
<1>5. leads'[s.token] \in Lead
  BY <1>2, <1>3, <1>4
<1>6. leads'[s.token] = [payload |-> s.payload, at |-> leads'[s.token].at] /\ receipt \in Receipt
  BY <1>2, <1>4, <1>5 DEF Lead, Receipt
<1>7. received' \subseteq Receipt /\ received' \subseteq received \cup {receipt}
  BY <1>6, AnswerTells DEF IInv, Create
<1>8. TypeOK'
  BY <1>3, <1>7 DEF IInv, TypeOK, Create
<1>9. HourlyQuota' /\ DailyQuota'
  <2>1. CASE UNCHANGED leads
    BY <2>1 DEF IInv, HourlyQuota, DailyQuota, InWindow, Recorded
  <2>2. CASE ~UNCHANGED leads
    BY <2>2, <1>1, RecordingKeepsQuotas DEF Create
  <2>3. QED
    BY <2>1, <2>2
<1>10. ReceivedIsRecorded'
  <2> SUFFICES ASSUME NEW r \in received', r.genuine, clock' < r.at + Retention
               PROVE  leads'[r.token] = [payload |-> r.payload, at |-> r.at]
    BY DEF ReceivedIsRecorded
  <2>1. CASE r = receipt
    BY <1>6, <2>1
  <2>2. CASE r \in received
    <3>1. leads[r.token] = [payload |-> r.payload, at |-> r.at] /\ r.token \in Token
      BY <2>2 DEF IInv, TypeOK, ReceivedIsRecorded, Create, Receipt
    <3>2. [payload |-> r.payload, at |-> r.at] \in Lead
      BY <2>2 DEF IInv, TypeOK, Receipt, Lead
    <3>3. Recorded(r.token)
      BY <3>1, <3>2, IntakeAssumption DEF IntakeAssumption, Recorded
    <3>4. QED
      BY <1>4, <3>1, <3>3
  <2>3. QED
    BY <1>7, <2>1, <2>2
<1>11. QED
  BY <1>8, <1>9, <1>10 DEF IInv

(* A lead whose deadline has passed is nobody's any more, and every window *)
(* holds fewer.                                                            *)
LEMMA DeleteKeepsIInv ==
  ASSUME IInv, NEW t \in Token, Delete(t)
  PROVE  IInv'
<1>1. /\ leads' \in [Token -> Lead \cup {None}] /\ leads'[t] = None
      /\ \A u \in Token \ {t} : leads'[u] = leads[u]
      /\ UNCHANGED <<clock, submitted, received>>
  BY DEF IInv, TypeOK, Delete
<1>2. TypeOK'
  BY <1>1 DEF IInv, TypeOK
<1>3. ASSUME NEW small \in SUBSET Token, NEW large \in SUBSET Token, NEW quota \in Nat,
             small \subseteq large, Cardinality(large) <= quota
      PROVE  Cardinality(small) <= quota
  <2>1. IsFiniteSet(large)
    BY IntakeAssumption, FS_Subset DEF IntakeAssumption
  <2>2. IsFiniteSet(small) /\ Cardinality(small) <= Cardinality(large)
    BY <1>3, <2>1, FS_Subset
  <2>3. Cardinality(small) \in Nat /\ Cardinality(large) \in Nat
    BY <2>1, <2>2, FS_CardinalityType
  <2>4. QED
    BY <1>3, <2>2, <2>3
<1>4. \A x \in Time : /\ InWindow(x, Hour)' \subseteq InWindow(x, Hour)
                      /\ InWindow(x, Hour) \subseteq Token
  BY <1>1 DEF InWindow, Recorded
<1>5. \A x \in Time, m \in Mailbox : /\ OfMailbox(x, m)' \subseteq OfMailbox(x, m)
                                     /\ OfMailbox(x, m) \subseteq Token
  BY <1>1 DEF OfMailbox, InWindow, Recorded
<1>6. HourlyQuota'
  BY <1>3, <1>4, IntakeAssumption DEF IntakeAssumption, IInv, HourlyQuota
<1>7. DailyQuota'
  <2>1. ASSUME NEW x \in Time, NEW m \in Mailbox PROVE Cardinality(OfMailbox(x, m)') <= EmailQuota
    <3>1. Cardinality(OfMailbox(x, m)) <= EmailQuota
      BY DEF IInv, DailyQuota, OfMailbox
    <3>2. QED
      BY <1>3, <1>5, <3>1, IntakeAssumption DEF IntakeAssumption
  <2>2. QED
    BY <2>1 DEF DailyQuota, OfMailbox
<1>8. ReceivedIsRecorded'
  <2> SUFFICES ASSUME NEW r \in received, r.genuine, clock < r.at + Retention
               PROVE  leads'[r.token] = [payload |-> r.payload, at |-> r.at]
    BY <1>1 DEF ReceivedIsRecorded
  <2>1. leads[r.token] = [payload |-> r.payload, at |-> r.at] /\ r.token \in Token
    BY DEF IInv, TypeOK, ReceivedIsRecorded, Receipt
  <2>2. clock \in Int /\ r.at \in Int /\ Retention \in Int
    BY IntakeAssumption DEF IntakeAssumption, IInv, TypeOK, Receipt, Time
  <2>3. r.token # t
    BY <2>1, <2>2 DEF Delete
  <2>4. QED
    BY <1>1, <2>1, <2>3
<1>9. QED
  BY <1>2, <1>6, <1>7, <1>8 DEF IInv

LEMMA NextIInv == IInv /\ [Next]_vars => IInv'
<1> SUFFICES ASSUME IInv, [Next]_vars PROVE IInv'
  OBVIOUS
<1>1. ASSUME UNCHANGED <<leads, received>>, clock' >= clock, TypeOK' PROVE IInv'
  <2>1. HourlyQuota' /\ DailyQuota'
    BY <1>1 DEF IInv, HourlyQuota, DailyQuota, InWindow, Recorded
  <2>2. ASSUME NEW r \in received, clock' < r.at + Retention PROVE clock < r.at + Retention
    <3>1. clock \in Int /\ clock' \in Int /\ r.at \in Int /\ Retention \in Int
      BY <1>1, IntakeAssumption DEF IntakeAssumption, IInv, TypeOK, Receipt, Time
    <3>2. QED
      BY <1>1, <2>2, <3>1
  <2>3. ReceivedIsRecorded'
    BY <1>1, <2>2 DEF IInv, ReceivedIsRecorded
  <2>4. QED
    BY <1>1, <2>1, <2>3 DEF IInv
<1>2. clock \in Int
  BY IntakeAssumption DEF IntakeAssumption, IInv, TypeOK, Time
<1>3. CASE Tick
  BY <1>1, <1>2, <1>3, IntakeAssumption DEF IntakeAssumption, Tick, IInv, TypeOK, Time
<1>4. ASSUME NEW t \in Token, NEW p \in Payload, Submit(t, p, TRUE) PROVE IInv'
  BY <1>1, <1>2, <1>4 DEF Submit, IInv, TypeOK, Submission
<1>5. ASSUME NEW t \in Token, NEW p \in Payload, Submit(t, p, FALSE) PROVE IInv'
  <2> DEFINE receipt == [token |-> t, payload |-> p, at |-> clock, genuine |-> FALSE]
  <2>1. receipt \in Receipt
    BY DEF IInv, TypeOK, Receipt
  <2>2. UNCHANGED <<clock, leads, submitted>> /\ Answer(receipt)
    BY <1>5 DEF Submit
  <2>3. received' \subseteq Receipt /\ received' \subseteq received \cup {receipt}
    BY <2>1, <2>2, AnswerTells DEF IInv
  <2>4. TypeOK'
    BY <2>2, <2>3 DEF IInv, TypeOK
  <2>5. HourlyQuota' /\ DailyQuota'
    BY <2>2 DEF IInv, HourlyQuota, DailyQuota, InWindow, Recorded
  <2>6. ~receipt.genuine
    OBVIOUS
  <2>7. ReceivedIsRecorded'
    BY <2>2, <2>3, <2>6 DEF IInv, ReceivedIsRecorded
  <2>8. QED
    BY <2>4, <2>5, <2>7 DEF IInv
<1>6. ASSUME NEW s \in submitted, Refuse(s) \/ Lose(s) PROVE IInv'
  BY <1>1, <1>2, <1>6 DEF Refuse, Lose, IInv, TypeOK
<1>7. CASE UNCHANGED vars
  BY <1>1, <1>2, <1>7 DEF vars, IInv, TypeOK
<1>8. QED
  BY <1>3, <1>4, <1>5, <1>6, <1>7, CreateKeepsIInv, DeleteKeepsIInv DEF Next

(* No rolling hour holds more leads than the quota, though leads are       *)
(* recorded out of the order of their stamps.                              *)
THEOREM HourlyQuotaAlways == Spec => []HourlyQuota
<1>1. IInv => HourlyQuota
  BY DEF IInv
<1>2. QED
  BY <1>1, InitIInv, NextIInv, PTL DEF Spec

(* No rolling day holds more leads of one mailbox than the quota. *)
THEOREM DailyQuotaAlways == Spec => []DailyQuota
<1>1. IInv => DailyQuota
  BY DEF IInv
<1>2. QED
  BY <1>1, InitIInv, NextIInv, PTL DEF Spec

(* The lead that a client was told of is on record as it sent it until its *)
(* retention deadline, if the submission was not the honeypot's.           *)
THEOREM ReceivedIsRecordedAlways == Spec => []ReceivedIsRecorded
<1>1. IInv => ReceivedIsRecorded
  BY DEF IInv
<1>2. QED
  BY <1>1, InitIInv, NextIInv, PTL DEF Spec

=============================================================================
