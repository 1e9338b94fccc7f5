-------------------------- MODULE ReportingProofs --------------------------
(***************************************************************************)
(* What the management reports tell, for every repository, number of       *)
(* releases, page size and interleaving with the stores that write.        *)
(*                                                                         *)
(* A committed release keeps its stamp and its repository, so that an      *)
(* order once read stays one.  The history on display is therefore a       *)
(* sorted sequence that ends where the cursor begins, and what it should   *)
(* hold is on it, or older than its cursor, or in a millisecond of it.     *)
(***************************************************************************)
EXTENDS Reporting, FiniteSetTheorems, WellFoundedInduction, TLAPS

Committed == {r \in Release : row[r] # None}

(* What the columns of one release have in common at any moment: its       *)
(* status and outcome agree with its last attempt,                         *)
StatesAgree(x) ==
  /\ x.status = "DEPLOYING" => x.attempt \in Active
  /\ x.status \in {"PENDING", "CANCELLED", "SUPERSEDED"} => x.attempt \notin Active
  /\ x.status = "COMPLETED" /\ x.outcome # "BLOCKED" => x.attempt \notin Active \cup {None}
  /\ x.attempt \in {"PROMOTED", "ROLLED_BACK", "FAILED"} => x.outcome \in OutcomesOf(x.attempt)

(* and each row the events have left has its audit event.                  *)
CountsAgree(x) ==
  x.auditEvents >= One(x.policy # None) + x.attempts + x.observations + One(x.outcome # None)

RowAgrees(x) == StatesAgree(x) /\ CountsAgree(x)

TablesInv ==
  /\ clock \in Nat /\ transactions \in Int
  /\ row \in [Release -> Row \cup {None}]
  /\ IsFiniteSet(Committed)
  /\ \A r \in Release : row[r] # None => RowAgrees(row[r])

PageTypes ==
  /\ scope \in Repository \cup {None}
  /\ releases \in Seq(Release)
  /\ nextCursor \in Cursor \cup {None}
  /\ key \in BOOLEAN
  /\ selected \in Release \cup {None}
  /\ known \in SUBSET Release
  /\ request \in Request \cup {None}

(* Credential and access only go: what is found of the one when a request   *)
(* is authenticated, and of the other when it is authorized, was so as it   *)
(* was sent.                                                                *)
EntitledInv ==
  Busy =>
    /\ Entitled(request.repository) => request.entitled = TRUE
    /\ request.stage # "SENT" /\ request.repository \in granted => request.entitled = TRUE
    /\ request.stage \notin {"SENT", "AUTHENTICATED"} => request.entitled = TRUE

(* A detail is told from the one row its transaction sees. *)
DetailInv ==
  Busy =>
    /\ request.stage \in {"READ", "READ_ATTEMPTS", "READ_AUDIT"} => request.kind # "LIST"
    /\ request.kind # "LIST" /\ request.stage \notin {"SENT", "AUTHENTICATED", "AUTHORIZED"} =>
         request.view \in Row /\ RowAgrees(request.view)
    /\ request.stage = "READ_ATTEMPTS" =>
         request.answer = [summary |-> Summary(request.view), attempts |-> None, audit |-> None]
    /\ request.stage = "READ_AUDIT" =>
         request.answer = [summary |-> Summary(request.view),
                           attempts |-> AttemptSection(request.view), audit |-> None]
    /\ request.stage = "ANSWERED" /\ request.kind # "LIST" =>
         request.answer = [summary |-> Summary(request.view),
                           attempts |-> AttemptSection(request.view),
                           audit |-> AuditSection(request.view)]

(* The first page of a history is under way: what is on display goes.      *)
Replacing == Busy /\ request.kind = "LIST" /\ ~request.append

Sorted(s, repository) ==
  /\ \A i \in DOMAIN s : s[i] \in Committed /\ RepositoryOf[s[i]] = repository
  /\ \A i, j \in DOMAIN s : i < j => Precedes(s[i], s[j])

(* A history goes on where its cursor says.                                *)
GoesOn(s, cursor) == cursor # None => s # <<>> /\ cursor = CursorOf(s[Len(s)])

(* Nothing of S is missed: it is listed, in a millisecond that is, or older *)
(* than the cursor.                                                         *)
Listed(s, r) == \E i \in DOMAIN s : s[i] = r

Shares(s, r) == \E i \in DOMAIN s : IsoDateTime(row[s[i]].at) = IsoDateTime(row[r].at)

Covers(s, cursor, S) ==
  \A r \in S : Listed(s, r) \/ Shares(s, r) \/ (cursor # None /\ Older(cursor, r))

(* What a page's answer is, as the page will take it. *)
AnswerInv ==
  At("ANSWERED") /\ request.kind = "LIST" =>
    /\ request.answer \in ListAnswer
    /\ Sorted(request.answer.releases, request.repository)
    /\ GoesOn(request.answer.releases, request.answer.nextCursor)
    /\ request.append =>
         /\ \A i \in DOMAIN request.answer.releases : Older(request.cursor, request.answer.releases[i])
         /\ Covers(request.answer.releases, request.answer.nextCursor,
                   {r \in known : Older(request.cursor, r)})
    /\ ~request.append =>
         /\ Covers(request.answer.releases, request.answer.nextCursor, request.held)
         /\ \A r \in request.held : r \in Committed /\ RepositoryOf[r] = request.repository

HistoryInv ==
  /\ Replacing => nextCursor = None
  /\ ~Replacing =>
       /\ Sorted(releases, scope)
       /\ GoesOn(releases, nextCursor)
       /\ releases # <<>> =>
            /\ Covers(releases, nextCursor, known)
            /\ \A r \in known : r \in Committed /\ RepositoryOf[r] = scope
  /\ Busy => request.repository = scope
  /\ Busy /\ request.kind = "LIST" =>
       request.cursor = nextCursor /\ (request.append = (nextCursor # None))

DiscoveryInv ==
  /\ live \in SUBSET Deployment /\ merged \in SUBSET PR
  /\ found \in [deployment : Deployment \cup {None}, pr : PR \cup {None}]
  /\ found.pr # None => found.pr \in merged
  /\ correlation # None =>
       /\ correlation.pr \in merged
       /\ HeadOf[correlation.pr] = correlation.release
       /\ RepositoryOf[correlation.release] = Deployed
       /\ correlation.was.pr = correlation.pr
       /\ correlation.was.status = "REVIEWED" /\ correlation.was.policy \in Continues

ReportingInv ==
  /\ TablesInv /\ PageTypes /\ EntitledInv /\ DetailInv
  /\ HistoryInv /\ AnswerInv /\ DiscoveryInv

----------------------------------------------------------------------------
(* The operators the queries are made of. *)

(* A committed release has a row of the tables' types. *)
LEMMA RowIsTyped ==
  ASSUME TablesInv, NEW r \in Committed
  PROVE  row[r] \in Row /\ row[r].at \in Nat /\ r \in Release /\ r \in Nat
  BY ManagementReportAssumption DEF TablesInv, Committed, Row

(* A millisecond begins before what is in it, and after what is before it. *)
LEMMA MillisecondBegins ==
  ASSUME NEW a \in Nat, NEW b \in Nat
  PROVE  /\ IsoDateTime(b) \in Nat /\ IsoDateTime(b) <= b
         /\ a <= b /\ IsoDateTime(a) # IsoDateTime(b) => a < IsoDateTime(b)
<1> DEFINE M == Millisecond
           p == a \div M
           q == b \div M
<1>1. M \in Nat /\ M > 0
  BY ManagementReportAssumption
<1>2. /\ p \in Nat /\ p * M <= a /\ a < p * M + M
      /\ q \in Nat /\ q * M <= b /\ b < q * M + M
  BY <1>1, SMTT(30)
<1>3. q * M \in Nat /\ p * M \in Nat
  BY <1>1, <1>2
<1>4. ASSUME a <= b, p * M # q * M, q * M <= a PROVE FALSE
  <2>1. CASE p < q
    <3>1. (p + 1) * M <= q * M
      BY <1>1, <1>2, <2>1, SMTT(30)
    <3>2. (p + 1) * M = p * M + M
      BY <1>1, <1>2, SMTT(30)
    <3> HIDE DEF p, q, M
    <3> QED
      BY <1>1, <1>2, <1>3, <1>4, <3>1, <3>2
  <2>2. CASE q < p
    <3>1. (q + 1) * M <= p * M
      BY <1>1, <1>2, <2>2, SMTT(30)
    <3>2. (q + 1) * M = q * M + M
      BY <1>1, <1>2, SMTT(30)
    <3> HIDE DEF p, q, M
    <3> QED
      BY <1>1, <1>2, <1>3, <1>4, <3>1, <3>2
  <2>3. p # q
    BY <1>4
  <2> HIDE DEF p, q, M
  <2> QED
    BY <1>2, <2>1, <2>2, <2>3
<1>5. IsoDateTime(a) = p * M /\ IsoDateTime(b) = q * M
  BY DEF IsoDateTime
<1> HIDE DEF p, q, M
<1> QED
  BY <1>1, <1>2, <1>3, <1>4, <1>5

(* The descending creation order is a strict total order of the committed  *)
(* releases.                                                               *)
LEMMA PrecedesIsAnOrder ==
  ASSUME TablesInv, NEW p \in Committed, NEW q \in Committed, NEW r \in Committed
  PROVE  /\ ~Precedes(p, p)
         /\ p = q \/ Precedes(p, q) \/ Precedes(q, p)
         /\ Precedes(p, q) /\ Precedes(q, r) => Precedes(p, r)
<1>1. /\ row[p].at \in Nat /\ row[q].at \in Nat /\ row[r].at \in Nat
      /\ p \in Nat /\ q \in Nat /\ r \in Nat
  BY RowIsTyped
<1> QED
  BY <1>1 DEF Precedes

(* Among committed releases there is a last one. *)
LEMMA LastOfSome ==
  ASSUME TablesInv, NEW S \in SUBSET Committed, S # {}
  PROVE  \E last \in S : \A r \in S : r = last \/ Precedes(r, last)
<1> DEFINE From(k)  == {j \in S : j = k \/ Precedes(k, j)}
           Segments == {From(k) : k \in S}
           Order    == StrictSubsetOrdering(S)
<1>1. IsFiniteSet(S)
  BY FS_Subset DEF TablesInv
<1>2. Segments \subseteq FiniteSubsetsOf(S) /\ Segments # {}
  <2>1. \A k \in S : From(k) \in SUBSET S
    OBVIOUS
  <2>2. \A k \in S : IsFiniteSet(From(k))
    <3> HIDE DEF From
    <3> QED
      BY <1>1, <2>1, FS_Subset
  <2> QED
    BY <2>1, <2>2 DEF FiniteSubsetsOf
<1>3. PICK segment \in Segments : \A other \in Segments : ~(<<other, segment>> \in Order)
  <2>1. IsWellFoundedOn(Order, FiniteSubsetsOf(S))
    BY FS_StrictSubsetOrderingWellFounded
  <2> HIDE DEF Segments, Order
  <2> QED
    BY <1>2, <2>1, WFMin, Zenon
<1>4. PICK k \in S : segment = From(k)
  OBVIOUS
<1>5. ASSUME NEW j \in S, Precedes(k, j) PROVE FALSE
  <2>1. From(j) \subseteq From(k) /\ k \in From(k) /\ k \notin From(j)
    <3>1. \A i \in S : Precedes(j, i) => Precedes(k, i)
      BY <1>5, PrecedesIsAnOrder
    <3>2. j # k /\ ~Precedes(j, k)
      BY <1>5, PrecedesIsAnOrder
    <3> QED
      BY <1>5, <3>1, <3>2
  <2>2. From(j) \in SUBSET S /\ From(k) \in SUBSET S
    OBVIOUS
  <2>3. <<From(j), From(k)>> \in Order
    <3> HIDE DEF From
    <3> QED
      BY <2>1, <2>2 DEF StrictSubsetOrdering
  <2> QED
    BY <1>3, <1>4, <2>3
<1> QED
  BY <1>4, <1>5, PrecedesIsAnOrder

(* A sequence of all of S, in order. *)
Orders(s, S) ==
  /\ \A r \in S : \E i \in DOMAIN s : s[i] = r
  /\ \A i, j \in DOMAIN s : i < j => Precedes(s[i], s[j])

(* ORDER BY has a result, and Ordered is one. *)
LEMMA OrderedOrders ==
  ASSUME TablesInv, NEW S \in SUBSET Committed
  PROVE  /\ IsFiniteSet(S) /\ Cardinality(S) \in Nat
         /\ Ordered(S) \in [1 .. Cardinality(S) -> S] /\ Orders(Ordered(S), S)
<1> DEFINE Ordering(T) == \E s \in [1 .. Cardinality(T) -> T] : Orders(s, T)
           Unordered   == {T \in SUBSET S : ~Ordering(T)}
           Order       == StrictSubsetOrdering(S)
<1>1. IsFiniteSet(S) /\ Cardinality(S) \in Nat
  BY FS_Subset, FS_CardinalityType DEF TablesInv
<1>2. Unordered = {}
  <2> SUFFICES ASSUME Unordered # {} PROVE FALSE
    OBVIOUS
  <2>1. \A T \in SUBSET S : IsFiniteSet(T) /\ Cardinality(T) \in Nat
    BY <1>1, FS_Subset, FS_CardinalityType
  <2>2. Unordered \subseteq FiniteSubsetsOf(S)
    <3> HIDE DEF Ordering
    <3> QED
      BY <2>1 DEF FiniteSubsetsOf
  <2>3. PICK T \in Unordered : \A other \in Unordered : ~(<<other, T>> \in Order)
    <3>1. IsWellFoundedOn(Order, FiniteSubsetsOf(S))
      BY FS_StrictSubsetOrderingWellFounded
    <3> HIDE DEF Unordered, Order
    <3> QED
      BY <2>2, <3>1, WFMin, Zenon
  <2>4. T \in SUBSET S /\ ~Ordering(T)
    <3> HIDE DEF Ordering
    <3> QED
      OBVIOUS
  <2>5. T # {}
    <3> SUFFICES ASSUME T = {} PROVE FALSE
      OBVIOUS
    <3>1. Cardinality(T) = 0
      BY FS_EmptySet
    <3>2. 1 .. 0 = {}
      OBVIOUS
    <3>3. <<>> \in [1 .. Cardinality(T) -> T] /\ Orders(<<>>, T)
      BY <3>1, <3>2 DEF Orders
    <3> QED
      BY <2>4, <3>3
  <2>6. PICK last \in T : \A r \in T : r = last \/ Precedes(r, last)
    BY <2>4, <2>5, LastOfSome
  <2> DEFINE n == Cardinality(T)
             Rest == T \ {last}
  <2>7. n \in Nat \ {0} /\ Cardinality(Rest) = n - 1
    BY <2>1, <2>4, <2>5, FS_RemoveElement, FS_EmptySet
  <2>8. Rest \in SUBSET S /\ <<Rest, T>> \in Order
    BY <2>4 DEF StrictSubsetOrdering
  <2>9. Ordering(Rest)
    <3> HIDE DEF Ordering, Order
    <3> QED
      BY <2>3, <2>8
  <2>10. PICK s \in [1 .. n - 1 -> Rest] : Orders(s, Rest)
    BY <2>7, <2>9
  <2> DEFINE t == [i \in 1 .. n |-> IF i = n THEN last ELSE s[i]]
  <2> HIDE DEF n, Rest
  <2>11. \A i \in 1 .. n : i # n => i \in 1 .. n - 1 /\ s[i] \in Rest
    BY <2>7, <2>10
  <2>12. t \in [1 .. n -> T]
    BY <2>11 DEF Rest
  <2>13. \A r \in T : \E i \in DOMAIN t : t[i] = r
    <3> TAKE r \in T
    <3>1. CASE r = last
      BY <2>7, <3>1
    <3>2. CASE r # last
      <4>1. PICK i \in 1 .. n - 1 : s[i] = r
        BY <2>10, <3>2 DEF Orders, Rest
      <4>2. i \in 1 .. n /\ i # n
        BY <2>7
      <4> QED
        BY <4>1, <4>2
    <3> QED
      BY <3>1, <3>2
  <2>14. \A i, j \in DOMAIN t : i < j => Precedes(t[i], t[j])
    <3> TAKE i, j \in DOMAIN t
    <3> HAVE i < j
    <3>1. i \in 1 .. n - 1 /\ i # n /\ j \in 1 .. n
      BY <2>7
    <3>2. t[i] = s[i] /\ s[i] \in Rest
      BY <2>11, <3>1
    <3>3. CASE j = n
      <4>1. t[j] = last
        BY <3>3
      <4> HIDE DEF t
      <4> QED
        BY <2>6, <3>2, <4>1 DEF Rest
    <3>4. CASE j # n
      <4>1. t[j] = s[j] /\ j \in 1 .. n - 1
        BY <2>11, <3>1, <3>4
      <4> HIDE DEF t
      <4> QED
        BY <2>10, <3>1, <3>2, <4>1 DEF Orders
    <3> QED
      BY <3>3, <3>4
  <2>15. Orders(t, T)
    <3> HIDE DEF t
    <3> QED
      BY <2>13, <2>14 DEF Orders
  <2> HIDE DEF t
  <2> QED
    BY <2>4, <2>12, <2>15 DEF n
<1>3. \E s \in [1 .. Cardinality(S) -> S] : Orders(s, S)
  BY <1>2
<1>4. Ordered(S) = CHOOSE s \in [1 .. Cardinality(S) -> S] : Orders(s, S)
  BY DEF Ordered, Orders
<1> HIDE DEF Ordering, Unordered
<1> QED
  BY <1>1, <1>3, <1>4

(* A release's cursor is one, and not the absence of one. *)
LEMMA CursorIsTyped ==
  ASSUME TablesInv, NEW r \in Committed
  PROVE  CursorOf(r) \in Cursor /\ CursorOf(r) # None
<1>1. row[r].at \in Nat /\ r \in Release
  BY RowIsTyped
<1>2. IsoDateTime(row[r].at) \in Nat /\ RepositoryOf[r] \in Repository
  BY <1>1, MillisecondBegins, ManagementReportAssumption
<1>3. CursorOf(r) \in Cursor
  BY <1>1, <1>2 DEF CursorOf, Cursor
<1> QED
  BY <1>3, ManagementReportAssumption

(* What is older than a release's cursor comes after the release. *)
LEMMA OlderFollows ==
  ASSUME TablesInv, NEW p \in Committed, NEW r \in Committed, Older(CursorOf(p), r)
  PROVE  Precedes(p, r)
<1>1. row[p].at \in Nat /\ row[r].at \in Nat /\ p \in Nat /\ r \in Nat
  BY RowIsTyped
<1>2. IsoDateTime(row[p].at) \in Nat /\ IsoDateTime(row[p].at) <= row[p].at
  BY <1>1, MillisecondBegins
<1>3. \/ row[r].at < IsoDateTime(row[p].at)
      \/ row[r].at = IsoDateTime(row[p].at) /\ r < p
  BY DEF Older, CursorOf
<1> QED
  BY <1>1, <1>2, <1>3 DEF Precedes

(* What comes after a release is older than its cursor, unless it is of    *)
(* the same millisecond.                                                   *)
LEMMA FollowersAreOlder ==
  ASSUME TablesInv, NEW p \in Committed, NEW r \in Committed, Precedes(p, r)
  PROVE  IsoDateTime(row[p].at) = IsoDateTime(row[r].at) \/ Older(CursorOf(p), r)
<1>1. row[p].at \in Nat /\ row[r].at \in Nat /\ p \in Nat /\ r \in Nat
  BY RowIsTyped
<1>2. row[r].at <= row[p].at
  BY <1>1 DEF Precedes
<1>3. IsoDateTime(row[p].at) # IsoDateTime(row[r].at) => row[r].at < IsoDateTime(row[p].at)
  BY <1>1, <1>2, MillisecondBegins
<1> QED
  BY <1>3 DEF Older, CursorOf

(* A page is in order, of its repository and beyond its cursor, ends where *)
(* the next one begins, and nothing is missed between the two.             *)
LEMMA PageIsWhole ==
  ASSUME TablesInv, NEW repository, NEW cursor,
         NEW page, page = Page(Rows(repository, cursor))
  PROVE  /\ page \in ListAnswer
         /\ Sorted(page.releases, repository)
         /\ GoesOn(page.releases, page.nextCursor)
         /\ cursor # None => \A i \in DOMAIN page.releases : Older(cursor, page.releases[i])
         /\ Covers(page.releases, page.nextCursor,
                   {r \in History(repository) : cursor = None \/ Older(cursor, r)})
<1> DEFINE matching == {r \in History(repository) : cursor = None \/ Older(cursor, r)}
           o == Ordered(matching)
           n == Cardinality(matching)
           k == IF n > Limit THEN Limit ELSE n
<1>1. /\ matching \in SUBSET Committed
      /\ \A r \in matching : RepositoryOf[r] = repository /\ (cursor # None => Older(cursor, r))
  BY DEF History, Committed
<1> HIDE DEF matching
<1>2. n \in Nat /\ o \in [1 .. n -> matching] /\ Orders(o, matching)
  BY <1>1, OrderedOrders
<1> HIDE DEF o, n
<1>3. o \in Seq(matching) /\ Len(o) = n /\ DOMAIN o = 1 .. n
  BY <1>2
<1>4. Limit \in Nat \ {0} /\ k \in Nat /\ k <= n
  BY <1>2, ManagementReportAssumption
<1>5. Rows(repository, cursor) = SubSeq(o, 1, IF n > Limit THEN Limit + 1 ELSE n)
  BY <1>3 DEF Rows, matching, o
<1> DEFINE s == page.releases
<1>6. /\ s \in Seq(matching) /\ Len(s) = k /\ \A i \in 1 .. k : s[i] = o[i]
      /\ page = [releases |-> s, nextCursor |-> IF n > Limit THEN CursorOf(o[Limit]) ELSE None]
  <2>1. CASE n > Limit
    <3> DEFINE rows == SubSeq(o, 1, Limit + 1)
    <3>1. /\ Rows(repository, cursor) = rows /\ rows \in Seq(matching) /\ Len(rows) = Limit + 1
          /\ \A i \in 1 .. Limit + 1 : rows[i] = o[i]
      BY <1>2, <1>3, <1>4, <1>5, <2>1
    <3> HIDE DEF rows
    <3>2. page = [releases |-> SubSeq(rows, 1, Limit), nextCursor |-> CursorOf(rows[Limit])]
      BY <1>4, <3>1 DEF Page
    <3>3. /\ SubSeq(rows, 1, Limit) \in Seq(matching) /\ Len(SubSeq(rows, 1, Limit)) = Limit
          /\ \A i \in 1 .. Limit : SubSeq(rows, 1, Limit)[i] = rows[i]
      BY <1>4, <3>1
    <3>4. rows[Limit] = o[Limit]
      BY <1>4, <3>1
    <3>5. \A i \in 1 .. Limit : rows[i] = o[i]
      BY <1>4, <3>1
    <3> QED
      BY <1>4, <2>1, <3>2, <3>3, <3>4, <3>5
  <2>2. CASE ~(n > Limit)
    <3> DEFINE rows == SubSeq(o, 1, n)
    <3>1. /\ Rows(repository, cursor) = rows /\ rows \in Seq(matching) /\ Len(rows) = n
          /\ \A i \in 1 .. n : rows[i] = o[i]
      BY <1>2, <1>3, <1>4, <1>5, <2>2
    <3> HIDE DEF rows
    <3>2. page = [releases |-> rows, nextCursor |-> None]
      BY <1>2, <1>4, <2>2, <3>1 DEF Page
    <3> QED
      BY <1>4, <2>2, <3>1, <3>2
  <2> QED
    BY <2>1, <2>2
<1> HIDE DEF s
<1>7. DOMAIN s = 1 .. k /\ \A i \in 1 .. k : i \in 1 .. n /\ s[i] \in matching
  BY <1>2, <1>4, <1>6
<1>8. page.releases = s /\ page.nextCursor = IF n > Limit THEN CursorOf(o[Limit]) ELSE None
  BY <1>6
<1>9. n > Limit => /\ o[Limit] \in Committed /\ k = Limit
                   /\ s # <<>> /\ s[Len(s)] = o[Limit]
  BY <1>1, <1>2, <1>4, <1>6
<1>10. page \in ListAnswer
  <2>1. page.nextCursor \in Cursor \cup {None}
    BY <1>8, <1>9, CursorIsTyped
  <2>2. s \in Seq(Release)
    BY <1>1, <1>6 DEF Committed
  <2> QED
    BY <1>6, <1>8, <2>1, <2>2 DEF ListAnswer
<1>11. Sorted(s, repository)
  <2>1. \A i, j \in 1 .. k : i < j => Precedes(s[i], s[j])
    BY <1>2, <1>6, <1>7 DEF Orders
  <2> QED
    BY <1>1, <1>7, <2>1 DEF Sorted
<1>12. GoesOn(s, page.nextCursor)
  BY <1>8, <1>9 DEF GoesOn
<1>13. Covers(s, page.nextCursor, matching)
  <2> SUFFICES ASSUME NEW r \in matching
               PROVE  Listed(s, r) \/ Shares(s, r) \/ (page.nextCursor # None /\ Older(page.nextCursor, r))
    BY DEF Covers
  <2>1. PICK i \in 1 .. n : o[i] = r
    BY <1>2 DEF Orders
  <2>2. CASE i <= k
    BY <1>6, <1>7, <2>1, <2>2 DEF Listed
  <2>3. CASE ~(i <= k)
    <3>1. n > Limit /\ Limit \in 1 .. n /\ Limit < i
      BY <1>2, <1>4, <2>3
    <3>2. Precedes(o[Limit], r)
      BY <1>2, <2>1, <3>1 DEF Orders
    <3>3. IsoDateTime(row[o[Limit]].at) = IsoDateTime(row[r].at) \/ Older(CursorOf(o[Limit]), r)
      BY <1>1, <1>9, <3>1, <3>2, FollowersAreOlder
    <3>4. Limit \in DOMAIN s /\ s[Limit] = o[Limit]
      BY <1>4, <1>6, <1>7, <1>9, <3>1
    <3>5. page.nextCursor = CursorOf(o[Limit]) /\ page.nextCursor # None
      BY <1>8, <1>9, <3>1, CursorIsTyped
    <3> QED
      BY <3>3, <3>4, <3>5 DEF Shares
  <2> QED
    BY <1>2, <1>4, <2>2, <2>3
<1> QED
  BY <1>1, <1>7, <1>8, <1>10, <1>11, <1>12, <1>13 DEF matching

(* A page beyond the cursor of a history goes on with it. *)
LEMMA HistoryGoesOn ==
  ASSUME TablesInv, NEW s \in Seq(Release), NEW t \in Seq(Release), NEW repository, NEW cursor,
         Sorted(s, repository), GoesOn(s, cursor), cursor # None,
         Sorted(t, repository), \A i \in DOMAIN t : Older(cursor, t[i])
  PROVE  s \o t \in Seq(Release) /\ Sorted(s \o t, repository)
<1> DEFINE u == s \o t
           m == Len(s)
<1>1. m \in Nat \ {0} /\ cursor = CursorOf(s[m]) /\ Len(t) \in Nat
  BY DEF GoesOn
<1>2. /\ u \in Seq(Release) /\ DOMAIN u = 1 .. m + Len(t) /\ DOMAIN s = 1 .. m /\ DOMAIN t = 1 .. Len(t)
      /\ \A i \in 1 .. m + Len(t) : u[i] = IF i <= m THEN s[i] ELSE t[i - m]
  OBVIOUS
<1> HIDE DEF u, m
<1>3. \A i \in 1 .. m + Len(t) :
        \/ i \in 1 .. m /\ u[i] = s[i]
        \/ i > m /\ i - m \in 1 .. Len(t) /\ u[i] = t[i - m]
  BY <1>1, <1>2
<1>4. \A i \in 1 .. m : s[i] \in Committed /\ RepositoryOf[s[i]] = repository
  BY <1>2 DEF Sorted
<1>5. \A i \in 1 .. Len(t) : t[i] \in Committed /\ RepositoryOf[t[i]] = repository
  BY <1>2 DEF Sorted
<1>6. \A i \in 1 .. m : i < m => Precedes(s[i], s[m])
  BY <1>1, <1>2 DEF Sorted
<1>7. \A j \in 1 .. Len(t) : Precedes(s[m], t[j])
  BY <1>1, <1>2, <1>4, <1>5, OlderFollows
<1>8. \A i \in 1 .. m, j \in 1 .. Len(t) : Precedes(s[i], t[j])
  <2> TAKE i \in 1 .. m, j \in 1 .. Len(t)
  <2>1. CASE i = m
    BY <1>7, <2>1
  <2>2. CASE i # m
    <3>1. i < m /\ m \in 1 .. m
      BY <1>1, <2>2
    <3> QED
      BY <1>4, <1>5, <1>6, <1>7, <3>1, PrecedesIsAnOrder
  <2> QED
    BY <2>1, <2>2
<1>9. ASSUME NEW i \in 1 .. m + Len(t), NEW j \in 1 .. m + Len(t), i < j
      PROVE  Precedes(u[i], u[j])
  <2>1. \/ i \in 1 .. m /\ u[i] = s[i]
        \/ i > m /\ i - m \in 1 .. Len(t) /\ u[i] = t[i - m]
    BY <1>3
  <2>2. \/ j \in 1 .. m /\ u[j] = s[j]
        \/ j > m /\ j - m \in 1 .. Len(t) /\ u[j] = t[j - m]
    BY <1>3
  <2>3. i \in Int /\ j \in Int /\ m \in Int
    BY <1>1
  <2>4. CASE i \in 1 .. m /\ j \in 1 .. m
    BY <1>2, <1>3, <1>9, <2>4 DEF Sorted
  <2>5. CASE i \in 1 .. m /\ j > m
    BY <1>8, <2>1, <2>2, <2>3, <2>5
  <2>6. CASE i > m /\ j > m
    <3>1. i - m \in 1 .. Len(t) /\ j - m \in 1 .. Len(t) /\ i - m < j - m
      BY <1>1, <1>3, <1>9, <2>6
    <3>2. u[i] = t[i - m] /\ u[j] = t[j - m]
      BY <2>1, <2>2, <2>3, <2>6
    <3>3. Precedes(t[i - m], t[j - m])
      BY <1>2, <3>1 DEF Sorted
    <3> QED
      BY <3>2, <3>3
  <2> QED
    BY <1>9, <2>1, <2>2, <2>3, <2>4, <2>5, <2>6
<1>10. \A i \in 1 .. m + Len(t) : u[i] \in Committed /\ RepositoryOf[u[i]] = repository
  BY <1>3, <1>4, <1>5
<1>11. u \in Seq(Release) /\ Sorted(u, repository)
  BY <1>2, <1>9, <1>10 DEF Sorted
<1> QED
  BY <1>11 DEF u

----------------------------------------------------------------------------
(* What the stores write. *)

(* What a transaction leaves of a release's rows. *)
Succeeds(x, y) == y \in Row /\ RowAgrees(y) /\ y.at = x.at

(* NULL is none of the values a column is compared with. *)
LEMMA NoneIsDistinct ==
  /\ None \notin Row /\ None \notin Active /\ None \notin Continues
  /\ None \notin {"PROMOTED", "ROLLED_BACK", "FAILED", "CANCELLED", "CONTINUED", "BLOCKED"}
  BY ManagementReportAssumption

(* The columns of a row. *)
LEMMA RowsOfRows ==
  ASSUME NEW x \in Row
  PROVE  /\ x.at \in Nat /\ x.pr \in PR \cup {None} /\ x.status \in Status /\ x.policy \in Policy
         /\ x.attempts \in Nat /\ x.attempt \in Attempt /\ x.strategy \in {None} \cup Continues
         /\ x.outcome \in Outcome /\ x.observations \in Nat /\ x.auditEvents \in Nat
  BY DEF Row

(* The same columns but for the named ones. *)
Columns(y, x, status, policy, attempts, attempt, outcome, observations) ==
  /\ y \in Row /\ y.at = x.at
  /\ y.status = status /\ y.policy = policy /\ y.attempts = attempts /\ y.attempt = attempt
  /\ y.outcome = outcome /\ y.observations = observations

LEMMA AuditedIsOfRows ==
  ASSUME NEW x \in Row
  PROVE  /\ Columns(Audited(x), x, x.status, x.policy, x.attempts, x.attempt, x.outcome, x.observations)
         /\ Audited(x).auditEvents = x.auditEvents + 1
  BY DEF Audited, Row, Columns

(* A transaction counts one event, and leaves at most one row more.        *)
LEMMA CountsGrow ==
  ASSUME NEW x \in Row, CountsAgree(x), NEW y \in Row, y.auditEvents = x.auditEvents + 1,
         \/ y.attempts = x.attempts /\ y.observations = x.observations /\ y.outcome = x.outcome
         \/ y.attempts = x.attempts + 1 /\ y.observations = x.observations /\ y.outcome = x.outcome
            /\ y.policy = x.policy
         \/ y.attempts = x.attempts /\ y.observations = x.observations + 1 /\ y.outcome = x.outcome
            /\ y.policy = x.policy
         \/ y.attempts = x.attempts /\ y.observations = x.observations /\ y.policy = x.policy
  PROVE  CountsAgree(y)
<1> DEFINE a == One(x.policy # None)
           b == One(x.outcome # None)
           c == One(y.policy # None)
           d == One(y.outcome # None)
<1>1. a \in {0, 1} /\ b \in {0, 1} /\ c \in {0, 1} /\ d \in {0, 1}
  BY DEF One
<1>2. (y.policy = x.policy => c = a) /\ (y.outcome = x.outcome => d = b)
  OBVIOUS
<1>3. x.auditEvents >= a + x.attempts + x.observations + b
  BY DEF CountsAgree
<1>4. /\ x.attempts \in Nat /\ x.observations \in Nat /\ x.auditEvents \in Nat
  BY RowsOfRows
<1>5. CountsAgree(y) <=> y.auditEvents >= c + y.attempts + y.observations + d
  BY DEF CountsAgree
<1> HIDE DEF a, b, c, d
<1> QED
  BY <1>1, <1>2, <1>3, <1>4, <1>5

(* recordReview *)
LEMMA ReviewSucceeds ==
  ASSUME NEW x \in Row, RowAgrees(x), NEW policy \in Policy \ {None}
  PROVE  Succeeds(x, Audited([x EXCEPT !.status = "REVIEWED", !.policy = policy]))
<1> DEFINE z == [x EXCEPT !.status = "REVIEWED", !.policy = policy]
           y == Audited(z)
<1>1. Columns(z, x, "REVIEWED", policy, x.attempts, x.attempt, x.outcome, x.observations)
      /\ z.auditEvents = x.auditEvents
  BY DEF Row, Columns, Status
<1> HIDE DEF z
<1>2. Columns(y, x, "REVIEWED", policy, x.attempts, x.attempt, x.outcome, x.observations)
      /\ y.auditEvents = x.auditEvents + 1
  BY <1>1, AuditedIsOfRows DEF Columns
<1> HIDE DEF y
<1>3. StatesAgree(y)
  BY <1>2 DEF Columns, StatesAgree, RowAgrees
<1>4. CountsAgree(y)
  BY <1>2, CountsGrow DEF Columns, RowAgrees
<1> QED
  BY <1>2, <1>3, <1>4 DEF Succeeds, RowAgrees, Columns, y, z

(* A delivery, by a release that is closed, restored or taken over.        *)
LEMMA DeliverySucceeds ==
  ASSUME NEW x \in Row, RowAgrees(x), NEW p \in PR, NEW action \in {"opened", "closed", "reopened"}
  PROVE  Succeeds(x, Audited([x EXCEPT !.pr = p,
                                       !.status = StatusAfter(action, @),
                                       !.attempt = IF action = "closed" THEN Ended(@) ELSE @]))
<1> DEFINE status == StatusAfter(action, x.status)
           attempt == IF action = "closed" THEN Ended(x.attempt) ELSE x.attempt
           z == [x EXCEPT !.pr = p, !.status = status, !.attempt = attempt]
           y == Audited(z)
<1>1. status \in Status /\ attempt \in Attempt
  BY RowsOfRows DEF StatusAfter, Ended, Status, Attempt
<1>2. /\ action = "closed" => status = "CANCELLED" /\ attempt = Ended(x.attempt)
      /\ action # "closed" => attempt = x.attempt
                             /\ (status = x.status \/ (status = "PENDING" /\ x.status = "CANCELLED"))
  BY DEF StatusAfter
<1>3. [x EXCEPT !.pr = p, !.status = StatusAfter(action, @),
                !.attempt = IF action = "closed" THEN Ended(@) ELSE @] = z
  OBVIOUS
<1> HIDE DEF status, attempt
<1>4. Columns(z, x, status, x.policy, x.attempts, attempt, x.outcome, x.observations)
      /\ z.auditEvents = x.auditEvents
  BY <1>1 DEF Row, Columns
<1> HIDE DEF z
<1>5. Columns(y, x, status, x.policy, x.attempts, attempt, x.outcome, x.observations)
      /\ y.auditEvents = x.auditEvents + 1
  BY <1>4, AuditedIsOfRows DEF Columns
<1> HIDE DEF y
<1>6. StatesAgree(y)
  <2>1. CASE action = "closed"
    <3>1. y.status = "CANCELLED" /\ y.attempt \notin Active /\ y.outcome = x.outcome
      BY <1>2, <1>5, <2>1 DEF Columns, Ended, Active
    <3>2. y.attempt \in {"PROMOTED", "ROLLED_BACK", "FAILED"} => y.attempt = x.attempt
      BY <1>2, <1>5, <2>1 DEF Columns, Ended
    <3> QED
      BY <3>1, <3>2 DEF StatesAgree, RowAgrees
  <2>2. CASE action # "closed"
    <3>1. y.attempt = x.attempt /\ y.outcome = x.outcome
          /\ (y.status = x.status \/ (y.status = "PENDING" /\ x.status = "CANCELLED"))
      BY <1>2, <1>5, <2>2 DEF Columns
    <3> QED
      BY <3>1 DEF StatesAgree, RowAgrees
  <2> QED
    BY <2>1, <2>2
<1>7. CountsAgree(y)
  BY <1>5, CountsGrow DEF Columns, RowAgrees
<1> QED
  BY <1>3, <1>5, <1>6, <1>7 DEF Succeeds, RowAgrees, Columns, y

LEMMA WorkflowRunSucceeds ==
  ASSUME NEW x \in Row, RowAgrees(x), NEW p \in PR
  PROVE  Succeeds(x, [x EXCEPT !.pr = p])
<1> DEFINE y == [x EXCEPT !.pr = p]
<1>1. Columns(y, x, x.status, x.policy, x.attempts, x.attempt, x.outcome, x.observations)
      /\ y.auditEvents = x.auditEvents
  BY DEF Row, Columns
<1> HIDE DEF y
<1>2. StatesAgree(y) /\ CountsAgree(y)
  BY <1>1 DEF Columns, StatesAgree, CountsAgree, RowAgrees
<1> QED
  BY <1>1, <1>2 DEF Succeeds, RowAgrees, Columns, y

(* recordStarted *)
LEMMA StartSucceeds ==
  ASSUME NEW x \in Row, RowAgrees(x), x.policy \in Continues
  PROVE  Succeeds(x, Audited([x EXCEPT !.status = "DEPLOYING", !.attempts = @ + 1,
                                       !.attempt = "STARTED", !.strategy = x.policy]))
<1> DEFINE n == x.attempts + 1
           z == [x EXCEPT !.status = "DEPLOYING", !.attempts = n, !.attempt = "STARTED",
                          !.strategy = x.policy]
           y == Audited(z)
<1>1. n \in Nat
  BY RowsOfRows
<1>2. [x EXCEPT !.status = "DEPLOYING", !.attempts = @ + 1, !.attempt = "STARTED",
                !.strategy = x.policy] = z
  OBVIOUS
<1>3. Columns(z, x, "DEPLOYING", x.policy, n, "STARTED", x.outcome, x.observations)
      /\ z.auditEvents = x.auditEvents
  <2> HIDE DEF n
  <2> QED
    BY <1>1 DEF Row, Columns, Status, Attempt
<1> HIDE DEF z
<1>4. Columns(y, x, "DEPLOYING", x.policy, n, "STARTED", x.outcome, x.observations)
      /\ y.auditEvents = x.auditEvents + 1
  BY <1>3, AuditedIsOfRows DEF Columns
<1> HIDE DEF y
<1>5. StatesAgree(y)
  BY <1>4 DEF Columns, StatesAgree, Active
<1>6. CountsAgree(y)
  BY <1>4, CountsGrow DEF Columns, RowAgrees
<1> QED
  BY <1>2, <1>4, <1>5, <1>6 DEF Succeeds, RowAgrees, Columns, y

(* recordObservation *)
LEMMA ObservationSucceeds ==
  ASSUME NEW x \in Row, RowAgrees(x), x.status = "DEPLOYING"
  PROVE  Succeeds(x, Audited([x EXCEPT !.attempt = "OBSERVING", !.observations = @ + 1]))
<1> DEFINE n == x.observations + 1
           z == [x EXCEPT !.attempt = "OBSERVING", !.observations = n]
           y == Audited(z)
<1>1. n \in Nat
  BY RowsOfRows
<1>2. [x EXCEPT !.attempt = "OBSERVING", !.observations = @ + 1] = z
  OBVIOUS
<1>3. Columns(z, x, x.status, x.policy, x.attempts, "OBSERVING", x.outcome, n)
      /\ z.auditEvents = x.auditEvents
  <2> HIDE DEF n
  <2> QED
    BY <1>1 DEF Row, Columns, Attempt
<1> HIDE DEF z
<1>4. Columns(y, x, "DEPLOYING", x.policy, x.attempts, "OBSERVING", x.outcome, n)
      /\ y.auditEvents = x.auditEvents + 1
  BY <1>3, AuditedIsOfRows DEF Columns
<1> HIDE DEF y
<1>5. StatesAgree(y)
  BY <1>4 DEF Columns, StatesAgree, Active
<1>6. CountsAgree(y)
  BY <1>4, CountsGrow DEF Columns, RowAgrees
<1> QED
  BY <1>2, <1>4, <1>5, <1>6 DEF Succeeds, RowAgrees, Columns, y

(* recordAttemptedOutcome: of a canary that continues, ... *)
LEMMA ContinuedCanarySucceeds ==
  ASSUME NEW x \in Row, RowAgrees(x), x.status = "DEPLOYING"
  PROVE  Succeeds(x, Audited([x EXCEPT !.attempt = "OBSERVING", !.outcome = "CONTINUED"]))
<1> DEFINE z == [x EXCEPT !.attempt = "OBSERVING", !.outcome = "CONTINUED"]
           y == Audited(z)
<1>1. Columns(z, x, x.status, x.policy, x.attempts, "OBSERVING", "CONTINUED", x.observations)
      /\ z.auditEvents = x.auditEvents
  BY DEF Row, Columns, Attempt, Outcome
<1> HIDE DEF z
<1>2. Columns(y, x, "DEPLOYING", x.policy, x.attempts, "OBSERVING", "CONTINUED", x.observations)
      /\ y.auditEvents = x.auditEvents + 1
  BY <1>1, AuditedIsOfRows DEF Columns
<1> HIDE DEF y
<1>3. StatesAgree(y)
  BY <1>2 DEF Columns, StatesAgree, Active
<1>4. CountsAgree(y)
  BY <1>2, CountsGrow DEF Columns, RowAgrees
<1> QED
  BY <1>2, <1>3, <1>4 DEF Succeeds, RowAgrees, Columns, y, z

(* ... and of an attempt that is over. *)
LEMMA OutcomeSucceeds ==
  ASSUME NEW x \in Row, RowAgrees(x), NEW attempt \in {"PROMOTED", "ROLLED_BACK", "FAILED"},
         NEW result \in OutcomesOf(attempt) \ {"BLOCKED"}
  PROVE  Succeeds(x, Audited([x EXCEPT !.status = "COMPLETED", !.attempt = attempt, !.outcome = result]))
<1> DEFINE z == [x EXCEPT !.status = "COMPLETED", !.attempt = attempt, !.outcome = result]
           y == Audited(z)
<1>1. attempt \in Attempt /\ result \in Outcome
  BY DEF OutcomesOf, Attempt, Outcome
<1>2. Columns(z, x, "COMPLETED", x.policy, x.attempts, attempt, result, x.observations)
      /\ z.auditEvents = x.auditEvents
  BY <1>1 DEF Row, Columns, Status
<1> HIDE DEF z
<1>3. Columns(y, x, "COMPLETED", x.policy, x.attempts, attempt, result, x.observations)
      /\ y.auditEvents = x.auditEvents + 1
  BY <1>2, AuditedIsOfRows DEF Columns
<1> HIDE DEF y
<1>4. StatesAgree(y)
  <2>1. attempt \notin Active \cup {None}
    BY NoneIsDistinct DEF Active
  <2> QED
    BY <1>3, <2>1 DEF Columns, StatesAgree
<1>5. CountsAgree(y)
  BY <1>3, CountsGrow DEF Columns, RowAgrees
<1> QED
  BY <1>3, <1>4, <1>5 DEF Succeeds, RowAgrees, Columns, y, z

(* recordBlockedOutcome: the attempt stays as it is, and its outcome goes. *)
LEMMA BlockedSucceeds ==
  ASSUME NEW x \in Row, RowAgrees(x)
  PROVE  Succeeds(x, Audited([x EXCEPT !.status = "COMPLETED", !.outcome = "BLOCKED"]))
<1> DEFINE z == [x EXCEPT !.status = "COMPLETED", !.outcome = "BLOCKED"]
           y == Audited(z)
<1>1. Columns(z, x, "COMPLETED", x.policy, x.attempts, x.attempt, "BLOCKED", x.observations)
      /\ z.auditEvents = x.auditEvents
  BY DEF Row, Columns, Status, Outcome
<1> HIDE DEF z
<1>2. Columns(y, x, "COMPLETED", x.policy, x.attempts, x.attempt, "BLOCKED", x.observations)
      /\ y.auditEvents = x.auditEvents + 1
  BY <1>1, AuditedIsOfRows DEF Columns
<1> HIDE DEF y
<1>3. StatesAgree(y)
  BY <1>2 DEF Columns, StatesAgree, OutcomesOf
<1>4. CountsAgree(y)
  BY <1>2, CountsGrow DEF Columns, RowAgrees
<1> QED
  BY <1>2, <1>3, <1>4 DEF Succeeds, RowAgrees, Columns, y, z

LEMMA SupersessionSucceeds ==
  ASSUME NEW x \in Row, RowAgrees(x)
  PROVE  Succeeds(x, [x EXCEPT !.status = "SUPERSEDED", !.attempt = Ended(@)])
<1> DEFINE attempt == Ended(x.attempt)
           y == [x EXCEPT !.status = "SUPERSEDED", !.attempt = attempt]
<1>1. attempt \in Attempt /\ attempt \notin Active
      /\ (attempt \in {"PROMOTED", "ROLLED_BACK", "FAILED"} => attempt = x.attempt)
  BY RowsOfRows DEF Ended, Attempt, Active
<1>2. [x EXCEPT !.status = "SUPERSEDED", !.attempt = Ended(@)] = y
  OBVIOUS
<1> HIDE DEF attempt
<1>3. Columns(y, x, "SUPERSEDED", x.policy, x.attempts, attempt, x.outcome, x.observations)
      /\ y.auditEvents = x.auditEvents
  BY <1>1 DEF Row, Columns, Status
<1> HIDE DEF y
<1>4. StatesAgree(y) /\ CountsAgree(y)
  BY <1>1, <1>3 DEF Columns, StatesAgree, CountsAgree, RowAgrees
<1> QED
  BY <1>2, <1>3, <1>4 DEF Succeeds, RowAgrees, Columns

(* The columns agree after each transaction if they did before. *)
LEMMA TransactionsSucceed ==
  ASSUME TablesInv, NEW r \in Committed,
         \/ RecordReview(r) \/ RecordDelivery(r) \/ RecordWorkflowRun(r) \/ RecordStarted(r)
         \/ RecordObservation(r) \/ RecordAttemptedOutcome(r) \/ RecordBlockedOutcome(r)
         \/ Supersede(r)
  PROVE  \E new : Succeeds(row[r], new) /\ Change(r, new)
<1>1. row[r] \in Row /\ RowAgrees(row[r])
  BY RowIsTyped DEF TablesInv, Committed
<1>2. CASE RecordReview(r)
  BY <1>1, <1>2, ReviewSucceeds DEF RecordReview
<1>3. CASE RecordDelivery(r)
  BY <1>1, <1>3, DeliverySucceeds DEF RecordDelivery
<1>4. CASE RecordWorkflowRun(r)
  BY <1>1, <1>4, WorkflowRunSucceeds DEF RecordWorkflowRun
<1>5. CASE RecordStarted(r)
  BY <1>1, <1>5, StartSucceeds DEF RecordStarted
<1>6. CASE RecordObservation(r)
  BY <1>1, <1>6, ObservationSucceeds DEF RecordObservation
<1>7. CASE RecordAttemptedOutcome(r)
  <2>1. CASE Change(r, Audited([row[r] EXCEPT !.attempt = "OBSERVING", !.outcome = "CONTINUED"]))
    BY <1>1, <1>7, <2>1, ContinuedCanarySucceeds DEF RecordAttemptedOutcome
  <2>2. CASE \E attempt \in {"PROMOTED", "ROLLED_BACK", "FAILED"} :
               \E result \in OutcomesOf(attempt) \ {"BLOCKED"} :
                 Change(r, Audited([row[r] EXCEPT !.status = "COMPLETED", !.attempt = attempt,
                                                  !.outcome = result]))
    BY <1>1, <2>2, OutcomeSucceeds
  <2>3. "CONTINUED" \in OutcomesOf("PROMOTED") \ {"BLOCKED"}
        /\ \A result \in {"PROMOTED", "ROLLED_BACK", "FAILED"} :
             result \in OutcomesOf(result) \ {"BLOCKED"}
    BY DEF OutcomesOf
  <2> QED
    BY <1>7, <2>1, <2>2, <2>3 DEF RecordAttemptedOutcome
<1>8. CASE RecordBlockedOutcome(r)
  BY <1>1, <1>8, BlockedSucceeds DEF RecordBlockedOutcome
<1>9. CASE Supersede(r)
  BY <1>1, <1>9, SupersessionSucceeds DEF Supersede
<1> QED
  BY <1>2, <1>3, <1>4, <1>5, <1>6, <1>7, <1>8, <1>9

(* A committed release stays, with its stamp. *)
Stays == \A r \in Committed : r \in Committed' /\ row'[r].at = row[r].at

LEMMA ChangeStays ==
  ASSUME TablesInv, NEW r \in Committed, NEW new, Succeeds(row[r], new), Change(r, new)
  PROVE  TablesInv' /\ Stays /\ UNCHANGED accessVars
<1>1. /\ row' = [row EXCEPT ![r] = new] /\ clock' = clock /\ UNCHANGED accessVars
      /\ transactions' = transactions + 1
  BY DEF Change
<1>2. new \in Row /\ RowAgrees(new) /\ new.at = row[r].at /\ new # None
  BY ManagementReportAssumption DEF Succeeds
<1>3. /\ row' \in [Release -> Row \cup {None}] /\ row'[r] = new
      /\ \A q \in Release \ {r} : row'[q] = row[q]
  BY <1>1, <1>2, RowIsTyped DEF TablesInv
<1>4. Committed' = Committed
  BY <1>2, <1>3 DEF Committed
<1>5. Stays
  BY <1>2, <1>3, <1>4 DEF Stays, Committed
<1>6. \A q \in Release : row'[q] # None => RowAgrees(row'[q])
  BY <1>2, <1>3 DEF TablesInv
<1>7. IsFiniteSet(Committed')
  BY <1>4 DEF TablesInv
<1> QED
  BY <1>1, <1>3, <1>5, <1>6, <1>7 DEF TablesInv

(* Whatever is written, the tables agree, a committed release stays, and   *)
(* neither the credential nor access comes back.                           *)
LEMMA WriteStays ==
  ASSUME TablesInv, Write
  PROVE  TablesInv' /\ Stays /\ (credential' => credential) /\ granted' \subseteq granted
<1>1. ASSUME row' = row, clock' \in Nat, transactions' = transactions
      PROVE  TablesInv' /\ Stays
  <2>1. Committed' = Committed
    BY <1>1 DEF Committed
  <2> QED
    BY <1>1, <2>1 DEF TablesInv, Stays
<1>2. CASE Tick
  BY <1>1, <1>2 DEF Tick, TablesInv, accessVars
<1>3. CASE Revoke \/ (\E repository \in Repository : Withdraw(repository))
  BY <1>1, <1>3 DEF Withdraw, Revoke, TablesInv
<1>4. ASSUME NEW r \in Release, CommitRelease(r)
      PROVE  TablesInv' /\ Stays /\ UNCHANGED accessVars
  <2> DEFINE First(at, p) ==
               [at |-> at, pr |-> p, status |-> "PENDING", policy |-> None, attempts |-> 0,
                attempt |-> None, strategy |-> None, outcome |-> None, observations |-> 0,
                auditEvents |-> 0]
  <2>1. row[r] = None
    BY <1>4 DEF CommitRelease
  <2>2. PICK at \in 1 .. clock, p \in {p \in PR : HeadOf[p] = r} \cup {None} :
          Change(r, First(at, p)) \/ Change(r, Audited(First(at, p)))
    BY <1>4 DEF CommitRelease
  <2>3. PICK new : new \in {First(at, p), Audited(First(at, p))} /\ Change(r, new)
    BY <2>2
  <2>4. First(at, p) \in Row
    <3>1. at \in Nat /\ p \in PR \cup {None}
      BY DEF TablesInv
    <3> QED
      BY <3>1 DEF Row, Status, Policy, Attempt, Outcome
  <2>5. new \in Row /\ RowAgrees(new)
    <3>1. PICK first : first = First(at, p)
      OBVIOUS
    <3>2. /\ first \in Row /\ first.status = "PENDING" /\ first.policy = None /\ first.attempts = 0
          /\ first.attempt = None /\ first.outcome = None /\ first.observations = 0
          /\ first.auditEvents = 0
      BY <2>4, <3>1
    <3>3. /\ new \in Row /\ new.status = "PENDING" /\ new.policy = None /\ new.attempts = 0
          /\ new.attempt = None /\ new.outcome = None /\ new.observations = 0
          /\ new.auditEvents \in Nat
      <4> HIDE DEF First
      <4>1. new = first \/ new = Audited(first)
        BY <2>3, <3>1
      <4> QED
        BY <3>2, <4>1, AuditedIsOfRows, RowsOfRows DEF Columns
    <3>4. StatesAgree(new)
      BY <3>3, NoneIsDistinct DEF StatesAgree
    <3>5. CountsAgree(new)
      BY <3>3 DEF CountsAgree, One
    <3> QED
      BY <3>3, <3>4, <3>5 DEF RowAgrees
  <2>6. /\ row' = [row EXCEPT ![r] = new] /\ transactions' = transactions + 1 /\ clock' = clock
        /\ UNCHANGED accessVars
    BY <2>3 DEF Change
  <2>7. /\ row' \in [Release -> Row \cup {None}] /\ row'[r] = new
        /\ \A q \in Release \ {r} : row'[q] = row[q]
    BY <2>5, <2>6 DEF TablesInv
  <2>8. Committed' = Committed \cup {r}
    BY <2>5, <2>7, ManagementReportAssumption DEF Committed
  <2>9. IsFiniteSet(Committed')
    BY <2>8, FS_AddElement DEF TablesInv
  <2>10. Stays
    BY <2>1, <2>7, <2>8 DEF Stays, Committed
  <2>11. \A q \in Release : row'[q] # None => RowAgrees(row'[q])
    BY <2>5, <2>7 DEF TablesInv
  <2> QED
    BY <2>6, <2>7, <2>9, <2>10, <2>11 DEF TablesInv
<1>5. ASSUME NEW r \in {r \in Release : row[r] # None},
             \/ RecordReview(r) \/ RecordDelivery(r) \/ RecordWorkflowRun(r) \/ RecordStarted(r)
             \/ RecordObservation(r) \/ RecordAttemptedOutcome(r) \/ RecordBlockedOutcome(r)
             \/ Supersede(r)
      PROVE  TablesInv' /\ Stays /\ UNCHANGED accessVars
  <2>1. r \in Committed
    BY DEF Committed
  <2>2. PICK new : Succeeds(row[r], new) /\ Change(r, new)
    BY <1>5, <2>1, TransactionsSucceed
  <2> QED
    BY <2>1, <2>2, ChangeStays
<1> QED
  BY <1>2, <1>3, <1>4, <1>5 DEF Write, Withdraw, Revoke, Tick, accessVars

----------------------------------------------------------------------------
(* What has been read stays in order, and goes on where it did.            *)

LEMMA OrderStays ==
  ASSUME TablesInv, TablesInv', Stays
  PROVE  /\ \A r \in Committed : r \in Committed' /\ CursorOf(r)' = CursorOf(r)
         /\ \A r \in Committed : IsoDateTime(row[r].at)' = IsoDateTime(row[r].at)
         /\ \A p, r \in Committed : Precedes(p, r)' = Precedes(p, r)
         /\ \A r \in Committed : \A cursor : Older(cursor, r)' = Older(cursor, r)
<1>1. \A r \in Committed : r \in Committed' /\ row'[r].at = row[r].at
  BY DEF Stays
<1>2. \A r \in Committed : CursorOf(r)' = CursorOf(r)
  BY <1>1 DEF CursorOf, IsoDateTime
<1>3. \A r \in Committed : IsoDateTime(row[r].at)' = IsoDateTime(row[r].at)
  BY <1>1 DEF IsoDateTime
<1>4. \A p, r \in Committed : Precedes(p, r)' = Precedes(p, r)
  BY <1>1 DEF Precedes
<1>5. \A r \in Committed : \A cursor : Older(cursor, r)' = Older(cursor, r)
  BY <1>1 DEF Older
<1> QED
  BY <1>1, <1>2, <1>3, <1>4, <1>5

LEMMA ReadingStays ==
  ASSUME TablesInv, TablesInv', Stays,
         NEW s \in Seq(Release), \A i \in DOMAIN s : s[i] \in Committed,
         NEW repository, NEW cursor, NEW S \in SUBSET Committed
  PROVE  /\ Sorted(s, repository) => Sorted(s, repository)'
         /\ GoesOn(s, cursor) => GoesOn(s, cursor)'
         /\ Covers(s, cursor, S) => Covers(s, cursor, S)'
<1>1. Sorted(s, repository) => Sorted(s, repository)'
  BY OrderStays DEF Sorted
<1>2. ASSUME GoesOn(s, cursor), cursor # None
      PROVE  s # <<>> /\ cursor = CursorOf(s[Len(s)])'
  <2>1. s # <<>> /\ cursor = CursorOf(s[Len(s)])
    BY <1>2 DEF GoesOn
  <2>2. Len(s) \in DOMAIN s
    BY <2>1
  <2> QED
    BY <2>1, <2>2, OrderStays
<1>3. GoesOn(s, cursor) => GoesOn(s, cursor)'
  BY <1>2 DEF GoesOn
<1>4. Covers(s, cursor, S) => Covers(s, cursor, S)'
  BY OrderStays DEF Covers, Listed, Shares
<1> QED
  BY <1>1, <1>3, <1>4

(* The writers change nothing of what the page has or is about to have. *)
LEMMA WriteKeepsHistory ==
  ASSUME TablesInv, TablesInv', Stays, PageTypes, HistoryInv, AnswerInv, UNCHANGED clientVars
  PROVE  HistoryInv' /\ AnswerInv'
<1>1. /\ releases' = releases /\ nextCursor' = nextCursor /\ scope' = scope /\ known' = known
      /\ request' = request
  BY DEF clientVars, pageVars
<1>2. Busy' = Busy /\ Replacing' = Replacing /\ At("ANSWERED")' = At("ANSWERED")
  BY <1>1 DEF Busy, Replacing, At
<1>3. HistoryInv'
  <2>1. ASSUME ~Replacing
        PROVE  /\ Sorted(releases, scope)'
               /\ GoesOn(releases, nextCursor)'
               /\ releases # <<>> =>
                    /\ Covers(releases, nextCursor, known)'
                    /\ \A r \in known : r \in Committed' /\ RepositoryOf[r] = scope
    <3>1. /\ Sorted(releases, scope) /\ GoesOn(releases, nextCursor)
          /\ releases # <<>> =>
               /\ Covers(releases, nextCursor, known)
               /\ \A r \in known : r \in Committed /\ RepositoryOf[r] = scope
      BY <2>1 DEF HistoryInv
    <3>2. releases \in Seq(Release) /\ \A i \in DOMAIN releases : releases[i] \in Committed
      BY <3>1 DEF PageTypes, Sorted
    <3>3. Sorted(releases, scope)' /\ GoesOn(releases, nextCursor)'
      <4>1. PICK s, repository, cursor : s = releases /\ repository = scope /\ cursor = nextCursor
        OBVIOUS
      <4>2. Sorted(s, repository)' /\ GoesOn(s, cursor)'
        BY <3>1, <3>2, <4>1, ReadingStays
      <4> QED
        BY <1>1, <4>1, <4>2 DEF Sorted, GoesOn, CursorOf, Precedes, Committed
    <3>4. ASSUME releases # <<>>
          PROVE  Covers(releases, nextCursor, known)'
      <4>1. PICK s, cursor, S : s = releases /\ cursor = nextCursor /\ S = known
        OBVIOUS
      <4>2. S \in SUBSET Committed
        BY <3>1, <3>4, <4>1
      <4>3. Covers(s, cursor, S)'
        BY <3>1, <3>2, <3>4, <4>1, <4>2, ReadingStays
      <4> QED
        BY <1>1, <4>1, <4>3 DEF Covers, Listed, Shares, Older
    <3> QED
      BY <3>1, <3>3, <3>4, OrderStays
  <2> QED
    BY <1>1, <1>2, <2>1 DEF HistoryInv
<1>4. AnswerInv'
  <2> SUFFICES ASSUME At("ANSWERED"), request.kind = "LIST"
               PROVE  AnswerInv'
    BY <1>1, <1>2 DEF AnswerInv
  <2>1. PICK req, S : req = request /\ S = known
    OBVIOUS
  <2> DEFINE page == req.answer
             next == {r \in S : Older(req.cursor, r)}
  <2>2. /\ page \in ListAnswer
        /\ Sorted(page.releases, req.repository) /\ GoesOn(page.releases, page.nextCursor)
        /\ req.append => /\ \A i \in DOMAIN page.releases : Older(req.cursor, page.releases[i])
                         /\ Covers(page.releases, page.nextCursor, next)
        /\ ~req.append => /\ Covers(page.releases, page.nextCursor, req.held)
                          /\ \A r \in req.held : r \in Committed /\ RepositoryOf[r] = req.repository
    BY <2>1 DEF AnswerInv
  <2>3. page.releases \in Seq(Release) /\ \A i \in DOMAIN page.releases : page.releases[i] \in Committed
    BY <2>2 DEF ListAnswer, Sorted
  <2>4. req.append => S \subseteq Committed
    <3> SUFFICES ASSUME req.append PROVE S \subseteq Committed
      OBVIOUS
    <3>1. ~Replacing /\ Busy /\ nextCursor # None
      BY <2>1 DEF Replacing, At, HistoryInv
    <3>2. releases # <<>>
      BY <3>1 DEF HistoryInv, GoesOn
    <3> QED
      BY <2>1, <3>1, <3>2 DEF HistoryInv
  <2>5. Sorted(page.releases, req.repository)' /\ GoesOn(page.releases, page.nextCursor)'
    BY <2>2, <2>3, ReadingStays
  <2>6. ASSUME req.append
        PROVE  /\ \A i \in DOMAIN page.releases : Older(req.cursor, page.releases[i])'
               /\ Covers(page.releases, page.nextCursor, {r \in S : Older(req.cursor, r)})'
    <3>1. \A i \in DOMAIN page.releases : Older(req.cursor, page.releases[i])'
      BY <2>2, <2>3, <2>6, OrderStays
    <3>2. next \in SUBSET Committed /\ {r \in S : Older(req.cursor, r)'} = next
      BY <2>4, <2>6, OrderStays
    <3>3. Covers(page.releases, page.nextCursor, next)'
      <4>1. PICK T : T = next
        OBVIOUS
      <4> HIDE DEF next, page
      <4>2. Covers(page.releases, page.nextCursor, T)'
        BY <2>2, <2>3, <2>6, <3>2, <4>1, ReadingStays
      <4> QED
        BY <3>2, <4>1, <4>2 DEF Covers, Listed, Shares, Older, next
    <3> QED
      BY <3>1, <3>2, <3>3 DEF Covers, Listed, Shares, Older
  <2>7. ASSUME ~req.append
        PROVE  /\ Covers(page.releases, page.nextCursor, req.held)'
               /\ \A r \in req.held : r \in Committed' /\ RepositoryOf[r] = req.repository
    <3>1. req.held \in SUBSET Committed
      BY <2>2, <2>7
    <3> QED
      BY <2>2, <2>3, <2>7, <3>1, ReadingStays, OrderStays
  <2>8. /\ Sorted(request.answer.releases, request.repository)'
        /\ GoesOn(request.answer.releases, request.answer.nextCursor)'
    BY <1>1, <2>1, <2>5 DEF Sorted, GoesOn, CursorOf, Precedes, Committed
  <2>9. ASSUME request.append
        PROVE  /\ \A i \in DOMAIN request'.answer.releases : Older(request.cursor, request.answer.releases[i])'
               /\ Covers(request.answer.releases, request.answer.nextCursor,
                         {r \in known : Older(request.cursor, r)})'
    BY <1>1, <2>1, <2>6, <2>9 DEF Covers, Listed, Shares, Older
  <2>10. ASSUME ~request.append
         PROVE  /\ Covers(request.answer.releases, request.answer.nextCursor, request.held)'
                /\ \A r \in request'.held : r \in Committed' /\ RepositoryOf[r] = request'.repository
    BY <1>1, <2>1, <2>7, <2>10 DEF Covers, Listed, Shares, Older
  <2>11. request'.answer \in ListAnswer
    BY <1>1, <2>1, <2>2
  <2> QED
    BY <1>1, <2>8, <2>9, <2>10, <2>11 DEF AnswerInv
<1> QED
  BY <1>3, <1>4

----------------------------------------------------------------------------
(* The page and the service: types. *)

RequestIs(req, kind, repository, append, cursor, entitled, stage) ==
  /\ req \in Request /\ req # None
  /\ req.kind = kind /\ req.repository = repository /\ req.append = append /\ req.cursor = cursor
  /\ req.entitled = entitled /\ req.stage = stage

LEMMA SendIsTyped ==
  ASSUME PageTypes, NEW bearer \in BOOLEAN, NEW kind \in {"LIST", "DETAIL", "EVIDENCE"},
         NEW repository \in Repository \cup {None}, NEW append \in BOOLEAN,
         NEW release \in Release \cup {None}, Send(bearer, kind, repository, append, release)
  PROVE  RequestIs(request', kind, repository, append, IF append THEN nextCursor ELSE None,
                   Entitled(repository), "SENT")
<1> DEFINE cursor == IF append THEN nextCursor ELSE None
           entitled == Entitled(repository)
<1>1. cursor \in Cursor \cup {None} /\ entitled \in BOOLEAN
  BY DEF PageTypes, Entitled
<1>2. request' = [kind |-> kind, repository |-> repository, append |-> append, release |-> release,
                  cursor |-> cursor, bearer |-> bearer, entitled |-> entitled,
                  stage |-> "SENT", view |-> None, held |-> {}, answer |-> None]
  BY DEF Send
<1> HIDE DEF cursor, entitled
<1>3. request' \in Request
  BY <1>1, <1>2 DEF Request
<1>4. request' # None
  BY <1>3, DashboardAssumption
<1> QED
  BY <1>2, <1>3, <1>4 DEF RequestIs, cursor, entitled

(* What a step of the service leaves of a request. *)
Answering(before, after) ==
  /\ after.kind = before.kind /\ after.repository = before.repository /\ after.append = before.append
  /\ after.cursor = before.cursor /\ after.entitled = before.entitled

LEMMA AdvanceIsTyped ==
  ASSUME request \in Request, NEW stage \in {"AUTHENTICATED", "AUTHORIZED"}, Advance(stage)
  PROVE  /\ request' \in Request /\ request' # None
         /\ Answering(request, request')
         /\ request'.stage = stage
<1>1. request' = [request EXCEPT !.stage = stage]
  BY DEF Advance
<1>2. request' \in Request
  BY <1>1 DEF Request
<1>3. request' # None
  BY <1>2, DashboardAssumption
<1> QED
  BY <1>1, <1>2, <1>3 DEF Request, Answering

(* A page of the history is an answer. *)
LEMMA ReadListIsTyped ==
  ASSUME TablesInv, request \in Request, ReadList
  PROVE  /\ request' \in Request /\ request' # None
         /\ Answering(request, request')
         /\ request'.stage = "ANSWERED" /\ request'.kind = "LIST"
         /\ request'.answer = Page(Rows(request.repository, request.cursor))
         /\ request'.held = History(request.repository)
<1>1. PICK page, held : page = Page(Rows(request.repository, request.cursor)) /\ held = History(request.repository)
  OBVIOUS
<1>2. page \in ListAnswer
  <2>1. PICK repository, cursor : repository = request.repository /\ cursor = request.cursor
    OBVIOUS
  <2> QED
    BY <1>1, <2>1, PageIsWhole
<1>3. held \in SUBSET Release
  BY <1>1 DEF History
<1>4. /\ request' = [request EXCEPT !.stage = "ANSWERED", !.answer = page, !.held = held]
      /\ request.kind = "LIST"
  BY <1>1 DEF ReadList
<1>5. request' \in Request
  BY <1>2, <1>3, <1>4 DEF Request
<1>6. request' # None
  BY <1>5, DashboardAssumption
<1>7. /\ request'.kind = request.kind /\ request'.repository = request.repository
      /\ request'.append = request.append /\ request'.cursor = request.cursor
      /\ request'.entitled = request.entitled
      /\ request'.stage = "ANSWERED" /\ request'.answer = page /\ request'.held = held
  BY <1>4 DEF Request
<1> QED
  BY <1>1, <1>4, <1>5, <1>6, <1>7 DEF Answering

LEMMA SectionsAreTyped ==
  ASSUME NEW x \in Row
  PROVE  /\ Summary(x) \in [status : Status, policy : Policy, outcome : Outcome]
         /\ AttemptSection(x) \in [attempts : Part, last : Attempt, observations : Part]
         /\ AuditSection(x) \in [auditEvents : Part]
<1>1. \A n \in Nat : /\ Bounded(n, MaximumAttempts) \in Part /\ Bounded(n, MaximumObservations) \in Part
                     /\ Bounded(n, MaximumAuditEvents) \in Part
  BY ManagementReportAssumption DEF Bounded, Part
<1> QED
  BY <1>1, RowsOfRows DEF Summary, AttemptSection, AuditSection, Attempt

(* The queries of a detail, each on the row the first one saw. *)
LEMMA DetailIsTyped ==
  ASSUME TablesInv, request \in Request, Busy, DetailInv,
         BeginDetail \/ ReadSummary \/ ReadAttempts \/ ReadAudit
  PROVE  /\ request' \in Request /\ request' # None
         /\ Answering(request, request') /\ request.kind # "LIST"
         /\ \/ request.stage = "AUTHORIZED" /\ request'.stage = "READ"
            \/ request.stage \in {"READ", "READ_ATTEMPTS", "READ_AUDIT"}
         /\ DetailInv'
<1>1. CASE BeginDetail
  <2>1. /\ request.stage = "AUTHORIZED" /\ request.kind # "LIST"
        /\ request.release \in History(request.repository)
        /\ request' = [request EXCEPT !.stage = "READ", !.view = row[request.release]]
    BY <1>1 DEF BeginDetail, At
  <2>2. PICK x : x = row[request.release]
    OBVIOUS
  <2>3. x \in Row /\ RowAgrees(x)
    <3>1. request.release \in Committed
      BY <2>1 DEF History, Committed
    <3> QED
      BY <2>2, <3>1, RowIsTyped DEF TablesInv, Committed
  <2>4. request' \in Request
    BY <2>1, <2>2, <2>3 DEF Request
  <2>5. /\ request'.stage = "READ" /\ request'.view = x
        /\ request'.kind = request.kind /\ request'.repository = request.repository
        /\ request'.append = request.append /\ request'.cursor = request.cursor
        /\ request'.entitled = request.entitled
    BY <2>1, <2>2 DEF Request
  <2>6. DetailInv'
    BY <2>1, <2>3, <2>5 DEF DetailInv
  <2>7. request' # None
    BY <2>4, DashboardAssumption
  <2> QED
    BY <2>1, <2>4, <2>5, <2>6, <2>7 DEF Answering
<1> DEFINE x == request.view
<1>2. CASE ReadSummary
  <2> DEFINE answer == [summary |-> Summary(x), attempts |-> None, audit |-> None]
  <2>1. /\ request.stage = "READ"
        /\ request' = [request EXCEPT !.stage = "READ_ATTEMPTS", !.answer = answer]
    BY <1>2 DEF ReadSummary, At, Seen
  <2>2. request.kind # "LIST" /\ x \in Row /\ RowAgrees(x)
    BY <2>1 DEF DetailInv
  <2>3. answer \in DetailAnswer
    BY <2>2, SectionsAreTyped DEF DetailAnswer
  <2> HIDE DEF answer
  <2>4. request' \in Request
    BY <2>1, <2>3 DEF Request
  <2>5. /\ request'.stage = "READ_ATTEMPTS" /\ request'.view = x /\ request'.answer = answer
        /\ request'.kind = request.kind /\ request'.repository = request.repository
        /\ request'.append = request.append /\ request'.cursor = request.cursor
        /\ request'.entitled = request.entitled
    BY <2>1 DEF Request
  <2>6. DetailInv'
    BY <2>2, <2>5 DEF DetailInv, answer
  <2>7. request' # None
    BY <2>4, DashboardAssumption
  <2> QED
    BY <2>1, <2>2, <2>4, <2>5, <2>6, <2>7 DEF Answering
<1>3. CASE ReadAttempts
  <2> DEFINE answer == [summary |-> Summary(x), attempts |-> AttemptSection(x), audit |-> None]
  <2>1. request.stage = "READ_ATTEMPTS"
    BY <1>3 DEF ReadAttempts, At
  <2>2. /\ request.kind # "LIST" /\ x \in Row /\ RowAgrees(x)
        /\ request.answer = [summary |-> Summary(x), attempts |-> None, audit |-> None]
    BY <2>1 DEF DetailInv
  <2>3. request' = [request EXCEPT !.stage = "READ_AUDIT", !.answer = answer]
    <3>1. [request.answer EXCEPT !.attempts = AttemptSection(x)] = answer
      BY <2>2
    <3>2. request' = [request EXCEPT !.stage = "READ_AUDIT",
                                     !.answer = [request.answer EXCEPT !.attempts = AttemptSection(x)]]
      BY <1>3 DEF ReadAttempts, Seen, Request
    <3> QED
      BY <3>1, <3>2
  <2>4. answer \in DetailAnswer
    BY <2>2, SectionsAreTyped DEF DetailAnswer
  <2> HIDE DEF answer
  <2>5. request' \in Request
    BY <2>3, <2>4 DEF Request
  <2>6. /\ request'.stage = "READ_AUDIT" /\ request'.view = x /\ request'.answer = answer
        /\ request'.kind = request.kind /\ request'.repository = request.repository
        /\ request'.append = request.append /\ request'.cursor = request.cursor
        /\ request'.entitled = request.entitled
    BY <2>3 DEF Request
  <2>7. DetailInv'
    BY <2>2, <2>6 DEF DetailInv, answer
  <2>8. request' # None
    BY <2>5, DashboardAssumption
  <2> QED
    BY <2>1, <2>2, <2>5, <2>6, <2>7, <2>8 DEF Answering
<1>4. CASE ReadAudit
  <2> DEFINE answer == [summary |-> Summary(x), attempts |-> AttemptSection(x), audit |-> AuditSection(x)]
  <2>1. request.stage = "READ_AUDIT"
    BY <1>4 DEF ReadAudit, At
  <2>2. /\ request.kind # "LIST" /\ x \in Row /\ RowAgrees(x)
        /\ request.answer = [summary |-> Summary(x), attempts |-> AttemptSection(x), audit |-> None]
    BY <2>1 DEF DetailInv
  <2>3. request' = [request EXCEPT !.stage = "ANSWERED", !.answer = answer]
    <3>1. [request.answer EXCEPT !.audit = AuditSection(x)] = answer
      BY <2>2
    <3>2. request' = [request EXCEPT !.stage = "ANSWERED",
                                     !.answer = [request.answer EXCEPT !.audit = AuditSection(x)]]
      BY <1>4 DEF ReadAudit, Seen, Request
    <3> QED
      BY <3>1, <3>2
  <2>4. answer \in DetailAnswer
    BY <2>2, SectionsAreTyped DEF DetailAnswer
  <2> HIDE DEF answer
  <2>5. request' \in Request
    BY <2>3, <2>4 DEF Request
  <2>6. /\ request'.stage = "ANSWERED" /\ request'.view = x /\ request'.answer = answer
        /\ request'.kind = request.kind /\ request'.repository = request.repository
        /\ request'.append = request.append /\ request'.cursor = request.cursor
        /\ request'.entitled = request.entitled
    BY <2>3 DEF Request
  <2>7. DetailInv'
    BY <2>2, <2>6 DEF DetailInv, answer
  <2>8. request' # None
    BY <2>5, DashboardAssumption
  <2> QED
    BY <2>1, <2>2, <2>5, <2>6, <2>7, <2>8 DEF Answering
<1> QED
  BY <1>1, <1>2, <1>3, <1>4

----------------------------------------------------------------------------
(* The page and the service: the history. *)

(* A step that leaves the history on display, and a request that asks as   *)
(* before or for nothing of it.                                            *)
LEMMA DisplayStays ==
  ASSUME HistoryInv, UNCHANGED <<tableVars, scope, releases, nextCursor, known>>,
         Replacing' = Replacing,
         Busy' => request'.repository = scope,
         Busy' /\ request'.kind = "LIST" =>
           request'.cursor = nextCursor /\ (request'.append = (nextCursor # None))
  PROVE  HistoryInv'
<1>1. /\ row' = row /\ scope' = scope /\ releases' = releases /\ nextCursor' = nextCursor /\ known' = known
  BY DEF tableVars
<1>2. /\ Sorted(releases, scope)' = Sorted(releases, scope)
      /\ GoesOn(releases, nextCursor)' = GoesOn(releases, nextCursor)
      /\ Covers(releases, nextCursor, known)' = Covers(releases, nextCursor, known)
      /\ Committed' = Committed
  BY <1>1 DEF Sorted, GoesOn, Covers, Listed, Shares, Older, Precedes, CursorOf, IsoDateTime, Committed
<1> QED
  BY <1>1, <1>2 DEF HistoryInv

(* The page asks: for a history from its beginning, for the next page of   *)
(* the one on display, for a detail or for evidence.                       *)
LEMMA AskingKeeps ==
  ASSUME PageTypes, HistoryInv, UNCHANGED tableVars,
         \/ \E repository \in Repository : SubmitAccess(repository)
         \/ LoadOlder \/ (\E r \in Release : OpenDetail(r)) \/ DownloadEvidence
  PROVE  PageTypes' /\ EntitledInv' /\ DetailInv' /\ HistoryInv' /\ AnswerInv'
<1>1. credential' = credential /\ granted' = granted /\ row' = row
  BY DEF tableVars, accessVars
<1>2. ASSUME NEW kind, NEW repository, NEW append, NEW cursor, NEW entitled,
             RequestIs(request', kind, repository, append, cursor, entitled, "SENT"),
             entitled = Entitled(repository)
      PROVE  EntitledInv' /\ DetailInv' /\ AnswerInv'
  <2>1. request'.stage = "SENT" /\ request'.entitled = Entitled(repository)
        /\ request'.repository = repository
    BY <1>2 DEF RequestIs
  <2>2. DetailInv' /\ AnswerInv'
    BY <2>1 DEF DetailInv, AnswerInv, At
  <2>3. EntitledInv'
    BY <1>1, <2>1 DEF EntitledInv, Entitled
  <2> QED
    BY <2>2, <2>3
<1>3. ASSUME NEW repository \in Repository, SubmitAccess(repository)
      PROVE  PageTypes' /\ EntitledInv' /\ DetailInv' /\ HistoryInv' /\ AnswerInv'
  <2>1. /\ key' = TRUE /\ scope' = repository /\ nextCursor' = None /\ selected' = None
        /\ releases' = releases /\ known' = known
        /\ Send(TRUE, "LIST", repository, FALSE, None)
    BY <1>3 DEF SubmitAccess
  <2>2. RequestIs(request', "LIST", repository, FALSE, None, Entitled(repository), "SENT")
    BY <2>1, SendIsTyped
  <2>3. PageTypes'
    BY <2>1, <2>2 DEF PageTypes, RequestIs
  <2>4. Busy' /\ Replacing'
    BY <2>2 DEF Busy, Replacing, RequestIs
  <2>5. HistoryInv'
    BY <2>1, <2>2, <2>4 DEF HistoryInv, RequestIs
  <2> QED
    BY <1>2, <2>2, <2>3, <2>5
<1>4. ASSUME NEW bearer \in BOOLEAN, NEW kind \in {"LIST", "DETAIL", "EVIDENCE"}, NEW append \in BOOLEAN,
             NEW repository, NEW release \in Release \cup {None},
             Send(bearer, kind, repository, append, release), repository = scope, ~Busy,
             append = (kind = "LIST"), append => nextCursor # None,
             UNCHANGED <<key, scope, releases, nextCursor, known>>, selected' \in Release \cup {None}
      PROVE  PageTypes' /\ EntitledInv' /\ DetailInv' /\ HistoryInv' /\ AnswerInv'
  <2>1. repository \in Repository \cup {None}
    BY <1>4 DEF PageTypes
  <2> DEFINE cursor == IF append THEN nextCursor ELSE None
             entitled == Entitled(repository)
  <2>2. RequestIs(request', kind, repository, append, cursor, entitled, "SENT")
    BY <1>4, <2>1, SendIsTyped
  <2>3. PageTypes'
    BY <1>4, <2>2 DEF PageTypes, RequestIs
  <2>4. Replacing = FALSE /\ Replacing' = FALSE
    BY <1>4, <2>2 DEF Replacing, RequestIs
  <2>5. request'.kind = kind /\ request'.repository = scope /\ request'.append = append
        /\ (append => request'.cursor = nextCursor)
    BY <1>4, <2>2 DEF RequestIs
  <2>6. HistoryInv'
    <3>1. request'.kind = "LIST" => request'.cursor = nextCursor /\ (request'.append = (nextCursor # None))
      BY <1>4, <2>5
    <3> QED
      BY <1>4, <2>4, <2>5, <3>1, DisplayStays
  <2>7. EntitledInv' /\ DetailInv' /\ AnswerInv'
    <3>1. PICK e : e = entitled
      OBVIOUS
    <3>2. PICK c : c = cursor
      OBVIOUS
    <3>3. RequestIs(request', kind, repository, append, c, e, "SENT") /\ e = Entitled(repository)
      BY <2>2, <3>1, <3>2
    <3> QED
      BY <1>2, <3>3
  <2> QED
    BY <2>3, <2>6, <2>7
<1>5. CASE LoadOlder
  <2>1. PICK bearer, repository : bearer = key /\ repository = scope
    OBVIOUS
  <2>2. Send(bearer, "LIST", repository, TRUE, None) /\ bearer \in BOOLEAN
    BY <1>5, <2>1 DEF LoadOlder, PageTypes, Send
  <2> QED
    BY <1>4, <1>5, <2>1, <2>2 DEF LoadOlder, pageVars, PageTypes
<1>6. ASSUME NEW r \in Release, OpenDetail(r)
      PROVE  PageTypes' /\ EntitledInv' /\ DetailInv' /\ HistoryInv' /\ AnswerInv'
  <2>1. PICK bearer, repository : bearer = key /\ repository = scope
    OBVIOUS
  <2>2. Send(bearer, "DETAIL", repository, FALSE, r) /\ bearer \in BOOLEAN
    BY <1>6, <2>1 DEF OpenDetail, PageTypes, Send
  <2> QED
    BY <1>4, <1>6, <2>1, <2>2 DEF OpenDetail
<1>7. CASE DownloadEvidence
  <2>1. PICK bearer, repository, r : bearer = key /\ repository = scope /\ r = selected
    OBVIOUS
  <2>2. Send(bearer, "EVIDENCE", repository, FALSE, r) /\ bearer \in BOOLEAN /\ r \in Release \cup {None}
    BY <1>7, <2>1 DEF DownloadEvidence, PageTypes, Send
  <2> QED
    BY <1>4, <1>7, <2>1, <2>2 DEF DownloadEvidence, pageVars, PageTypes
<1> QED
  BY <1>3, <1>5, <1>6, <1>7

(* The service answers, query by query. *)
LEMMA AnsweringKeeps ==
  ASSUME TablesInv, PageTypes, EntitledInv, DetailInv, HistoryInv, AnswerInv, UNCHANGED tableVars,
         \/ Authenticate \/ Authorize \/ ReadList
         \/ BeginDetail \/ ReadSummary \/ ReadAttempts \/ ReadAudit
  PROVE  PageTypes' /\ EntitledInv' /\ DetailInv' /\ HistoryInv' /\ AnswerInv'
<1>1. credential' = credential /\ granted' = granted /\ row' = row
  BY DEF tableVars, accessVars
<1>2. /\ Busy /\ UNCHANGED pageVars
  BY DEF Authenticate, Authorize, ReadList, BeginDetail, ReadSummary, ReadAttempts, ReadAudit, At
<1>3. /\ releases' = releases /\ nextCursor' = nextCursor /\ scope' = scope /\ known' = known
      /\ key' = key /\ selected' = selected
  BY <1>2 DEF pageVars
<1>4. request \in Request
  BY <1>2 DEF Busy, PageTypes
<1>5. ASSUME request' \in Request, request' # None, Answering(request, request')
      PROVE  PageTypes' /\ HistoryInv'
  <2>1. PageTypes'
    BY <1>3, <1>5 DEF PageTypes
  <2>2. Replacing' = Replacing
    BY <1>2, <1>5 DEF Replacing, Busy, Answering
  <2>3. request'.repository = scope
    BY <1>2, <1>5 DEF Answering, HistoryInv
  <2>4. request'.kind = "LIST" =>
          request'.cursor = nextCursor /\ (request'.append = (nextCursor # None))
    BY <1>2, <1>5 DEF Answering, HistoryInv
  <2> QED
    BY <1>3, <2>1, <2>2, <2>3, <2>4, DisplayStays
<1>6. ASSUME NEW stage \in {"AUTHENTICATED", "AUTHORIZED"}, Advance(stage),
             \/ stage = "AUTHENTICATED" /\ request.stage = "SENT" /\ credential
             \/ stage = "AUTHORIZED" /\ request.stage = "AUTHENTICATED" /\ request.repository \in granted
      PROVE  PageTypes' /\ EntitledInv' /\ DetailInv' /\ HistoryInv' /\ AnswerInv'
  <2>1. request' \in Request /\ request' # None /\ Answering(request, request') /\ request'.stage = stage
    BY <1>4, <1>6, AdvanceIsTyped
  <2>2. DetailInv' /\ AnswerInv'
    BY <2>1 DEF DetailInv, AnswerInv, At
  <2>3. EntitledInv'
    <3>1. request'.repository = request.repository /\ request'.entitled = request.entitled
      BY <2>1 DEF Answering
    <3>2. Entitled(request.repository) => request.entitled = TRUE
      BY <1>2 DEF EntitledInv
    <3>3. stage = "AUTHORIZED" => request.entitled = TRUE
      BY <1>2, <1>6 DEF EntitledInv
    <3>4. request.repository \in granted => request.entitled = TRUE
      BY <1>6, <3>2, <3>3 DEF Entitled
    <3> QED
      BY <1>1, <2>1, <3>1, <3>3, <3>4 DEF EntitledInv, Entitled
  <2> QED
    BY <1>5, <2>1, <2>2, <2>3
<1>7. CASE Authenticate
  BY <1>6, <1>7 DEF Authenticate, At
<1>8. CASE Authorize
  BY <1>6, <1>8 DEF Authorize, At
<1>9. CASE ReadList
  <2>1. /\ request' \in Request /\ request' # None /\ Answering(request, request')
        /\ request'.stage = "ANSWERED" /\ request'.kind = "LIST"
        /\ request'.answer = Page(Rows(request.repository, request.cursor))
        /\ request'.held = History(request.repository)
    BY <1>4, <1>9, ReadListIsTyped
  <2>2. request.stage = "AUTHORIZED" /\ request.kind = "LIST"
    BY <1>9 DEF ReadList, At
  <2>3. EntitledInv'
    BY <1>1, <1>2, <2>1, <2>2 DEF EntitledInv, Entitled, Answering
  <2>4. DetailInv'
    BY <2>1 DEF DetailInv
  <2>5. PICK page, repository, cursor, append, held, S :
          /\ page = Page(Rows(repository, cursor)) /\ page = request'.answer
          /\ repository = request.repository /\ cursor = request.cursor /\ append = request.append
          /\ held = History(repository) /\ held = request'.held /\ S = known
    BY <2>1
  <2>6. /\ page \in ListAnswer /\ Sorted(page.releases, repository) /\ GoesOn(page.releases, page.nextCursor)
        /\ cursor # None => \A i \in DOMAIN page.releases : Older(cursor, page.releases[i])
        /\ Covers(page.releases, page.nextCursor,
                  {r \in History(repository) : cursor = None \/ Older(cursor, r)})
    BY <2>5, PageIsWhole
  <2>7. repository = scope /\ cursor = nextCursor /\ (append = (cursor # None))
    BY <1>2, <2>2, <2>5 DEF HistoryInv
  <2>8. \A r \in held : r \in Committed /\ RepositoryOf[r] = repository
    BY <2>5 DEF History, Committed
  <2>9. ASSUME append
        PROVE  /\ \A i \in DOMAIN page.releases : Older(cursor, page.releases[i])
               /\ Covers(page.releases, page.nextCursor, {r \in S : Older(cursor, r)})
    <3>1. ~Replacing /\ releases # <<>>
      BY <2>5, <2>7, <2>9 DEF Replacing, HistoryInv, GoesOn
    <3>2. \A r \in S : r \in History(repository)
      BY <2>5, <2>7, <3>1 DEF HistoryInv, History, Committed
    <3> QED
      BY <2>6, <2>7, <2>9, <3>2 DEF Covers
  <2>10. ASSUME ~append
         PROVE  Covers(page.releases, page.nextCursor, held)
    BY <2>5, <2>6, <2>7, <2>10 DEF Covers
  <2>11. /\ request'.repository = repository /\ request'.cursor = cursor /\ request'.append = append
         /\ request'.answer = page /\ request'.held = held /\ known' = S
    BY <1>3, <2>1, <2>5 DEF Answering
  <2>12. /\ Sorted(page.releases, repository)' /\ GoesOn(page.releases, page.nextCursor)'
         /\ append => /\ \A i \in DOMAIN page.releases : Older(cursor, page.releases[i])'
                      /\ Covers(page.releases, page.nextCursor, {r \in S : Older(cursor, r)})'
         /\ ~append => Covers(page.releases, page.nextCursor, held)'
         /\ Committed' = Committed
    BY <1>1, <2>6, <2>9, <2>10
       DEF Sorted, GoesOn, Covers, Listed, Shares, Older, Precedes, CursorOf, IsoDateTime, Committed
  <2>13. AnswerInv'
    <3>1. /\ Sorted(request.answer.releases, request.repository)'
          /\ GoesOn(request.answer.releases, request.answer.nextCursor)'
      BY <2>11, <2>12 DEF Sorted, GoesOn, CursorOf, Precedes, Committed
    <3>2. ASSUME request'.append
          PROVE  /\ \A i \in DOMAIN request'.answer.releases : Older(request.cursor, request.answer.releases[i])'
                 /\ Covers(request.answer.releases, request.answer.nextCursor,
                           {r \in known : Older(request.cursor, r)})'
      BY <2>11, <2>12, <3>2 DEF Covers, Listed, Shares, Older
    <3>3. ASSUME ~request'.append
          PROVE  /\ Covers(request.answer.releases, request.answer.nextCursor, request.held)'
                 /\ \A r \in request'.held : r \in Committed' /\ RepositoryOf[r] = request'.repository
      BY <2>8, <2>11, <2>12, <3>3 DEF Covers, Listed, Shares, Older
    <3> QED
      BY <2>6, <2>11, <3>1, <3>2, <3>3 DEF AnswerInv
  <2> QED
    BY <1>5, <2>1, <2>3, <2>4, <2>13
<1>10. CASE BeginDetail \/ ReadSummary \/ ReadAttempts \/ ReadAudit
  <2>1. /\ request' \in Request /\ request' # None
        /\ Answering(request, request') /\ request.kind # "LIST"
        /\ \/ request.stage = "AUTHORIZED" /\ request'.stage = "READ"
           \/ request.stage \in {"READ", "READ_ATTEMPTS", "READ_AUDIT"}
        /\ DetailInv'
    BY <1>2, <1>4, <1>10, DetailIsTyped
  <2>2. AnswerInv'
    BY <2>1 DEF AnswerInv, Answering
  <2>3. EntitledInv'
    BY <1>1, <1>2, <2>1 DEF EntitledInv, Entitled, Answering
  <2> QED
    BY <1>5, <2>1, <2>2, <2>3
<1> QED
  BY <1>7, <1>8, <1>9, <1>10

(* With the next page nothing of the history is missed either. *)
LEMMA NextPageGoesOn ==
  ASSUME TablesInv, NEW s \in Seq(Release), NEW t \in Seq(Release), NEW repository,
         NEW cursor, NEW next, NEW S,
         Sorted(s, repository), GoesOn(s, cursor), cursor # None, Covers(s, cursor, S),
         Sorted(t, repository), \A i \in DOMAIN t : Older(cursor, t[i]), GoesOn(t, next),
         Covers(t, next, {r \in S : Older(cursor, r)})
  PROVE  /\ s \o t \in Seq(Release) /\ Sorted(s \o t, repository)
         /\ GoesOn(s \o t, next) /\ Covers(s \o t, next, S)
<1> DEFINE u == s \o t
<1>1. u \in Seq(Release) /\ Sorted(u, repository)
  BY HistoryGoesOn
<1>2. /\ \A i \in DOMAIN s : i \in DOMAIN u /\ u[i] = s[i]
      /\ \A i \in DOMAIN t : Len(s) + i \in DOMAIN u /\ u[Len(s) + i] = t[i]
      /\ Len(u) = Len(s) + Len(t) /\ (t # <<>> => u # <<>> /\ Len(t) \in DOMAIN t)
  OBVIOUS
<1> HIDE DEF u
<1>3. GoesOn(u, next)
  BY <1>2 DEF GoesOn
<1>4. \A r \in S : (Listed(s, r) \/ Listed(t, r) => Listed(u, r)) /\ (Shares(s, r) \/ Shares(t, r) => Shares(u, r))
  BY <1>2 DEF Listed, Shares
<1>5. \A r \in S : Older(cursor, r) => Listed(t, r) \/ Shares(t, r) \/ (next # None /\ Older(next, r))
  BY DEF Covers
<1>6. \A r \in S : Listed(s, r) \/ Shares(s, r) \/ Older(cursor, r)
  BY DEF Covers
<1>7. Covers(u, next, S)
  BY <1>4, <1>5, <1>6 DEF Covers
<1> QED
  BY <1>1, <1>3, <1>7 DEF u

(* The page takes an answer, or the end of a request without one. *)
LEMMA TakingKeeps ==
  ASSUME TablesInv, PageTypes, DetailInv, HistoryInv, AnswerInv, UNCHANGED tableVars,
         ShowList \/ ShowDetail \/ SaveEvidence \/ Fail
  PROVE  PageTypes' /\ EntitledInv' /\ DetailInv' /\ HistoryInv' /\ AnswerInv'
<1>1. Busy /\ request' = None /\ row' = row /\ scope' = scope /\ key' = key
  BY DEF tableVars, pageVars, ShowList, ShowDetail, SaveEvidence, Fail, At
<1>2. ~Busy' /\ ~Replacing' /\ ~At("ANSWERED")'
  BY <1>1 DEF Busy, Replacing, At
<1>3. EntitledInv' /\ DetailInv' /\ AnswerInv'
  BY <1>2 DEF EntitledInv, DetailInv, AnswerInv
<1>4. ASSUME ~Replacing, UNCHANGED <<releases, nextCursor, known>>
      PROVE  HistoryInv'
  <2>1. Replacing = FALSE /\ Replacing' = FALSE
    BY <1>2, <1>4 DEF Replacing
  <2>2. UNCHANGED <<tableVars, scope, releases, nextCursor, known>>
    BY <1>1, <1>4
  <2> QED
    BY <1>2, <2>1, <2>2, DisplayStays
<1>5. ASSUME NEW s, NEW repository, NEW cursor, NEW S,
             s = releases', repository = scope', cursor = nextCursor', S = known',
             Sorted(s, repository), GoesOn(s, cursor), Covers(s, cursor, S),
             \A r \in S : r \in Committed /\ RepositoryOf[r] = repository
      PROVE  HistoryInv'
  <2>1. Sorted(releases, scope)' /\ GoesOn(releases, nextCursor)' /\ Committed' = Committed
    BY <1>1, <1>5 DEF Sorted, GoesOn, Precedes, CursorOf, IsoDateTime, Committed
  <2>2. Covers(releases, nextCursor, known)'
    BY <1>1, <1>5 DEF Covers, Listed, Shares, Older, IsoDateTime
  <2>3. \A r \in known' : r \in Committed' /\ RepositoryOf[r] = scope'
    BY <1>5, <2>1
  <2> QED
    BY <1>2, <2>1, <2>2, <2>3 DEF HistoryInv
<1>6. CASE ShowList
  <2>1. /\ At("ANSWERED") /\ request.kind = "LIST" /\ selected' = selected
        /\ releases' = IF request.append THEN releases \o request.answer.releases
                                         ELSE request.answer.releases
        /\ nextCursor' = request.answer.nextCursor
        /\ known' = IF request.append THEN known ELSE request.held
    BY <1>6 DEF ShowList
  <2>2. PICK page, s, repository, cursor, append, S :
          /\ page = request.answer /\ s = releases /\ repository = request.repository
          /\ cursor = request.cursor /\ append = request.append
          /\ S = IF append THEN known ELSE request.held
    OBVIOUS
  <2> DEFINE t == page.releases
             next == page.nextCursor
  <2>3. /\ page \in ListAnswer /\ Sorted(t, repository) /\ GoesOn(t, next)
        /\ append => /\ \A i \in DOMAIN t : Older(cursor, t[i])
                     /\ Covers(t, next, {r \in S : Older(cursor, r)})
        /\ ~append => /\ Covers(t, next, S)
                      /\ \A r \in S : r \in Committed /\ RepositoryOf[r] = repository
    BY <2>1, <2>2 DEF AnswerInv
  <2>4. t \in Seq(Release) /\ next \in Cursor \cup {None} /\ s \in Seq(Release)
    BY <2>2, <2>3 DEF ListAnswer, PageTypes
  <2>5. repository = scope /\ cursor = nextCursor /\ (append = (nextCursor # None))
    BY <1>1, <2>1, <2>2 DEF HistoryInv
  <2>6. request \in Request
    BY <1>1 DEF PageTypes, Busy
  <2>7. S \in SUBSET Release
    BY <2>2, <2>6 DEF PageTypes, Request
  <2>8. nextCursor' = next /\ known' = S /\ scope' = repository
    BY <1>1, <2>1, <2>2, <2>5
  <2>9. CASE append
    <3>1. ~Replacing /\ cursor # None /\ S = known
      BY <2>2, <2>5, <2>9 DEF Replacing
    <3>2. s # <<>> /\ Sorted(s, repository) /\ GoesOn(s, cursor)
      BY <2>2, <2>5, <3>1 DEF HistoryInv, GoesOn
    <3>3. Covers(s, cursor, S) /\ \A r \in S : r \in Committed /\ RepositoryOf[r] = repository
      BY <2>2, <2>5, <3>1, <3>2 DEF HistoryInv
    <3>4. PICK u : u = s \o t
      OBVIOUS
    <3>5. u \in Seq(Release) /\ Sorted(u, repository) /\ GoesOn(u, next) /\ Covers(u, next, S)
      <4> HIDE DEF t, next
      <4> QED
        BY <2>3, <2>4, <2>9, <3>1, <3>2, <3>3, <3>4, NextPageGoesOn
    <3>6. releases' = u
      BY <2>1, <2>2, <2>9, <3>4
    <3>7. HistoryInv'
      <4>1. PICK n : n = next
        OBVIOUS
      <4> QED
        BY <1>5, <2>8, <3>3, <3>5, <3>6, <4>1
    <3>8. PageTypes'
      BY <1>1, <2>1, <2>4, <2>7, <2>8, <3>5, <3>6 DEF PageTypes
    <3> QED
      BY <1>3, <3>7, <3>8
  <2>10. CASE ~append
    <3>1. releases' = t
      BY <2>1, <2>2, <2>10
    <3>2. HistoryInv'
      <4>1. PICK n, v : n = next /\ v = t
        OBVIOUS
      <4> QED
        BY <1>5, <2>3, <2>8, <2>10, <3>1, <4>1
    <3>3. PageTypes'
      BY <1>1, <2>1, <2>4, <2>7, <2>8, <3>1 DEF PageTypes
    <3> QED
      BY <1>3, <3>2, <3>3
  <2> QED
    BY <2>9, <2>10
<1>7. CASE ShowDetail \/ SaveEvidence
  <2>1. /\ request.kind # "LIST" /\ UNCHANGED <<releases, nextCursor, known, selected>>
    BY <1>7 DEF ShowDetail, SaveEvidence, pageVars
  <2>2. ~Replacing
    BY <2>1 DEF Replacing
  <2>3. PageTypes'
    BY <1>1, <2>1 DEF PageTypes
  <2> QED
    BY <1>3, <1>4, <2>1, <2>2, <2>3
<1>8. CASE Fail
  <2>1. known' = known
    BY <1>8 DEF Fail
  <2>2. CASE request.kind = "LIST" /\ ~request.append
    <3>1. releases' = <<>> /\ nextCursor' = None /\ selected' = None
      BY <1>8, <2>2 DEF Fail
    <3>2. PageTypes'
      BY <1>1, <2>1, <3>1 DEF PageTypes
    <3>3. HistoryInv'
      BY <1>2, <3>1 DEF HistoryInv, Sorted, GoesOn
    <3> QED
      BY <1>3, <3>2, <3>3
  <2>3. CASE ~(request.kind = "LIST" /\ ~request.append)
    <3>1. UNCHANGED <<releases, nextCursor, selected, detail>>
      BY <1>8, <2>3 DEF Fail
    <3>2. ~Replacing
      BY <2>3 DEF Replacing
    <3>3. PageTypes'
      BY <1>1, <2>1, <3>1 DEF PageTypes
    <3> QED
      BY <1>3, <1>4, <2>1, <3>1, <3>2, <3>3
  <2> QED
    BY <2>2, <2>3
<1> QED
  BY <1>6, <1>7, <1>8

(* The page closes a detail, is cleared or hidden. *)
LEMMA ClosingKeeps ==
  ASSUME PageTypes, EntitledInv, DetailInv, HistoryInv, AnswerInv, UNCHANGED tableVars,
         CloseDetail \/ ClearAccess \/ HidePage
  PROVE  PageTypes' /\ EntitledInv' /\ DetailInv' /\ HistoryInv' /\ AnswerInv'
<1>1. /\ request' = request /\ known' = known /\ row' = row
      /\ credential' = credential /\ granted' = granted
  BY DEF tableVars, accessVars, CloseDetail, ClearAccess, HidePage
<1>2. EntitledInv' /\ DetailInv'
  BY <1>1 DEF EntitledInv, Entitled, DetailInv, Busy
<1>3. AnswerInv'
  <2>1. At("ANSWERED")' = At("ANSWERED")
    BY <1>1 DEF At, Busy
  <2>2. /\ \A s, repository : Sorted(s, repository)' = Sorted(s, repository)
        /\ \A s, cursor : GoesOn(s, cursor)' = GoesOn(s, cursor)
        /\ \A s, cursor, S : Covers(s, cursor, S)' = Covers(s, cursor, S)
        /\ \A cursor, r : Older(cursor, r)' = Older(cursor, r)
        /\ Committed' = Committed
    BY <1>1 DEF Sorted, GoesOn, Covers, Listed, Shares, Older, Precedes, CursorOf, IsoDateTime, Committed
  <2>3. PICK req, S : req = request /\ S = known
    OBVIOUS
  <2> QED
    BY <1>1, <2>1, <2>2, <2>3
       DEF AnswerInv, Sorted, GoesOn, Covers, Listed, Shares, Older, Precedes, CursorOf, IsoDateTime, Committed
<1>4. CASE CloseDetail \/ HidePage
  <2>1. /\ scope' = scope /\ releases' = releases /\ nextCursor' = nextCursor
        /\ selected' = selected \/ selected' = None
        /\ key' = key \/ key' = FALSE
    BY <1>4 DEF CloseDetail, HidePage
  <2>2. PageTypes'
    <3>1. key' \in BOOLEAN /\ selected' \in Release \cup {None}
      BY <2>1 DEF PageTypes
    <3> QED
      BY <1>1, <2>1, <3>1 DEF PageTypes
  <2>3. Replacing' = Replacing
    BY <1>1 DEF Replacing, Busy
  <2>4. Busy => request.repository = scope
    BY DEF HistoryInv
  <2>5. Busy /\ request.kind = "LIST" =>
          request.cursor = nextCursor /\ (request.append = (nextCursor # None))
    BY DEF HistoryInv
  <2>6. HistoryInv'
    BY <1>1, <2>1, <2>3, <2>4, <2>5, DisplayStays DEF Busy
  <2> QED
    BY <1>2, <1>3, <2>2, <2>6
<1>5. CASE ClearAccess
  <2>1. /\ ~Busy' /\ key' = FALSE /\ scope' = None
        /\ releases' = <<>> /\ nextCursor' = None /\ selected' = None
    BY <1>5 DEF ClearAccess, Busy
  <2>2. PageTypes'
    <3>1. key' \in BOOLEAN
      BY <2>1
    <3>2. releases' \in Seq(Release)
      BY <2>1
    <3> QED
      BY <1>1, <2>1, <3>1, <3>2 DEF PageTypes
  <2>3. HistoryInv'
    BY <2>1 DEF HistoryInv, Replacing, Sorted, GoesOn
  <2> QED
    BY <1>2, <1>3, <2>2, <2>3
<1> QED
  BY <1>4, <1>5

LEMMA BrowseKeeps ==
  ASSUME TablesInv, PageTypes, EntitledInv, DetailInv, HistoryInv, AnswerInv, UNCHANGED tableVars, Browse
  PROVE  TablesInv' /\ PageTypes' /\ EntitledInv' /\ DetailInv' /\ HistoryInv' /\ AnswerInv'
<1>1. TablesInv'
  BY DEF TablesInv, tableVars, Committed
<1>2. CASE \/ \E repository \in Repository : SubmitAccess(repository)
           \/ LoadOlder \/ (\E r \in Release : OpenDetail(r)) \/ DownloadEvidence
  BY <1>1, <1>2, AskingKeeps
<1>3. CASE CloseDetail \/ ClearAccess \/ HidePage
  BY <1>1, <1>3, ClosingKeeps
<1>4. CASE \/ Authenticate \/ Authorize \/ ReadList
           \/ BeginDetail \/ ReadSummary \/ ReadAttempts \/ ReadAudit
  BY <1>1, <1>4, AnsweringKeeps
<1>5. CASE ShowList \/ ShowDetail \/ SaveEvidence \/ Fail
  BY <1>1, <1>5, TakingKeeps
<1> QED
  BY <1>2, <1>3, <1>4, <1>5 DEF Browse

(* The writers change nothing of what the page has, and take no access     *)
(* back that they gave.                                                    *)
LEMMA WriteKeeps ==
  ASSUME TablesInv, PageTypes, EntitledInv, DetailInv, HistoryInv, AnswerInv, UNCHANGED clientVars, Write
  PROVE  TablesInv' /\ PageTypes' /\ EntitledInv' /\ DetailInv' /\ HistoryInv' /\ AnswerInv'
<1>1. TablesInv' /\ Stays /\ (credential' => credential) /\ granted' \subseteq granted
  BY WriteStays
<1>2. HistoryInv' /\ AnswerInv'
  BY <1>1, WriteKeepsHistory
<1>3. /\ request' = request /\ key' = key /\ scope' = scope /\ releases' = releases
      /\ nextCursor' = nextCursor /\ selected' = selected /\ known' = known
  BY DEF clientVars, pageVars
<1>4. PageTypes'
  BY <1>3 DEF PageTypes
<1>5. DetailInv'
  BY <1>3 DEF DetailInv, Busy
<1>6. EntitledInv'
  BY <1>1, <1>3 DEF EntitledInv, Entitled, Busy
<1> QED
  BY <1>1, <1>2, <1>4, <1>5, <1>6

----------------------------------------------------------------------------
(* The discovery. *)

LEMMA DiscoverKeeps ==
  ASSUME TablesInv, DiscoveryInv, Discover
  PROVE  DiscoveryInv'
<1>1. ASSUME NEW d \in Deployment, GoLive(d) PROVE DiscoveryInv'
  BY <1>1 DEF GoLive, DiscoveryInv
<1>2. ASSUME NEW p \in PR, Associate(p) PROVE DiscoveryInv'
  BY <1>2 DEF Associate, DiscoveryInv
<1>3. CASE FindDeployment
  <2>1. PICK d \in live : found' = [found EXCEPT !.deployment = d]
    BY <1>3 DEF FindDeployment
  <2>2. found = Nothing /\ live' = live /\ merged' = merged /\ correlation' = correlation
    BY <1>3 DEF FindDeployment
  <2>3. found' = [deployment |-> d, pr |-> None]
    BY <2>1, <2>2 DEF Nothing
  <2> QED
    BY <2>2, <2>3 DEF DiscoveryInv
<1>4. CASE FindPullRequest
  <2>1. PICK p \in merged : found' = [found EXCEPT !.pr = p]
    BY <1>4 DEF FindPullRequest
  <2>2. live' = live /\ merged' = merged /\ correlation' = correlation
    BY <1>4 DEF FindPullRequest
  <2>3. found' \in [deployment : Deployment \cup {None}, pr : PR \cup {None}] /\ found'.pr = p
    BY <2>1 DEF DiscoveryInv
  <2> QED
    BY <2>2, <2>3 DEF DiscoveryInv
<1>5. CASE FindRelease
  <2>1. found.pr # None /\ found' = Nothing /\ live' = live /\ merged' = merged
    BY <1>5 DEF FindRelease
  <2>2. PICK r \in OfHead(found.pr) :
          /\ Matches(r, found.pr)
          /\ correlation' = [deployment |-> found.deployment, pr |-> found.pr, release |-> r,
                             was |-> row[r]]
    BY <1>5 DEF FindRelease
  <2>3. r \in Committed /\ RepositoryOf[r] = Deployed /\ r = HeadOf[found.pr]
    BY DEF OfHead, History, Committed
  <2>4. row[r].pr = found.pr /\ row[r].status = "REVIEWED" /\ row[r].policy \in Continues
    BY <2>2 DEF Matches
  <2>5. found' \in [deployment : Deployment \cup {None}, pr : PR \cup {None}] /\ found'.pr = None
    BY <2>1 DEF Nothing
  <2> QED
    BY <2>1, <2>2, <2>3, <2>4, <2>5 DEF DiscoveryInv
<1>6. CASE GiveUp
  <2>1. found' = Nothing /\ live' = live /\ merged' = merged /\ correlation' = correlation
    BY <1>6 DEF GiveUp
  <2>2. found' \in [deployment : Deployment \cup {None}, pr : PR \cup {None}] /\ found'.pr = None
    BY <2>1 DEF Nothing
  <2> QED
    BY <2>1, <2>2 DEF DiscoveryInv
<1> QED
  BY <1>1, <1>2, <1>3, <1>4, <1>5, <1>6 DEF Discover

----------------------------------------------------------------------------
(* The theorems. *)

LEMMA InitReports == Init => ReportingInv
<1> SUFFICES ASSUME Init PROVE ReportingInv
  OBVIOUS
<1>1. /\ clock = 1 /\ row = [r \in Release |-> None] /\ transactions = 0
      /\ key = FALSE /\ scope = None /\ releases = <<>> /\ nextCursor = None /\ selected = None
      /\ request = None /\ known = {} /\ live = {} /\ merged = {} /\ found = Nothing /\ correlation = None
  BY DEF Init, ReportInit, DashboardInit, DiscoveryInit
<1>2. TablesInv
  <2>1. Committed = {}
    BY <1>1 DEF Committed
  <2>2. IsFiniteSet(Committed)
    BY <2>1, FS_EmptySet
  <2> QED
    BY <1>1, <2>2 DEF TablesInv
<1>3. PageTypes
  <2>1. key \in BOOLEAN
    BY <1>1
  <2>2. releases \in Seq(Release)
    BY <1>1
  <2> QED
    BY <1>1, <2>1, <2>2 DEF PageTypes
<1>4. EntitledInv /\ DetailInv /\ AnswerInv
  BY <1>1 DEF EntitledInv, DetailInv, AnswerInv, Busy, At
<1>5. HistoryInv
  BY <1>1 DEF HistoryInv, Replacing, Busy, Sorted, GoesOn
<1>6. DiscoveryInv
  BY <1>1 DEF DiscoveryInv, Nothing
<1> QED
  BY <1>2, <1>3, <1>4, <1>5, <1>6 DEF ReportingInv

LEMMA NextReports ==
  ASSUME ReportingInv, [Next]_vars
  PROVE  ReportingInv'
<1>1. /\ TablesInv /\ PageTypes /\ EntitledInv /\ DetailInv
      /\ HistoryInv /\ AnswerInv /\ DiscoveryInv
  BY DEF ReportingInv
<1>2. ASSUME UNCHANGED discoveryVars PROVE DiscoveryInv'
  BY <1>1, <1>2 DEF DiscoveryInv, discoveryVars
<1>3. ASSUME UNCHANGED tableVars, UNCHANGED clientVars
      PROVE  TablesInv' /\ PageTypes' /\ EntitledInv' /\ DetailInv' /\ HistoryInv' /\ AnswerInv'
  <2>1. /\ row' = row /\ clock' = clock /\ transactions' = transactions
        /\ credential' = credential /\ granted' = granted
        /\ request' = request /\ key' = key /\ scope' = scope /\ releases' = releases
        /\ nextCursor' = nextCursor /\ selected' = selected /\ known' = known
    BY <1>3 DEF tableVars, accessVars, clientVars, pageVars
  <2>2. TablesInv' /\ Stays
    BY <1>1, <2>1 DEF TablesInv, Committed, Stays
  <2>3. HistoryInv' /\ AnswerInv'
    BY <1>1, <1>3, <2>2, WriteKeepsHistory
  <2>4. PageTypes'
    BY <1>1, <2>1 DEF PageTypes
  <2>5. EntitledInv' /\ DetailInv'
    BY <1>1, <2>1 DEF EntitledInv, Entitled, DetailInv, Busy
  <2> QED
    BY <2>2, <2>3, <2>4, <2>5
<1>4. CASE Write /\ UNCHANGED <<clientVars, discoveryVars, client>>
  BY <1>1, <1>2, <1>4, WriteKeeps DEF ReportingInv
<1>5. CASE Browse /\ UNCHANGED <<tableVars, discoveryVars, client>>
  BY <1>1, <1>2, <1>5, BrowseKeeps DEF ReportingInv
<1>6. CASE Discover /\ UNCHANGED <<tableVars, clientVars, client>>
  BY <1>1, <1>3, <1>6, DiscoverKeeps DEF ReportingInv
<1>7. CASE UNCHANGED vars
  BY <1>1, <1>2, <1>3, <1>7 DEF ReportingInv, vars
<1> QED
  BY <1>4, <1>5, <1>6, <1>7 DEF Next

(* What a row, a request, a page and a history have in common at any time. *)
THEOREM ReportingInvariant == Spec => []ReportingInv
<1>1. Init => ReportingInv
  BY InitReports
<1>2. ReportingInv /\ [Next]_vars => ReportingInv'
  BY NextReports
<1> QED
  BY <1>1, <1>2, PTL DEF Spec

(* A history paged while releases are created is in descending creation    *)
(* order, without a repetition, and of the repository asked for.           *)
THEOREM HistoryIsOrderedAlways == Spec => []HistoryIsOrdered
<1>1. ReportingInv => HistoryIsOrdered
  <2> SUFFICES ASSUME ReportingInv, ~Busy, NEW i \in DOMAIN releases
               PROVE  /\ RepositoryOf[releases[i]] = scope
                      /\ i > 1 => Precedes(releases[i - 1], releases[i])
    BY DEF HistoryIsOrdered
  <2>1. Sorted(releases, scope) /\ releases \in Seq(Release)
    BY DEF ReportingInv, PageTypes, HistoryInv, Replacing
  <2>2. i > 1 => i - 1 \in DOMAIN releases /\ i - 1 < i
    BY <2>1
  <2> QED
    BY <2>1, <2>2 DEF Sorted
<1> QED
  BY <1>1, ReportingInvariant, PTL

(* At the end of a history nothing is missing that was there at its        *)
(* beginning, but for what shares a millisecond with one that is listed.   *)
THEOREM HistoryIsWholeAlways == Spec => []HistoryIsWhole
<1>1. ReportingInv => HistoryIsWhole
  BY DEF ReportingInv, HistoryInv, Replacing, HistoryIsWhole, SharesMillisecond, Covers, Listed, Shares
<1> QED
  BY <1>1, ReportingInvariant, PTL

(* The sections of a detail tell of one moment of the release. *)
THEOREM DetailIsOfOneMomentAlways == Spec => []DetailIsOfOneMoment
<1>1. ReportingInv => DetailIsOfOneMoment
  <2> SUFFICES ASSUME ReportingInv, At("ANSWERED"), request.kind # "LIST"
               PROVE  DetailIsOfOneMoment
    BY DEF DetailIsOfOneMoment
  <2>1. PICK x : x = request.view
    OBVIOUS
  <2>2. /\ x \in Row /\ RowAgrees(x)
        /\ request.answer = [summary |-> Summary(x), attempts |-> AttemptSection(x), audit |-> AuditSection(x)]
    BY <2>1 DEF ReportingInv, DetailInv, At
  <2>3. /\ request.answer.summary.status = x.status
        /\ request.answer.summary.policy = x.policy
        /\ request.answer.summary.outcome = x.outcome
        /\ request.answer.attempts.attempts = Bounded(x.attempts, MaximumAttempts)
        /\ request.answer.attempts.last = IF x.attempts > MaximumAttempts THEN None ELSE x.attempt
        /\ request.answer.attempts.observations = Bounded(x.observations, MaximumObservations)
        /\ request.answer.audit.auditEvents = Bounded(x.auditEvents, MaximumAuditEvents)
    BY <2>2 DEF Summary, AttemptSection, AuditSection
  <2>4. /\ x.auditEvents \in Nat /\ x.observations \in Nat /\ x.attempts \in Nat
        /\ MaximumAuditEvents \in Nat /\ MaximumObservations \in Nat /\ MaximumAttempts \in Nat
    BY <2>2, RowsOfRows, ManagementReportAssumption
  <2>5. ASSUME ~Bounded(x.attempts, MaximumAttempts).truncated
        PROVE  request.answer.attempts.last = x.attempt
    <3>1. ~(x.attempts > MaximumAttempts)
      BY <2>5 DEF Bounded
    <3> QED
      BY <2>3, <3>1
  <2>6. ASSUME ~Bounded(x.auditEvents, MaximumAuditEvents).truncated
        PROVE  Bounded(x.auditEvents, MaximumAuditEvents).items >=
                 One(x.policy # None) + Bounded(x.attempts, MaximumAttempts).items
                   + Bounded(x.observations, MaximumObservations).items + One(x.outcome # None)
    <3>1. Bounded(x.auditEvents, MaximumAuditEvents).items = x.auditEvents
      BY <2>4, <2>6 DEF Bounded
    <3>2. /\ Bounded(x.observations, MaximumObservations).items \in Nat
          /\ Bounded(x.observations, MaximumObservations).items <= x.observations
          /\ Bounded(x.attempts, MaximumAttempts).items \in Nat
          /\ Bounded(x.attempts, MaximumAttempts).items <= x.attempts
      BY <2>4 DEF Bounded
    <3>3. One(x.policy # None) \in Nat /\ One(x.outcome # None) \in Nat
      BY DEF One
    <3>4. x.auditEvents >= One(x.policy # None) + x.attempts + x.observations + One(x.outcome # None)
      BY <2>2 DEF RowAgrees, CountsAgree
    <3> QED
      BY <2>4, <3>1, <3>2, <3>3, <3>4
  <2>7. StatesAgree(x)
    BY <2>2 DEF RowAgrees
  <2> QED
    BY <2>3, <2>5, <2>6, <2>7 DEF DetailIsOfOneMoment, StatesAgree
<1> QED
  BY <1>1, ReportingInvariant, PTL

(* Nothing is answered to a caller whose credential was no longer active,  *)
(* or whose tenant no longer had the repository, when the request was sent. *)
THEOREM AnswerIsEntitledAlways == Spec => []AnswerIsEntitled
<1>1. ReportingInv => AnswerIsEntitled
  BY DEF ReportingInv, EntitledInv, AnswerIsEntitled, At
<1> QED
  BY <1>1, ReportingInvariant, PTL

(* What is correlated with a deployment is a continued review of the head  *)
(* of the pull request its commit was merged from, on the release as it    *)
(* was that pull request's.                                                *)
THEOREM CorrelationIsOfMergedPullRequestAlways == Spec => []CorrelationIsOfMergedPullRequest
<1>1. ReportingInv => CorrelationIsOfMergedPullRequest
  BY DEF ReportingInv, DiscoveryInv, CorrelationIsOfMergedPullRequest
<1> QED
  BY <1>1, ReportingInvariant, PTL

=============================================================================
