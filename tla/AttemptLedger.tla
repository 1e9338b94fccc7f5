--------------------------- MODULE AttemptLedger ---------------------------
(***************************************************************************)
(* What the platform promises about deployment attempts, without tables,   *)
(* reviews, deliveries or events: an attempt belongs to one release for    *)
(* ever, starts while no other attempt of that release is open, and ends   *)
(* once, by a verdict of its own or, together with others, by withdrawal.  *)
(* CanaryGuard implements this specification.                              *)
(***************************************************************************)
CONSTANTS Attempt, Release, None

VARIABLES
  owner,   \* the release of each attempt, None before its start
  end      \* how each attempt ended, "OPEN" until then

ledger == <<owner, end>>

Verdicts == {"PROMOTED", "ROLLED_BACK", "FAILED"}

Started(a) == owner[a] # None

Open(a) == Started(a) /\ end[a] = "OPEN"

LedgerInit ==
  /\ owner = [a \in Attempt |-> None]
  /\ end = [a \in Attempt |-> "OPEN"]

Start(a, r) ==
  /\ ~Started(a)
  /\ \A b \in Attempt : owner[b] = r => ~Open(b)
  /\ owner' = [owner EXCEPT ![a] = r]
  /\ UNCHANGED end

Decide(a, verdict) ==
  /\ Open(a)
  /\ end' = [end EXCEPT ![a] = verdict]
  /\ UNCHANGED owner

Withdraw(withdrawn) ==
  /\ \A a \in withdrawn : Open(a)
  /\ end' = [a \in Attempt |-> IF a \in withdrawn THEN "WITHDRAWN" ELSE end[a]]
  /\ UNCHANGED owner

LedgerNext ==
  \/ \E a \in Attempt :
       \/ \E r \in Release : Start(a, r)
       \/ \E verdict \in Verdicts : Decide(a, verdict)
  \/ \E withdrawn \in SUBSET Attempt : Withdraw(withdrawn)

LedgerSpec == LedgerInit /\ [][LedgerNext]_ledger

=============================================================================
