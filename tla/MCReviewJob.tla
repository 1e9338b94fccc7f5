----------------------------- MODULE MCReviewJob -----------------------------
(* Instances of ReviewJob for TLC. *)
EXTENDS ReviewJob

MCMatches == [test |-> {"TEST_FAILURE"}, build |-> {"BUILD_FAILURE"}, check |-> {}]

Step(name, conclusion) == [name |-> name, conclusion |-> conclusion]

Job(conclusion, steps) == [name |-> "check", conclusion |-> conclusion, steps |-> steps]

Run(conclusion, jobs) == [conclusion |-> conclusion, jobs |-> jobs]

(* Success; a cancelled run one of whose tests had failed; two failures    *)
(* of different kinds.                                                     *)
MCResult ==
  {Run("success", {Job("success", {Step("test", "success")}), Job("skipped", {})}),
   Run("cancelled", {Job("success", {Step("test", "failure")}), Job("cancelled", {})}),
   Run("failure", {Job("success", {Step("test", "success")}),
                   Job("failure", {Step("test", "timed_out"), Step("build", "failure")})})}

(* One not readable, one with more findings than a report may have, and    *)
(* one with a duplicate and a finding of unknown severity.                 *)
MCScan ==
  {None, <<[key |-> 1, severity |-> "LOW"], [key |-> 2, severity |-> "CRITICAL"]>>,
   <<[key |-> 1, severity |-> "MEDIUM"], [key |-> 1, severity |-> "LOW"],
     [key |-> 2, severity |-> "UNKNOWN"]>>}

Diagnosis(hasActions) ==
  [category |-> "BUILD_FAILURE", confidence |-> "LOW", retry |-> "RETRY", files |-> {"a", "b"},
   hasActions |-> hasActions]

MCChanged == [h \in Sha |-> IF h = Head THEN {"a"} ELSE {"b"}]

MCMockAdvice == [decision |-> "CONTINUE", score |-> 20, level |-> "LOW", diagnosis |-> None]

MCAdvice ==
  {MCMockAdvice} \cup
  {[decision |-> "CONTINUE", score |-> 50, level |-> "CRITICAL", diagnosis |-> Diagnosis(some)] :
     some \in BOOLEAN}

MCSupplied == {[tests |-> "unknown", security |-> {"HIGH"}]}

(* A review of a successful run without artifacts, with the mock's advice.  *)
Plain ==
  /\ \A a \in DOMAIN results : results[a].conclusion = "success"
  /\ \A t \in Target : artifacts[t] = {} /\ adapter[t] = "TRIVY"
  /\ provider # "OPENAI"

(* Whether another run or request has done anything that still shows.      *)
OthersShow == (recorded # None /\ reviewed = 0) \/ (checkRun.count > 0 /\ ~newest)

(* What others do to the record and to the Check Runs of the commit, and   *)
(* what a crash leaves, does not depend on what a review found: both are   *)
(* explored for plain ones.                                                *)
Explored == OthersShow \/ crashes > 0 => Plain

=============================================================================
