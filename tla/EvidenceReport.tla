--------------------------- MODULE EvidenceReport ---------------------------
(***************************************************************************)
(* The reports CI makes of a scan: the findings without duplicates, put in *)
(* an order and cut short (normalizeTrivyReport, normalizeAxeReport,       *)
(* normalizePhase7Observations).  A scan is a sequence of [key, severity]; *)
(* keys are numbers in the order in which the code compares their texts.   *)
(***************************************************************************)
EXTENDS Integers, FiniteSetsExt

CONSTANTS
  Adapter,          \* "TRIVY", "AXE", "PHASE_7"
  MaximumFindings

ASSUME EvidenceReportAssumption == MaximumFindings \in Nat \ {0}

Rank == [CRITICAL |-> 0, HIGH |-> 1, MEDIUM |-> 2, LOW |-> 3]

(* Findings of unknown severity are skipped; of one key the last is kept.  *)
Found(scan) ==
  LET known == {i \in DOMAIN scan : scan[i].severity # "UNKNOWN"}
  IN  [k \in {scan[i].key : i \in known} |->
         scan[Max({i \in known : scan[i].key = k})].severity]

(* Mutant: every report is in the order of Trivy's. *)
BeforeByKey(adapter, found, j, k) == j < k

(* Trivy's findings are ordered by key alone, all others critical first. *)
Before(adapter, found, j, k) ==
  IF adapter = "TRIVY" \/ found[j] = found[k] THEN j < k
  ELSE Rank[found[j]] < Rank[found[k]]

Kept(adapter, found) ==
  {k \in DOMAIN found : Cardinality({j \in DOMAIN found : Before(adapter, found, j, k)}) < MaximumFindings}

Normalize(adapter, scan) ==
  [source     |-> adapter,
   severities |-> {Found(scan)[k] : k \in Kept(adapter, Found(scan))},
   truncated  |-> Cardinality(DOMAIN Found(scan)) > MaximumFindings]

=============================================================================
