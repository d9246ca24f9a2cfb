-------------------------------- MODULE Metrics --------------------------------
(***************************************************************************)
(* Metrics.Observe of internal/server/metrics.go, and a scrape of /metrics *)
(* that does not take its mutex.                                           *)
(*                                                                         *)
(* Audits call Observe one after the other.  It counts the findings whose  *)
(* fingerprint the previous report did not have, and replaces the gauges   *)
(* of active findings: a Reset, then for each label a gauge that is made   *)
(* with value 0 and set.  A finding is a record with its fingerprint (fp), *)
(* its rule, and its label: the rule with the severity configured for it.  *)
(* What Finding.Fingerprint of internal/model/model.go computes is given,  *)
(* any value of fp: two findings of a report may share one (of spans       *)
(* without ids, say), and it leaves out the severity, which a reload       *)
(* changes.                                                                *)
(***************************************************************************)
EXTENDS Integers, Sequences, FiniteSets

CONSTANTS
  Findings,      \* records fp, rule, label
  Reports,       \* the findings of a report: sequences of findings
  RulesCounted,  \* ATD-CTX-001, ATD-COR-001, ATD-COR-002
  MaxAudits      \* bound on the audits

ASSUME MetricsAssumption == Reports \subseteq Seq(Findings) /\ MaxAudits \in Nat

Fingerprints == {f.fp : f \in Findings}
Labels == {f.label : f \in Findings}

VARIABLES
  pc,                  \* where Observe is; "unlocked" outside of it
  report, i,           \* r.Findings and the index of the loop over it
  active, current,     \* the local maps of Observe
  activeFingerprints,  \* m.activeFingerprints
  auditRuns, violations, byRule,  \* counters
  gauges,              \* the children of ActiveFindings
  scraped,             \* what the latest scrape collected of the gauges
  previous,            \* history: the report observed before this one
  counted,             \* history: how often a fingerprint was counted
  countedBefore        \* history: the same when Observe was entered

localVars == <<report, i, active, current>>
counterVars == <<auditRuns, violations, byRule, counted, countedBefore>>
vars == <<pc, report, i, active, current, activeFingerprints, auditRuns,
          violations, byRule, gauges, scraped, previous, counted, countedBefore>>

NoGauges == [l \in {} |-> 0]

Zero(S) == [x \in S |-> 0]

Init ==
  /\ pc = "unlocked"
  /\ report = <<>> /\ i = 1 /\ active = Zero(Labels) /\ current = {}
  /\ activeFingerprints = {}
  /\ auditRuns = 0 /\ violations = Zero(Labels) /\ byRule = Zero(RulesCounted)
  /\ gauges = NoGauges /\ scraped = NoGauges
  /\ previous = <<>>
  /\ counted = Zero(Fingerprints) /\ countedBefore = Zero(Fingerprints)

----------------------------------------------------------------------------
(* m.mu.Lock(), AuditRuns.Inc() *)
Observe(r) ==
  /\ pc = "unlocked"
  /\ auditRuns < MaxAudits
  /\ pc' = "locked"
  /\ report' = r
  /\ auditRuns' = auditRuns + 1
  /\ countedBefore' = counted
  /\ UNCHANGED <<i, active, current, activeFingerprints, violations, byRule,
                 gauges, scraped, previous, counted>>

MutantResetGauges == gauges
ResetGauges == NoGauges

MutantNewMap == active
NewMap == Zero(Labels)

(* ActiveFindings.Reset(), and the new local maps *)
Reset ==
  /\ pc = "locked"
  /\ pc' = "findings"
  /\ gauges' = ResetGauges
  /\ i' = 1 /\ active' = NewMap /\ current' = {}
  /\ UNCHANGED <<report, activeFingerprints, counterVars, scraped, previous>>

(* One iteration of the loop over r.Findings: activeFingerprints is the    *)
(* previous report's until the loop has ended, so a fingerprint that this  *)
(* report has twice is new twice.                                          *)
CountFinding ==
  /\ pc = "findings" /\ i <= Len(report)
  /\ i' = i + 1
  /\ LET f == report[i]
         new == IF f.fp \in activeFingerprints THEN 0 ELSE 1
     IN  /\ active' = [active EXCEPT ![f.label] = @ + 1]
         /\ current' = current \cup {f.fp}
         /\ violations' = [violations EXCEPT ![f.label] = @ + new]
         /\ byRule' = [rule \in RulesCounted |->
                         byRule[rule] + (IF rule = f.rule THEN new ELSE 0)]
         /\ counted' = [counted EXCEPT ![f.fp] = @ + new]
  /\ UNCHANGED <<pc, report, activeFingerprints, auditRuns, gauges, scraped, previous,
                 countedBefore>>

MutantFingerprintsKept == activeFingerprints
FingerprintsKept == current

KeepFingerprints ==
  /\ pc = "findings" /\ i > Len(report)
  /\ pc' = "gauges"
  /\ activeFingerprints' = FingerprintsKept
  /\ UNCHANGED <<localVars, counterVars, gauges, scraped, previous>>

ActiveLabels == {l \in Labels : active[l] > 0}

AllSet == \A l \in DOMAIN gauges : gauges[l] = active[l]

(* ActiveFindings.WithLabelValues(l), for the labels in any order ... *)
MakeGauge(l) ==
  /\ pc = "gauges" /\ AllSet
  /\ l \in ActiveLabels \ DOMAIN gauges
  /\ gauges' = [k \in DOMAIN gauges \cup {l} |-> IF k = l THEN 0 ELSE gauges[k]]
  /\ UNCHANGED <<pc, localVars, activeFingerprints, counterVars, scraped, previous>>

(* ... and .Set(count) *)
SetGauge(l) ==
  /\ pc = "gauges"
  /\ l \in DOMAIN gauges
  /\ gauges[l] # active[l]
  /\ gauges' = [gauges EXCEPT ![l] = active[l]]
  /\ UNCHANGED <<pc, localVars, activeFingerprints, counterVars, scraped, previous>>

(* The latency histogram takes its samples; the deferred Unlock *)
Return ==
  /\ pc = "gauges" /\ AllSet /\ ActiveLabels \subseteq DOMAIN gauges
  /\ pc' = "unlocked"
  /\ previous' = report
  /\ UNCHANGED <<localVars, activeFingerprints, counterVars, gauges, scraped>>

(* The Prometheus handler collects the gauges while Observe may run. *)
Scrape ==
  /\ scraped' = gauges
  /\ UNCHANGED <<pc, localVars, activeFingerprints, counterVars, gauges, previous>>

Next ==
  \/ \E r \in Reports : Observe(r)
  \/ Reset \/ CountFinding \/ KeepFingerprints
  \/ \E l \in Labels : MakeGauge(l)
  \/ \E l \in Labels : SetGauge(l)
  \/ Return
  \/ Scrape

Spec == Init /\ [][Next]_vars

----------------------------------------------------------------------------
(* Properties *)

With(r, label) == {k \in DOMAIN r : r[k].label = label}
Of(r, fp) == {k \in DOMAIN r : r[k].fp = fp}

(* The values the metrics can take. *)
TypeOK ==
  /\ pc \in {"unlocked", "locked", "findings", "gauges"}
  /\ report \in Reports \cup {<<>>} /\ i \in Nat \ {0}
  /\ pc = "findings" => i <= Len(report) + 1
  /\ \A l \in Labels : active[l] \in Nat /\ (pc = "gauges" => active[l] <= Len(report))
  /\ current \subseteq Fingerprints /\ activeFingerprints \subseteq Fingerprints
  /\ auditRuns \in Nat /\ violations \in [Labels -> Nat]
  /\ byRule \in [RulesCounted -> Nat]
  /\ \A g \in {gauges, scraped} : DOMAIN g \subseteq Labels /\ \A l \in DOMAIN g : g[l] \in Nat
  /\ previous \in Reports \cup {<<>>}
  /\ counted \in [Fingerprints -> Nat] /\ countedBefore \in [Fingerprints -> Nat]

Counts(r) ==
  [l \in {f \in Labels : With(r, f) # {}} |-> Cardinality(With(r, l))]

(* docs/ARCHITECTURE.md line 54: when Observe returns the gauges say how   *)
(* many findings its report has of each label, and of no other label.  A   *)
(* scrape that runs into Observe may miss labels or find a gauge not yet   *)
(* set, but it never adds up counts of two reports: what it shows of one   *)
(* report is never mixed with what an earlier one had.                     *)
ScrapeOfOneReport ==
  [][/\ Return => gauges' = Counts(report)
     /\ Scrape => \E r \in {previous, report} : \A l \in DOMAIN scraped' :
          scraped'[l] \in {0, Cardinality(With(r, l))}]_vars

(* What the violation counters add for a whole report, whatever severity a *)
(* reload gave a rule in between: nothing for a fingerprint that the       *)
(* previous report had, and one for each finding of any other.  That is    *)
(* one per appearance only as long as the report has a fingerprint once:   *)
(* docs/ARCHITECTURE.md line 54 says "once per stable finding fingerprint",*)
(* and a report that has one twice counts it twice.                        *)
CountedOnAppearance ==
  pc = "gauges" =>
    \A fp \in Fingerprints :
      counted[fp] - countedBefore[fp] =
        IF Of(previous, fp) = {} THEN Cardinality(Of(report, fp)) ELSE 0

(* docs/QA-GAP-ANALYSIS.md line 16: "Violation counters use a first-seen   *)
(* fingerprint".                                                           *)
CountedWhenFirstSeen == \A fp \in Fingerprints : counted[fp] <= 1
===============================================================================
