----------------------------- MODULE MCMetrics -----------------------------
(***************************************************************************)
(* Two fingerprints, of an orphan rule and of another rule.  The orphan's  *)
(* rule has two severities: its finding comes with either.                 *)
(***************************************************************************)
EXTENDS Metrics

CONSTANTS o, t

MCFindings ==
  {[fp |-> o, rule |-> "orphan", label |-> "orphan error"],
   [fp |-> o, rule |-> "orphan", label |-> "orphan warning"],
   [fp |-> t, rule |-> "topology", label |-> "topology error"]}

DistinctReports ==
  {<<>>} \cup {<<f>> : f \in MCFindings} \cup
  {<<f, g>> : <<f, g>> \in {<<f, g>> \in MCFindings \X MCFindings : f.fp # g.fp}}

(* A report has a fingerprint twice when a policy expects one edge in two  *)
(* environments: the fingerprint of a missing edge does not include them.  *)
MCReports == DistinctReports \cup {<<f, f>> : f \in {g \in MCFindings : g.fp = t}}
=============================================================================
