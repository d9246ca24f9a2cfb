---------------------------- MODULE MetricsProofs ----------------------------
(***************************************************************************)
(* Proofs about Metrics, for every set of findings, every set of reports   *)
(* and any number of audits.                                               *)
(***************************************************************************)
EXTENDS Metrics, FiniteSetTheorems, TLAPS

(* The findings with a label among the first n of a report *)
Among(r, n, label) == {k \in 1 .. n : r[k].label = label}

FingerprintsOf(r) == {r[k].fp : k \in DOMAIN r}

LEMMA AmongFinite ==
  ASSUME NEW r, NEW n \in Nat, NEW label
  PROVE  IsFiniteSet(Among(r, n, label)) /\ Cardinality(Among(r, n, label)) \in Nat
<1>1. IsFiniteSet(1 .. n)
  BY FS_Interval
<1>2. Among(r, n, label) \subseteq 1 .. n
  BY DEF Among
<1> QED
  BY <1>1, <1>2, FS_Subset, FS_CardinalityType

(* One finding more adds one to the count of its label and of no other.    *)
LEMMA OneMoreAmong ==
  ASSUME NEW r, NEW n \in Nat, NEW label
  PROVE  Cardinality(Among(r, n + 1, label)) =
           Cardinality(Among(r, n, label)) + (IF r[n + 1].label = label THEN 1 ELSE 0)
<1>1. IsFiniteSet(Among(r, n, label)) /\ Cardinality(Among(r, n, label)) \in Nat
  BY AmongFinite
<1>2. CASE r[n + 1].label = label
  <2>1. Among(r, n + 1, label) = Among(r, n, label) \cup {n + 1}
    BY <1>2 DEF Among
  <2>2. n + 1 \notin Among(r, n, label)
    BY DEF Among
  <2>3. Cardinality(Among(r, n, label) \cup {n + 1}) = Cardinality(Among(r, n, label)) + 1
    BY <1>1, <2>2, FS_AddElement
  <2> QED
    BY <1>2, <2>1, <2>3
<1>3. CASE r[n + 1].label # label
  <2>1. Among(r, n + 1, label) = Among(r, n, label)
    BY <1>3 DEF Among
  <2> QED
    BY <1>1, <1>3, <2>1
<1> QED
  BY <1>2, <1>3

(* A label's count is not larger than the report, and positive exactly if  *)
(* the report has a finding with the label.                                *)
LEMMA WithFacts ==
  ASSUME NEW r \in Seq(Findings), NEW label
  PROVE  /\ With(r, label) = Among(r, Len(r), label)
         /\ Cardinality(With(r, label)) \in 0 .. Len(r)
         /\ Cardinality(With(r, label)) > 0 <=> With(r, label) # {}
<1>1. With(r, label) = Among(r, Len(r), label)
  BY DEF With, Among
<1>2. IsFiniteSet(With(r, label)) /\ Cardinality(With(r, label)) \in Nat
  BY <1>1, AmongFinite
<1>3. Cardinality(With(r, label)) <= Len(r)
  <2>1. With(r, label) \subseteq 1 .. Len(r)
    BY DEF With
  <2>2. IsFiniteSet(1 .. Len(r)) /\ Cardinality(1 .. Len(r)) = Len(r)
    <3>1. Len(r) \in Nat /\ 1 \in Int
      OBVIOUS
    <3>2. /\ IsFiniteSet(1 .. Len(r))
          /\ Cardinality(1 .. Len(r)) = IF 1 > Len(r) THEN 0 ELSE Len(r) - 1 + 1
      BY <3>1, FS_Interval
    <3> QED
      BY <3>1, <3>2
  <2> QED
    BY <2>1, <2>2, FS_Subset
<1>4. Cardinality(With(r, label)) = 0 <=> With(r, label) = {}
  BY <1>2, FS_EmptySet
<1> QED
  BY <1>1, <1>2, <1>3, <1>4

----------------------------------------------------------------------------
(* The inductive invariant *)

ShapeInv ==
  /\ report \in Seq(Findings) /\ previous \in Seq(Findings)
  /\ active \in [Labels -> Nat]
  /\ gauges \in [DOMAIN gauges -> Nat]

(* What the loop over the findings has counted so far, and what is known   *)
(* of the report once it has ended.                                        *)
CountInv ==
  /\ pc = "findings" =>
       \A l \in Labels : active[l] = Cardinality(Among(report, i - 1, l))
  /\ pc = "findings" => current = {report[k].fp : k \in 1 .. i - 1}
  /\ pc = "gauges" =>
       \A l \in Labels : active[l] = Cardinality(With(report, l))

(* Which report the fingerprints that are not new come from *)
FingerprintInv ==
  activeFingerprints = FingerprintsOf(IF pc = "gauges" THEN report ELSE previous)

(* Whose the gauges are: the previous report's until the reset, then the   *)
(* new one's, each with 0 or its count.                                    *)
GaugeInv ==
  /\ pc \in {"unlocked", "locked"} => gauges = Counts(previous)
  /\ pc = "findings" => gauges = NoGauges
  /\ pc = "gauges" =>
       /\ DOMAIN gauges \subseteq ActiveLabels
       /\ \A l \in DOMAIN gauges : gauges[l] \in {0, active[l]}

IInv == TypeOK /\ ShapeInv /\ CountInv /\ FingerprintInv /\ GaugeInv

LEMMA InitInv == Init => IInv
<1> SUFFICES ASSUME Init PROVE IInv
  OBVIOUS
<1>0. /\ pc = "unlocked" /\ report = <<>> /\ previous = <<>> /\ i = 1
      /\ active = [l \in Labels |-> 0] /\ gauges = NoGauges /\ scraped = NoGauges
      /\ current = {} /\ activeFingerprints = {}
  BY DEF Init, Zero
<1>1. TypeOK
  BY <1>0 DEF Init, TypeOK, Zero, NoGauges
<1>2. ShapeInv
  BY <1>0 DEF ShapeInv, NoGauges
<1>3. CountInv
  BY <1>0 DEF CountInv
<1>4. FingerprintInv
  BY <1>0 DEF FingerprintInv, FingerprintsOf
<1>5. GaugeInv
  <2>1. Counts(<<>>) = NoGauges
    <3>1. {f \in Labels : With(<<>>, f) # {}} = {}
      BY DEF With
    <3> QED
      BY <3>1 DEF Counts, NoGauges
  <2> QED
    BY <1>0, <2>1 DEF GaugeInv
<1> QED
  BY <1>1, <1>2, <1>3, <1>4, <1>5 DEF IInv

(* The loop over the findings *)
LEMMA CountFindingStep == IInv /\ CountFinding => IInv'
<1> SUFFICES ASSUME IInv, CountFinding PROVE IInv'
  OBVIOUS
<1> DEFINE f == report[i]
           new == IF f.fp \in activeFingerprints THEN 0 ELSE 1
<1>0. /\ pc = "findings" /\ pc' = "findings" /\ i <= Len(report) /\ i' = i + 1
      /\ active' = [active EXCEPT ![f.label] = @ + 1]
      /\ current' = current \cup {f.fp}
      /\ violations' = [violations EXCEPT ![f.label] = @ + new]
      /\ byRule' = [rule \in RulesCounted |->
                      byRule[rule] + (IF rule = f.rule THEN new ELSE 0)]
      /\ counted' = [counted EXCEPT ![f.fp] = @ + new]
      /\ UNCHANGED <<report, activeFingerprints, auditRuns, gauges, scraped, previous,
                     countedBefore>>
  BY DEF CountFinding
<1>1. /\ report \in Seq(Findings) /\ active \in [Labels -> Nat]
      /\ i \in Nat \ {0} /\ current \subseteq Fingerprints
      /\ violations \in [Labels -> Nat] /\ counted \in [Fingerprints -> Nat]
      /\ byRule \in [RulesCounted -> Nat]
      /\ \A l \in Labels : active[l] = Cardinality(Among(report, i - 1, l))
      /\ current = {report[k].fp : k \in 1 .. i - 1}
      /\ gauges = NoGauges
  BY <1>0 DEF IInv, TypeOK, ShapeInv, CountInv, GaugeInv
<1>2. f \in Findings /\ f.label \in Labels /\ f.fp \in Fingerprints /\ new \in Nat
  BY <1>0, <1>1 DEF Labels, Fingerprints
<1> HIDE DEF new
<1>3. active' \in [Labels -> Nat]
  BY <1>0, <1>1, <1>2
<1>4. TypeOK'
  <2>1. violations' \in [Labels -> Nat] /\ counted' \in [Fingerprints -> Nat]
    BY <1>0, <1>1, <1>2
  <2>2. byRule' \in [RulesCounted -> Nat]
    BY <1>0, <1>1, <1>2
  <2>3. current' \subseteq Fingerprints
    BY <1>0, <1>1, <1>2
  <2>4. i' \in Nat \ {0} /\ i' <= Len(report) + 1
    BY <1>0, <1>1
  <2>5. \A l \in Labels : active'[l] \in Nat
    BY <1>3
  <2> HIDE DEF f
  <2> QED
    BY <1>0, <2>1, <2>2, <2>3, <2>4, <2>5 DEF IInv, TypeOK
<1>5. ShapeInv'
  BY <1>0, <1>3 DEF IInv, ShapeInv
<1>6. CountInv'
  <2>1. i - 1 \in Nat /\ i - 1 + 1 = i /\ i' - 1 = i
    BY <1>0, <1>1
  <2>2. ASSUME NEW l \in Labels
        PROVE  active'[l] = Cardinality(Among(report', i' - 1, l))
    <3>1. Cardinality(Among(report, i, l)) =
            Cardinality(Among(report, i - 1, l)) + (IF f.label = l THEN 1 ELSE 0)
      BY <2>1, OneMoreAmong
    <3>2. active'[l] = active[l] + (IF f.label = l THEN 1 ELSE 0)
      BY <1>0, <1>1, <1>2
    <3> QED
      BY <1>0, <1>1, <2>1, <3>1, <3>2
  <2>3. current' = {report'[k].fp : k \in 1 .. i' - 1}
    <3>1. 1 .. i = (1 .. i - 1) \cup {i}
      BY <1>1
    <3> QED
      BY <1>0, <1>1, <2>1, <3>1
  <2> QED
    BY <1>0, <2>2, <2>3 DEF CountInv
<1>7. FingerprintInv' /\ GaugeInv'
  BY <1>0, <1>1 DEF IInv, FingerprintInv, GaugeInv
<1> QED
  BY <1>4, <1>5, <1>6, <1>7 DEF IInv

LEMMA KeepFingerprintsStep == IInv /\ KeepFingerprints => IInv'
<1> SUFFICES ASSUME IInv, KeepFingerprints PROVE IInv'
  OBVIOUS
<1>0. /\ pc = "findings" /\ pc' = "gauges" /\ i > Len(report)
      /\ activeFingerprints' = current
      /\ UNCHANGED <<report, i, active, current, auditRuns, violations, byRule, counted, countedBefore,
                     gauges, scraped, previous>>
  BY DEF KeepFingerprints, FingerprintsKept, localVars, counterVars
<1>1. /\ report \in Seq(Findings) /\ i \in Nat \ {0} /\ i <= Len(report) + 1
      /\ \A l \in Labels : active[l] = Cardinality(Among(report, i - 1, l))
      /\ current = {report[k].fp : k \in 1 .. i - 1}
      /\ gauges = NoGauges
  BY <1>0 DEF IInv, TypeOK, ShapeInv, CountInv, GaugeInv
<1>2. i - 1 = Len(report)
  BY <1>0, <1>1
<1>3. \A l \in Labels : active[l] = Cardinality(With(report, l))
  BY <1>1, <1>2, WithFacts
<1>4. current = FingerprintsOf(report)
  BY <1>1, <1>2 DEF FingerprintsOf
<1>5. TypeOK'
  <2>1. \A l \in Labels : active[l] <= Len(report)
    BY <1>1, <1>3, WithFacts
  <2> QED
    BY <1>0, <2>1 DEF IInv, TypeOK
<1>6. ShapeInv' /\ CountInv'
  BY <1>0, <1>3 DEF IInv, ShapeInv, CountInv
<1>7. FingerprintInv'
  BY <1>0, <1>4 DEF FingerprintInv
<1>8. GaugeInv'
  BY <1>0, <1>1 DEF GaugeInv, NoGauges
<1> QED
  BY <1>5, <1>6, <1>7, <1>8 DEF IInv

(* Making and setting gauges *)
LEMMA GaugeStep ==
  ASSUME IInv, NEW l \in Labels, MakeGauge(l) \/ SetGauge(l)
  PROVE  IInv'
<1>0. /\ pc = "gauges"
      /\ UNCHANGED <<pc, report, i, active, current, activeFingerprints, auditRuns,
                     violations, byRule, counted, countedBefore, scraped, previous>>
  BY DEF MakeGauge, SetGauge, localVars, counterVars
<1>1. /\ active \in [Labels -> Nat] /\ gauges \in [DOMAIN gauges -> Nat]
      /\ DOMAIN gauges \subseteq ActiveLabels
      /\ \A k \in DOMAIN gauges : gauges[k] \in {0, active[k]}
  BY <1>0 DEF IInv, ShapeInv, GaugeInv
<1>2. /\ gauges' \in [DOMAIN gauges' -> Nat]
      /\ DOMAIN gauges' \subseteq ActiveLabels
      /\ \A k \in DOMAIN gauges' : gauges'[k] \in {0, active[k]}
  <2>1. CASE MakeGauge(l)
    <3>1. /\ l \in ActiveLabels
          /\ gauges' = [k \in DOMAIN gauges \cup {l} |-> IF k = l THEN 0 ELSE gauges[k]]
      BY <2>1 DEF MakeGauge
    <3> QED
      BY <1>1, <3>1
  <2>2. CASE SetGauge(l)
    <3>1. l \in DOMAIN gauges /\ gauges' = [gauges EXCEPT ![l] = active[l]]
      BY <2>2 DEF SetGauge
    <3> QED
      BY <1>1, <3>1
  <2> QED
    BY <2>1, <2>2
<1>3. ActiveLabels' = ActiveLabels /\ ActiveLabels \subseteq Labels
  BY <1>0 DEF ActiveLabels
<1>4. TypeOK'
  BY <1>0, <1>2, <1>3 DEF IInv, TypeOK
<1>5. ShapeInv' /\ CountInv'
  BY <1>0, <1>2 DEF IInv, ShapeInv, CountInv
<1>6. FingerprintInv' /\ GaugeInv'
  BY <1>0, <1>2, <1>3 DEF IInv, FingerprintInv, GaugeInv
<1> QED
  BY <1>4, <1>5, <1>6 DEF IInv

(* When every gauge is made and set, they say what the report has.         *)
LEMMA ReturnShows ==
  ASSUME IInv, Return
  PROVE  gauges = Counts(report)
<1>0. pc = "gauges" /\ AllSet /\ ActiveLabels \subseteq DOMAIN gauges
  BY DEF Return
<1>1. /\ report \in Seq(Findings) /\ gauges \in [DOMAIN gauges -> Nat]
      /\ \A l \in Labels : active[l] = Cardinality(With(report, l))
      /\ DOMAIN gauges = ActiveLabels
  BY <1>0 DEF IInv, ShapeInv, CountInv, GaugeInv
<1>2. DOMAIN gauges = {f \in Labels : With(report, f) # {}}
  BY <1>1, WithFacts DEF ActiveLabels
<1>3. \A l \in DOMAIN gauges : gauges[l] = Cardinality(With(report, l))
  BY <1>0, <1>1 DEF AllSet, ActiveLabels
<1> QED
  BY <1>1, <1>2, <1>3 DEF Counts

LEMMA ReturnStep == IInv /\ Return => IInv'
<1> SUFFICES ASSUME IInv, Return PROVE IInv'
  OBVIOUS
<1>0. /\ pc = "gauges" /\ pc' = "unlocked" /\ previous' = report
      /\ UNCHANGED <<report, i, active, current, activeFingerprints, auditRuns,
                     violations, byRule, counted, countedBefore, gauges, scraped>>
  BY DEF Return, localVars, counterVars
<1>1. gauges = Counts(report)
  BY ReturnShows
<1>2. TypeOK'
  BY <1>0 DEF IInv, TypeOK
<1>3. ShapeInv' /\ CountInv'
  BY <1>0 DEF IInv, ShapeInv, CountInv
<1>4. FingerprintInv'
  BY <1>0 DEF IInv, FingerprintInv
<1>5. GaugeInv'
  BY <1>0, <1>1 DEF GaugeInv
<1> QED
  BY <1>2, <1>3, <1>4, <1>5 DEF IInv

LEMMA InvStep == IInv /\ [Next]_vars => IInv'
<1> SUFFICES ASSUME IInv, [Next]_vars PROVE IInv'
  OBVIOUS
<1>1. ASSUME NEW r \in Reports, Observe(r)
      PROVE  IInv'
  <2>0. /\ pc = "unlocked" /\ pc' = "locked" /\ report' = r /\ auditRuns' = auditRuns + 1
        /\ countedBefore' = counted
        /\ UNCHANGED <<i, active, current, activeFingerprints, violations, byRule,
                       gauges, scraped, previous, counted>>
    BY <1>1 DEF Observe
  <2>1. r \in Seq(Findings)
    BY MetricsAssumption
  <2>2. TypeOK'
    BY <2>0 DEF IInv, TypeOK
  <2>3. ShapeInv' /\ CountInv'
    BY <2>0, <2>1 DEF IInv, ShapeInv, CountInv
  <2>4. FingerprintInv' /\ GaugeInv'
    BY <2>0 DEF IInv, FingerprintInv, GaugeInv
  <2> QED
    BY <2>2, <2>3, <2>4 DEF IInv
<1>2. CASE Reset
  <2>0. /\ pc = "locked" /\ pc' = "findings" /\ gauges' = NoGauges
        /\ i' = 1 /\ active' = [l \in Labels |-> 0] /\ current' = {}
        /\ UNCHANGED <<report, activeFingerprints, auditRuns, violations, byRule, counted, countedBefore,
                       scraped, previous>>
    BY <1>2 DEF Reset, ResetGauges, NewMap, Zero, counterVars
  <2>1. TypeOK'
    <3>1. report \in Seq(Findings)
      BY DEF IInv, ShapeInv
    <3>2. 1 <= Len(report) + 1
      BY <3>1
    <3> QED
      BY <2>0, <3>2 DEF IInv, TypeOK, NoGauges
  <2>2. ShapeInv'
    BY <2>0 DEF IInv, ShapeInv, NoGauges
  <2>3. CountInv'
    <3>1. ASSUME NEW l PROVE Cardinality(Among(report', i' - 1, l)) = 0
      <4>1. Among(report', i' - 1, l) = {}
        BY <2>0 DEF Among
      <4> QED
        BY <4>1, FS_EmptySet
    <3> QED
      BY <2>0, <3>1 DEF CountInv
  <2>4. FingerprintInv' /\ GaugeInv'
    BY <2>0 DEF IInv, FingerprintInv, GaugeInv
  <2> QED
    BY <2>1, <2>2, <2>3, <2>4 DEF IInv
<1>3. CASE CountFinding
  BY <1>3, CountFindingStep
<1>4. CASE KeepFingerprints
  BY <1>4, KeepFingerprintsStep
<1>5. CASE \E l \in Labels : MakeGauge(l) \/ SetGauge(l)
  BY <1>5, GaugeStep
<1>6. CASE Return
  BY <1>6, ReturnStep
<1>7. CASE Scrape
  <2>0. /\ scraped' = gauges
        /\ UNCHANGED <<pc, report, i, active, current, activeFingerprints, auditRuns,
                       violations, byRule, counted, countedBefore, gauges, previous>>
    BY <1>7 DEF Scrape, localVars, counterVars
  <2>1. TypeOK'
    BY <2>0 DEF IInv, TypeOK
  <2>2. ShapeInv' /\ CountInv' /\ FingerprintInv'
    BY <2>0 DEF IInv, ShapeInv, CountInv, FingerprintInv
  <2>3. GaugeInv'
    BY <2>0 DEF IInv, GaugeInv, ActiveLabels
  <2> QED
    BY <2>1, <2>2, <2>3 DEF IInv
<1>8. CASE UNCHANGED vars
  BY <1>8 DEF vars, IInv, TypeOK, ShapeInv, CountInv, FingerprintInv, GaugeInv, ActiveLabels
<1> QED
  BY <1>1, <1>2, <1>3, <1>4, <1>5, <1>6, <1>7, <1>8 DEF Next

(* The invariant of Observe: what its loops have counted, and whose report *)
(* the gauges and the fingerprints are.                                    *)
THEOREM Invariance == Spec => []IInv
  BY InitInv, InvStep, PTL DEF Spec

(* The metrics keep their types.                                           *)
THEOREM TypeCorrect == Spec => []TypeOK
  BY Invariance, PTL DEF IInv

----------------------------------------------------------------------------
(* When Observe returns the gauges are its report's, and a scrape at any   *)
(* moment shows counts of one report only.                                 *)
THEOREM ScrapeShowsOneReport == Spec => ScrapeOfOneReport
<1> DEFINE Shown ==
      /\ Return => gauges' = Counts(report)
      /\ Scrape => \E r \in {previous, report} : \A l \in DOMAIN scraped' :
           scraped'[l] \in {0, Cardinality(With(r, l))}
<1>1. IInv /\ [Next]_vars => [Shown]_vars
  <2> SUFFICES ASSUME IInv PROVE Shown
    OBVIOUS
  <2>1. Return => gauges' = Counts(report)
    BY ReturnShows DEF Return
  <2>2. ASSUME Scrape
        PROVE  \E r \in {previous, report} : \A l \in DOMAIN scraped' :
                 scraped'[l] \in {0, Cardinality(With(r, l))}
    <3>0. scraped' = gauges
      BY <2>2 DEF Scrape
    <3>1. CASE pc \in {"unlocked", "locked"}
      BY <3>0, <3>1 DEF IInv, GaugeInv, Counts
    <3>2. CASE pc = "findings"
      BY <3>0, <3>2 DEF IInv, GaugeInv, NoGauges
    <3>3. CASE pc = "gauges"
      BY <3>0, <3>3 DEF IInv, GaugeInv, CountInv, ActiveLabels
    <3> QED
      BY <3>1, <3>2, <3>3 DEF IInv, TypeOK
  <2> QED
    BY <2>1, <2>2
<1> HIDE DEF Shown
<1>2. Spec => [][Shown]_vars
  BY Invariance, <1>1, PTL DEF Spec
<1> QED
  BY <1>2, PTL DEF Shown, ScrapeOfOneReport

(* What a report adds to the counts *)

(* The findings with a fingerprint among the first n of a report           *)
FirstOf(r, n, fp) == {k \in 1 .. n : r[k].fp = fp}

(* One finding more is one more of its fingerprint and of no other.        *)
LEMMA OneMoreOf ==
  ASSUME NEW r, NEW n \in Nat, NEW fp
  PROVE  /\ Cardinality(FirstOf(r, n, fp)) \in Nat
         /\ Cardinality(FirstOf(r, n + 1, fp)) =
              Cardinality(FirstOf(r, n, fp)) + (IF r[n + 1].fp = fp THEN 1 ELSE 0)
<1>1. IsFiniteSet(FirstOf(r, n, fp)) /\ Cardinality(FirstOf(r, n, fp)) \in Nat
  <2>1. IsFiniteSet(1 .. n)
    BY FS_Interval
  <2>2. FirstOf(r, n, fp) \subseteq 1 .. n
    BY DEF FirstOf
  <2> QED
    BY <2>1, <2>2, FS_Subset, FS_CardinalityType
<1>2. CASE r[n + 1].fp = fp
  <2>1. FirstOf(r, n + 1, fp) = FirstOf(r, n, fp) \cup {n + 1}
    BY <1>2 DEF FirstOf
  <2>2. n + 1 \notin FirstOf(r, n, fp)
    BY DEF FirstOf
  <2>3. Cardinality(FirstOf(r, n, fp) \cup {n + 1}) = Cardinality(FirstOf(r, n, fp)) + 1
    BY <1>1, <2>2, FS_AddElement
  <2> QED
    BY <1>1, <1>2, <2>1, <2>3
<1>3. CASE r[n + 1].fp # fp
  <2>1. FirstOf(r, n + 1, fp) = FirstOf(r, n, fp)
    BY <1>3 DEF FirstOf
  <2> QED
    BY <1>1, <1>3, <2>1
<1> QED
  BY <1>2, <1>3

Added(r, n, fp) == IF Of(previous, fp) = {} THEN Cardinality(FirstOf(r, n, fp)) ELSE 0

AppearInv ==
  /\ pc = "locked" => counted = countedBefore
  /\ pc = "findings" =>
       \A fp \in Fingerprints : counted[fp] = countedBefore[fp] + Added(report, i - 1, fp)
  /\ pc = "gauges" =>
       \A fp \in Fingerprints :
         counted[fp] = countedBefore[fp] + Added(report, Len(report), fp)

LEMMA AppearStep == IInv /\ AppearInv /\ [Next]_vars => AppearInv'
<1> SUFFICES ASSUME IInv, AppearInv, [Next]_vars PROVE AppearInv'
  OBVIOUS
<1>0. /\ counted \in [Fingerprints -> Nat] /\ countedBefore \in [Fingerprints -> Nat]
      /\ report \in Seq(Findings) /\ i \in Nat \ {0}
  BY DEF IInv, TypeOK, ShapeInv
<1>1. CASE Reset
  <2>1. /\ pc = "locked" /\ pc' = "findings" /\ i' = 1
        /\ UNCHANGED <<report, previous, counted, countedBefore>>
    BY <1>1 DEF Reset, counterVars
  <2>2. ASSUME NEW fp
        PROVE  Added(report, 0, fp)' = 0
    <3>1. FirstOf(report', 0, fp) = {}
      BY DEF FirstOf
    <3> QED
      BY <3>1, FS_EmptySet DEF Added
  <2>3. ASSUME NEW fp \in Fingerprints
        PROVE  counted'[fp] = countedBefore'[fp] + Added(report, i - 1, fp)'
    <3>1. Added(report, i - 1, fp)' = 0
      BY <2>1, <2>2 DEF Added
    <3>2. counted'[fp] = countedBefore'[fp] /\ countedBefore'[fp] \in Nat
      BY <1>0, <2>1 DEF AppearInv
    <3> QED
      BY <3>1, <3>2
  <2> QED
    BY <2>1, <2>3 DEF AppearInv
<1>2. CASE CountFinding
  <2>1. /\ pc = "findings" /\ pc' = "findings" /\ i <= Len(report) /\ i' = i + 1
        /\ counted' = [counted EXCEPT ![report[i].fp] =
                         @ + (IF report[i].fp \in activeFingerprints THEN 0 ELSE 1)]
        /\ UNCHANGED <<report, previous, countedBefore>>
    BY <1>2 DEF CountFinding
  <2>2. ASSUME NEW fp \in Fingerprints
        PROVE  counted'[fp] = countedBefore'[fp] + Added(report, i - 1, fp)'
    <3>1. fp \in activeFingerprints <=> Of(previous, fp) # {}
      BY <2>1 DEF IInv, FingerprintInv, FingerprintsOf, Of
    <3>2. /\ i - 1 \in Nat /\ i - 1 + 1 = i /\ i' - 1 = i
      BY <1>0, <2>1
    <3>3. /\ Cardinality(FirstOf(report, i - 1, fp)) \in Nat
          /\ Cardinality(FirstOf(report, i, fp)) =
               Cardinality(FirstOf(report, i - 1, fp)) + (IF report[i].fp = fp THEN 1 ELSE 0)
      BY <3>2, OneMoreOf
    <3>4. Added(report, i - 1, fp)' =
            IF Of(previous, fp) = {} THEN Cardinality(FirstOf(report, i, fp)) ELSE 0
      BY <2>1, <3>2 DEF Added
    <3>5. counted[fp] = countedBefore[fp] + Added(report, i - 1, fp)
      BY <2>1 DEF AppearInv
    <3>6. counted'[fp] = counted[fp] + (IF report[i].fp = fp /\ Of(previous, fp) = {}
                                        THEN 1 ELSE 0)
      BY <1>0, <2>1, <3>1
    <3>7. counted[fp] \in Nat /\ countedBefore[fp] \in Nat
      BY <1>0
    <3> QED
      BY <2>1, <3>3, <3>4, <3>5, <3>6, <3>7 DEF Added
  <2> QED
    BY <2>1, <2>2 DEF AppearInv
<1>3. CASE KeepFingerprints
  <2>1. /\ pc = "findings" /\ pc' = "gauges" /\ i > Len(report)
        /\ UNCHANGED <<report, previous, counted, countedBefore>>
    BY <1>3 DEF KeepFingerprints, localVars, counterVars
  <2>2. i - 1 = Len(report)
    BY <1>0, <2>1 DEF IInv, TypeOK
  <2>3. \A fp : Added(report, i - 1, fp) = Added(report, Len(report), fp)'
    BY <2>1, <2>2 DEF Added
  <2> QED
    BY <2>1, <2>3 DEF AppearInv
<1>4. CASE UNCHANGED <<pc, report, i, previous, counted, countedBefore>>
  BY <1>4 DEF AppearInv, Added
<1>5. CASE \E r \in Reports : Observe(r)
  BY <1>5 DEF Observe, AppearInv
<1>6. CASE Return
  BY <1>6 DEF Return, AppearInv
<1> QED
  BY <1>1, <1>2, <1>3, <1>4, <1>5, <1>6 DEF Next, MakeGauge, SetGauge, Scrape,
     localVars, counterVars, vars

(* A report adds nothing to the count of a fingerprint that the previous   *)
(* report had, and one for each of its findings to that of any other.      *)
THEOREM CountingOnAppearance == Spec => []CountedOnAppearance
<1>1. Init => AppearInv
  BY DEF Init, AppearInv
<1>2. IInv /\ AppearInv => CountedOnAppearance
  <2> SUFFICES ASSUME IInv, AppearInv, pc = "gauges", NEW fp \in Fingerprints
               PROVE  counted[fp] - countedBefore[fp] =
                        IF Of(previous, fp) = {} THEN Cardinality(Of(report, fp)) ELSE 0
    BY DEF CountedOnAppearance
  <2>1. counted[fp] = countedBefore[fp] + Added(report, Len(report), fp)
    BY DEF AppearInv
  <2>2. report \in Seq(Findings) /\ countedBefore[fp] \in Nat
    BY DEF IInv, TypeOK, ShapeInv
  <2>3. FirstOf(report, Len(report), fp) = Of(report, fp)
    BY <2>2 DEF FirstOf, Of
  <2>4. Added(report, Len(report), fp) \in Nat
    BY <2>2, OneMoreOf DEF Added
  <2>5. counted[fp] - countedBefore[fp] = Added(report, Len(report), fp)
    BY <2>1, <2>2, <2>4
  <2> QED
    BY <2>3, <2>5 DEF Added
<1> QED
  BY Invariance, AppearStep, <1>1, <1>2, PTL DEF Spec
=============================================================================
