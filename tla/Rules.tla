--------------------------------- MODULE Rules ---------------------------------
(***************************************************************************)
(* The engine of internal/rules/engine.go over the result of Correlate:    *)
(* what an audit concludes from a window of spans.                         *)
(*                                                                         *)
(* An offline audit judges its whole input once.  A live audit judges the  *)
(* spans received so far, and again when more have arrived.  Correlate     *)
(* runs step by step (module Correlation); the rules, the coverage and the *)
(* policy are then one step, as they only read what it left.               *)
(*                                                                         *)
(* A finding is the check that made it, its kind, the positions of the     *)
(* spans it names or the edge it is about, and its evidence state.  Its    *)
(* services, ids, method and broker names are those of the spans it names, *)
(* so a finding that names others has another fingerprint.  An attribute   *)
(* that is absent is None, a time that is absent 0.  A span has an id when *)
(* its context is valid, and a rawId when it has ids at all.               *)
(***************************************************************************)
EXTENDS Integers, Sequences, FiniteSets, FiniteSetsExt

CONSTANTS
  Inputs, Window, MaxDuration, Strong, Weak, None,  \* of Correlation
  Audits,               \* the audits considered: [finalized, complete]
  AppliesTo,            \* the services each enabled check applies to
  Failing,              \* checks at or above failOnSeverity
  FailOnInsufficient,   \* failOnInsufficientEvidence
  QueueLatency,         \* queueLatencyThreshold
  ClockSkewTolerance,
  DuplicateThreshold,
  ExpectedEdges, DeniedEdges, IgnoredEdges,
  Wildcard                   \* the wildcard of an edge

VARIABLES
  stream,    \* the spans in the order they arrive
  audit,     \* auditContext, without the watermark
  judged,    \* the audit of the window is over
  findings,  \* report.Findings of the last audit
  coverage,  \* report.Coverage.Status
  summary,   \* report.Summary, the counts taken from the correlation
  violates,  \* ViolatesPolicy of the report
  spans, phase, ci, route, left, right, out, correlations, references,
  unresolved \* of Correlation

corrVars == <<spans, phase, ci, route, left, right, out, correlations,
              references, unresolved>>
vars == <<stream, audit, judged, findings, coverage, summary, violates, corrVars>>

Correlate == INSTANCE Correlation

(* A window is a sequence of spans as Correlation assumes them, whose role  *)
(* follows from their operation (model.go lines 323 and 324).              *)
ASSUME RulesAssumption ==
  /\ Correlate!CorrelationAssumption
  /\ DuplicateThreshold \in Nat
  /\ Audits \subseteq [finalized : BOOLEAN, complete : BOOLEAN]
  /\ \A w \in Inputs : w \in Seq(Range(w))
  /\ \A w \in Inputs : \A k \in DOMAIN w :
       /\ w[k].role = "producer" <=> w[k].op \in {"create", "send"}
       /\ w[k].role = "consumer" <=> w[k].op \in {"process", "receive"}
       /\ w[k].id \in {None, w[k].rawId}

----------------------------------------------------------------------------
(* What the rules read *)

Checks == DOMAIN AppliesTo
Applies(check, k) == check \in Checks /\ spans[k].service \in AppliesTo[check]

Producers == Correlate!Producers
Consumers == Correlate!Consumers

ProducerMatched == {x.producer : x \in correlations}
ConsumerMatched == {x.consumer : x \in correlations}

Latency(x) ==
  Correlate!Saturated(spans[x.consumer].start - spans[x.producer].end)

HighConfidence(x) == x.method \in {"span_link", "parent_context"}

EventWatermark == Max({spans[k].end : k \in DOMAIN spans})

MutantWindowClosed(k) == audit.finalized \/ EventWatermark >= spans[k].end
WindowClosed(k) == audit.finalized \/ EventWatermark >= spans[k].end + Window

MutantAbsenceEvidence == IF audit.finalized THEN "sufficient" ELSE "insufficient"
AbsenceEvidence == IF audit.complete THEN "sufficient" ELSE "insufficient"

Finding(check, kind, about, edge, evidence) ==
  [check |-> check, kind |-> kind, about |-> about, edge |-> edge,
   evidence |-> evidence]

About(check, ks, evidence) ==
  {Finding(check, check, {k}, None, evidence) : k \in {j \in ks : Applies(check, j)}}

----------------------------------------------------------------------------
(* The checks of one span *)

Messaging == {k \in DOMAIN spans : spans[k].system # None \/ spans[k].op # None}

LooksMessaging ==
  {k \in DOMAIN spans : spans[k].op # None \/ spans[k].kind \in {"PRODUCER", "CONSUMER"}}

Operations == {"create", "send", "receive", "process", "settle"}

ExpectedKinds ==
  [create |-> {"PRODUCER"}, send |-> {"PRODUCER", "CLIENT"},
   receive |-> {"CLIENT"}, settle |-> {"CLIENT"}, process |-> {"CONSUMER"}]

Known == {k \in Messaging : spans[k].op \in Operations}

Faulty ==
  [missing_messaging_system |-> {k \in LooksMessaging : spans[k].system = None},
   missing_service_name |-> {k \in Messaging : spans[k].service = None},
   missing_destination |-> {k \in Known : spans[k].dest = <<>>},
   invalid_operation |-> Messaging \ Known,
   invalid_span_kind |-> {k \in Known : spans[k].kind \notin ExpectedKinds[spans[k].op]},
   invalid_span_identity |-> {k \in Messaging : spans[k].id = None},
   invalid_timestamps |->
     {k \in Messaging : 0 \in {spans[k].start, spans[k].end} \/ spans[k].end < spans[k].start},
   invalid_context_reference |->
     {k \in Messaging : spans[k].invalidParent \/ None \in Range(spans[k].links)}]

SpanChecks == DOMAIN Faulty

FaultySpans == UNION {About(check, Faulty[check], "sufficient") : check \in SpanChecks}

----------------------------------------------------------------------------
(* The checks of several spans *)

(* correlationForConsumer of a consumer that no context correlated: there  *)
(* is one correlation by its message, or those of its route, nearest first *)
(* and on a tie the producer that ended before the consumer started.  Of   *)
(* producers that end at once the walk to the left meets the last first.   *)
(* (Timestamps out of a duration's range may be walked in another order.)  *)
Distance(x) == IF Latency(x) < 0 THEN -Latency(x) ELSE Latency(x)

AddedBefore(x, y) ==
  \/ Distance(x) < Distance(y)
  \/ Distance(x) = Distance(y) /\ Latency(x) > Latency(y)
  \/ Latency(x) = Latency(y) /\ IF Latency(x) > 0 THEN x.producer > y.producer
                                                 ELSE x.producer < y.producer

CorrelationsOf(k) == {x \in correlations : x.consumer = k}

Candidate(k) ==
  {x.producer : x \in {y \in CorrelationsOf(k) :
                         \A z \in CorrelationsOf(k) \ {y} : AddedBefore(y, z)}}

WithoutContext ==
  {k \in Consumers : /\ spans[k].op = "process" /\ references[k] = 0
                     /\ Applies("missing_consumer_context", k)}

MissingConsumerContext ==
  {Finding("missing_consumer_context", "missing_consumer_context",
           {k} \cup Candidate(k), None, "sufficient") : k \in WithoutContext}

UnresolvedConsumerContext ==
  About("unresolved_consumer_context",
        {k \in Consumers : unresolved[k] > 0}, "insufficient")

OrphanProducer ==
  About("orphan_producer",
        {k \in Producers \ ProducerMatched : WindowClosed(k)}, AbsenceEvidence)

MutantOrphanConsumer ==
  About("orphan_consumer",
        {k \in Consumers \ ConsumerMatched :
           /\ references[k] = 0 /\ WindowClosed(k) /\ spans[k].message # None},
        AbsenceEvidence)
OrphanConsumer ==
  About("orphan_consumer",
        {k \in Consumers \ ConsumerMatched : references[k] = 0 /\ WindowClosed(k)},
        AbsenceEvidence)

(* batchLinkCoverage of consumer k: a context stands for the messages its  *)
(* links name, or for as many links as its producer sent messages.         *)
LinksTo(k, context) == {j \in DOMAIN spans[k].links : spans[k].links[j] = context}

MessagesOf(k, context) ==
  {spans[k].linkMessages[j] : j \in LinksTo(k, context)} \ {None}

SentBy(context) ==
  LET senders == Correlate!ProducersByContext(context)
  IN  IF senders = {} THEN 1 ELSE Max({1, spans[Max(senders)].count})

Covered(k, context) ==
  LET named   == Cardinality(MessagesOf(k, context))
      unnamed == {j \in LinksTo(k, context) : spans[k].linkMessages[j] = None}
  IN  Min({named + Cardinality(unnamed), Max({named, SentBy(context)})})

BatchLinkCoverage(k) ==
  MapThenSumSet(LAMBDA context : Covered(k, context),
                {spans[k].links[j] : j \in DOMAIN spans[k].links} \ {None})

BatchLinksIncomplete ==
  About("batch_links_incomplete",
        {k \in Consumers : /\ spans[k].count >= 2
                           /\ BatchLinkCoverage(k) < spans[k].count},
        "sufficient")

(* duplicate_processing: the attempts at one message, a repeated export of *)
(* a span counted once, be its ids valid or not.                           *)
MessageKey(k) ==
  LET s == spans[k] IN <<s.service, s.system, s.dest, s.group, s.message>>

Attempts ==
  {k \in Consumers : /\ spans[k].op = "process" /\ spans[k].message # None
                     /\ Applies("duplicate_processing", k)}

Repeated(k) ==
  spans[k].rawId # None /\ \E j \in Attempts : j < k /\ spans[j].rawId = spans[k].rawId

AttemptsLike(k) ==
  {j \in Attempts : ~Repeated(j) /\ MessageKey(j) = MessageKey(k)}

(* splitAttemptWindows: an attempt starts at most a window after the one   *)
(* before it.                                                              *)
Follows(i, j) ==
  /\ spans[i].start <= spans[j].start
  /\ \A x \in AttemptsLike(i) :
       spans[x].start \in spans[i].start..(spans[j].start - 1) =>
         \E y \in AttemptsLike(i) :
           spans[y].start \in (spans[x].start + 1)..(spans[x].start + Window)

AttemptWindow(k) == {j \in AttemptsLike(k) : Follows(j, k) \/ Follows(k, j)}

MutantSucceeded(ks) ==
  {k \in ks : ~spans[k].failed /\ \A j \in ks : spans[j].failed => j < k}
Succeeded(ks) == {k \in ks : ~spans[k].failed}

(* successes[0].  sort.Slice keeps the order of equal starts in a window of *)
(* up to twelve attempts; in a larger one it may name another of them.     *)
First(ks) ==
  {k \in ks : \A j \in ks : /\ spans[k].start <= spans[j].start
                            /\ spans[k].start = spans[j].start => k <= j}

DuplicateProcessing ==
  {Finding("duplicate_processing", "duplicate_processing", First(succeeded), None,
           "sufficient") :
     succeeded \in {s \in {Succeeded(AttemptWindow(k)) : k \in Attempts} :
                      Cardinality(s) > DuplicateThreshold}}

BetweenPairs(check, pairs) ==
  {Finding(check, check, {x.producer, x.consumer}, None, "sufficient") :
     x \in {y \in pairs : check \in Checks}}

QueueLatencyHigh ==
  BetweenPairs("queue_latency_high", {x \in correlations : Latency(x) > QueueLatency})

ClockSkew ==
  BetweenPairs("clock_skew",
    {x \in correlations : HighConfidence(x) /\ Latency(x) < -ClockSkewTolerance})

----------------------------------------------------------------------------
(* runtime_topology_mismatch.  An edge is between two services over a      *)
(* destination; its other names are compared in the same way.              *)

Edge(p, k) ==
  [producer |-> spans[p].service, dest |-> spans[p].dest,
   consumer |-> spans[k].service, group |-> spans[k].group]

BuildTopology == {Edge(x.producer, x.consumer) : x \in correlations}

NameMatches(expected, actual) == expected = Wildcard \/ expected = actual

EdgeMatches(x, o) == \A f \in DOMAIN o : NameMatches(x[f], o[f])

Matching(edges, o) == \E x \in edges : EdgeMatches(x, o)

ProducerMatches(x, p) ==
  NameMatches(x.producer, spans[p].service) /\ NameMatches(x.dest, spans[p].dest)

Watched == {o \in BuildTopology : ~Matching(DeniedEdges \cup IgnoredEdges, o)}

DeniedEdgesSeen == {o \in BuildTopology : Matching(DeniedEdges, o)}

UnexpectedEdges ==
  {o \in Watched : ExpectedEdges # {} /\ ~Matching(ExpectedEdges, o)}

EligibleProducers(x) == {p \in Producers : ProducerMatches(x, p) /\ WindowClosed(p)}

MissingEdges ==
  {x \in ExpectedEdges : /\ ~x.perMessage
                         /\ \A o \in Watched : ~EdgeMatches(x, o)
                         /\ EligibleProducers(x) # {}}

(* missingRequiredConsumers: a batch send does not name its messages. *)
Undelivered(x) ==
  {p \in EligibleProducers(x) :
     /\ spans[p].count <= 1
     /\ \A y \in correlations :
          y.producer = p => ~EdgeMatches(x, Edge(p, y.consumer))}

Topology(kind, edges, evidence) ==
  {Finding("runtime_topology_mismatch", kind, {}, o, evidence) : o \in edges}

RuntimeTopologyMismatch ==
  {f \in UNION ({Topology("denied_edge", DeniedEdgesSeen, "sufficient"),
                 Topology("unexpected_edge", UnexpectedEdges, "sufficient"),
                 Topology("missing_edge", MissingEdges, AbsenceEvidence)} \cup
                {{Finding("runtime_topology_mismatch", "missing_required_consumer",
                          {p}, x, AbsenceEvidence) : p \in Undelivered(x)} :
                   x \in {y \in ExpectedEdges : y.perMessage}}) :
     f.check \in Checks}

----------------------------------------------------------------------------
(* The audit *)

AllFindings ==
  UNION {FaultySpans, MissingConsumerContext, UnresolvedConsumerContext, OrphanProducer,
         OrphanConsumer, BatchLinksIncomplete, DuplicateProcessing,
         QueueLatencyHigh, ClockSkew, RuntimeTopologyMismatch}

BaseCoverage ==
  IF \E k \in DOMAIN spans : spans[k].dropped THEN "degraded"
  ELSE IF audit.complete THEN "complete" ELSE "unknown"

MutantDegradedEvidence(f) ==
  IF f.evidence = "insufficient" THEN [f EXCEPT !.evidence = "degraded"] ELSE f
DegradedEvidence(f) ==
  IF BaseCoverage = "degraded" /\ f.evidence = "insufficient"
  THEN [f EXCEPT !.evidence = "degraded"] ELSE f

Summary ==
  [broken |-> Cardinality({k \in Consumers : references[k] = 0}),
   orphanProducers |-> Cardinality({k \in Producers \ ProducerMatched : WindowClosed(k)}),
   orphanConsumers |-> Cardinality({k \in Consumers \ ConsumerMatched : WindowClosed(k)})]

ViolatesPolicy(fs) ==
  \E f \in fs : /\ f.evidence = "sufficient" \/ FailOnInsufficient
                /\ f.check \in Failing

Received(n) == SubSeq(stream, 1, n)

Uncounted(w) == [k \in {j \in DOMAIN w : w[j].role = "consumer"} |-> 0]

Init ==
  /\ stream \in Inputs /\ audit \in Audits
  /\ \E n \in (IF audit.finalized THEN {Len(stream)} ELSE 1..Len(stream)) :
       spans = Received(n)
  /\ judged = FALSE
  /\ findings = {} /\ coverage = "unknown" /\ violates = FALSE
  /\ summary = [broken |-> 0, orphanProducers |-> 0, orphanConsumers |-> 0]
  /\ phase = "consumer" /\ ci = 0
  /\ route = <<>> /\ left = 0 /\ right = 0 /\ out = <<>>
  /\ correlations = {}
  /\ references = Uncounted(spans) /\ unresolved = Uncounted(spans)

CorrelateStep ==
  /\ Correlate!Next
  /\ UNCHANGED <<stream, audit, judged, findings, coverage, summary, violates>>

Judge ==
  /\ phase = "done" /\ ~judged
  /\ judged' = TRUE
  /\ findings' = {DegradedEvidence(f) : f \in AllFindings}
  /\ coverage' = BaseCoverage /\ summary' = Summary
  /\ violates' = ViolatesPolicy(findings')
  /\ UNCHANGED <<stream, audit, corrVars>>

(* More spans have been received when the next live audit begins. *)
NextWindow ==
  /\ judged /\ ~audit.finalized
  /\ \E n \in (Len(spans) + 1)..Len(stream) :
       /\ spans' = Received(n)
       /\ references' = Uncounted(spans') /\ unresolved' = Uncounted(spans')
  /\ judged' = FALSE
  /\ phase' = "consumer" /\ ci' = 0
  /\ route' = <<>> /\ left' = 0 /\ right' = 0 /\ out' = <<>>
  /\ correlations' = {}
  /\ UNCHANGED <<stream, audit, findings, coverage, summary, violates>>

Next == CorrelateStep \/ Judge \/ NextWindow

Spec == Init /\ [][Next]_vars

----------------------------------------------------------------------------
(* Properties *)

AbsenceKinds ==
  {"orphan_producer", "orphan_consumer", "missing_edge", "missing_required_consumer"}

(* The values a report can take: coverage and evidence states agree with   *)
(* what the audit was told of its input.                                   *)
TypeOK ==
  /\ audit \in [finalized : BOOLEAN, complete : BOOLEAN]
  /\ judged \in BOOLEAN /\ violates \in BOOLEAN
  /\ coverage \in {"unknown", "complete", "degraded"}
  /\ \A f \in findings :
       /\ f.check \in Checks /\ f.about \subseteq 1..Len(spans)
       /\ f.evidence \in {"sufficient", "insufficient", "degraded"}
       /\ f.evidence = "degraded" => coverage = "degraded"
  /\ \A n \in DOMAIN summary : summary[n] \in 0..Len(stream)

Named(check) == UNION {f.about : f \in {g \in findings : g.check = check}}

AppliesToAll(check) == \A k \in DOMAIN spans : Applies(check, k)

Orphans == Named("orphan_consumer") \cup Named("unresolved_consumer_context")

(* No span is lost on its way to the report.  A span that looks like       *)
(* messaging is a producer, a consumer or a settlement, or is reported for *)
(* what it lacks.  Once its window is closed, a producer is correlated or  *)
(* reported as an orphan, and a consumer is correlated, reported as an     *)
(* orphan, or reported with a context that cannot be resolved; the orphans *)
(* the summary counts are the spans so reported.                           *)
NothingVanishes ==
  judged =>
    /\ \A k \in LooksMessaging :
         Applies("invalid_operation", k) /\ Applies("missing_messaging_system", k) =>
           k \in Known \cup Named("invalid_operation") \cup Named("missing_messaging_system")
    /\ \A k \in Producers :
         WindowClosed(k) /\ Applies("orphan_producer", k) =>
           k \in ProducerMatched \cup Named("orphan_producer")
    /\ \A k \in Consumers :
         WindowClosed(k) /\ Applies("orphan_consumer", k)
                         /\ Applies("unresolved_consumer_context", k) =>
           k \in ConsumerMatched \cup Orphans
    /\ AppliesToAll("orphan_producer") =>
         summary.orphanProducers = Cardinality(Named("orphan_producer"))
    /\ AppliesToAll("orphan_consumer") /\ AppliesToAll("unresolved_consumer_context") =>
         summary.orphanConsumers =
           Cardinality({k \in Orphans \ ConsumerMatched : WindowClosed(k)})

(* docs/ARCHITECTURE.md line 46: while its input is not declared complete, *)
(* an audit's verdict is what it would be without the findings that rest   *)
(* on telemetry that has not been seen.                                    *)
AbsenceDoesNotDecide ==
  judged /\ ~audit.complete /\ ~FailOnInsufficient =>
    violates = ViolatesPolicy({f \in findings : f.kind \notin AbsenceKinds})

WellFormed == \A k \in DOMAIN stream : stream[k].start <= stream[k].end

(* Timestamps less than 292 years apart, the range of a time.Duration. *)
InRange ==
  \A i, j \in DOMAIN stream :
    stream[j].end - stream[i].start \in (1 - MaxDuration)..(MaxDuration - 1)

(* Spans arrive in the order in which they end, no two at once. *)
InOrder ==
  \A i, j \in DOMAIN stream : i < j => stream[i].end < stream[j].end

Stands(f) ==
  \E g \in findings' : /\ g.check = f.check /\ g.kind = f.kind
                       /\ g.edge = f.edge /\ f.about \subseteq g.about

(* The event-time watermark is a safe clock for consumers: when spans      *)
(* arrive in the order of their ends, a consumer reported as an orphan is  *)
(* never correlated by a later audit (correlationWindowClosed).  The delta  *)
(* of timestamps out of range is negative, and no window excludes it.      *)
OrphanConsumerStands ==
  [][WellFormed /\ InOrder /\ InRange =>
       \A f \in findings : f.check = "orphan_consumer" => Stands(f)]_vars

(* The checks whose findings rest on observed spans alone *)
Observed == SpanChecks \cup {"missing_consumer_context", "duplicate_processing"}

StillWithoutContext(f) ==
  \E g \in findings' :
    g.check = f.check /\ \E k \in f.about \cap g.about : stream[k].role = "consumer"

StillDuplicate(f) ==
  \E g \in findings' : \E i \in f.about, j \in g.about :
    /\ g.check = f.check
    /\ j \in AttemptWindow(i)' /\ stream[j].start <= stream[i].start

(* What observed spans prove is never taken back when more spans arrive,   *)
(* in whatever order.  The fault of a span is found again as it was.  A    *)
(* consumer without context stays reported, though the finding names       *)
(* another producer, or one at last, when a nearer one arrives.  Attempts  *)
(* that were too many are so in every later audit, though the finding then *)
(* names an earlier attempt of their window: windows only grow together.   *)
(* In the last two cases the fingerprint changes (engine.go lines 138 and  *)
(* 229), so the same fact is counted again.                                *)
ObservedStands ==
  [][\A f \in findings :
       /\ f.check \in SpanChecks => f \in findings'
       /\ f.check = "missing_consumer_context" => StillWithoutContext(f)
       /\ f.check = "duplicate_processing" => StillDuplicate(f)]_vars

(* README.md line 120: "`sufficient`: the observed span itself proves the  *)
(* contract violation".  What observed spans prove, more spans do not      *)
(* disprove; ObservedStands says in which sense it holds of its checks.    *)
SufficientStands ==
  [][\A f \in findings :
       f.evidence = "sufficient" /\ f.check \notin Observed => Stands(f)]_vars
===============================================================================
