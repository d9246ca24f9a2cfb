-------------------------------- MODULE MCRules --------------------------------
(***************************************************************************)
(* Small inputs for Rules: two producers and a consumer, or a producer and *)
(* attempts at processing its message, in every order of arrival.          *)
(***************************************************************************)
EXTENDS Rules

CONSTANTS a, b, m, shop, till

anySpan ==
  [role |-> "producer", op |-> "send", id |-> a, rawId |-> a, links |-> <<>>,
   linkMessages |-> <<>>, parent |-> None, invalidParent |-> FALSE,
   kind |-> "PRODUCER", start |-> 1, end |-> 1,
   system |-> "kafka", dest |-> <<"orders">>, partition |-> None,
   message |-> None, count |-> 0, group |-> None, service |-> shop,
   failed |-> FALSE, dropped |-> FALSE, scope |-> [f \in Strong \cup Weak |-> None]]

MCProducers ==
  {[anySpan EXCEPT !.end = e, !.message = k] : e \in {1, 2, 5}, k \in {None, m}} \cup
  {[anySpan EXCEPT !.end = 4, !.count = 2, !.dest = <<"bills">>],
   [anySpan EXCEPT !.start = 2, !.end = 3, !.dropped = TRUE, !.service = till]}

aConsumer == [anySpan EXCEPT !.role = "consumer", !.op = "process", !.id = None, !.rawId = None,
                             !.kind = "CONSUMER", !.service = till, !.end = 4]

MCConsumers ==
  {[aConsumer EXCEPT !.start = t, !.end = e, !.message = k, !.op = o] :
     t \in {1, 3}, e \in {3, 5}, k \in {None, m}, o \in {"process", "receive"}} \cup
  {[aConsumer EXCEPT !.start = 2, !.links = l, !.parent = p, !.count = n,
                     !.linkMessages = k] :
     l \in {<<a, a>>, <<a, b>>}, k \in {<<None, None>>, <<m, None>>},
     p \in {None, a}, n \in {0, 2}}

MCAttempts ==
  {[aConsumer EXCEPT !.start = t, !.end = t + 1, !.message = m, !.failed = f,
                     !.rawId = i] :
     t \in {1, 3, 5, 8}, f \in BOOLEAN, i \in {None, b}}

MCFaulty ==
  {[anySpan EXCEPT !.role = "other", !.op = o, !.kind = k, !.system = s] :
     o \in {None, "settle", "publish"}, k \in {"PRODUCER", "INTERNAL"},
     s \in {None, "kafka"}} \cup
  {[aConsumer EXCEPT !.start = t, !.service = None, !.dest = <<>>, !.links = <<None>>,
                     !.linkMessages = <<m>>, !.invalidParent = TRUE] : t \in {0, 3}}

(* No two spans have one identity: deduplication is before the rules.  An  *)
(* invalid one, as those of MCAttempts, may be repeated.                   *)
Second(p) == [p EXCEPT !.id = b, !.rawId = b]

Orders(p, q, k) == {<<p, q, k>>, <<p, k, q>>, <<k, p, q>>}

MCInputs ==
  UNION {Orders(p, Second(q), k) : p \in MCProducers, q \in MCProducers, k \in MCConsumers} \cup
  {<<p, f>> : p \in MCProducers, f \in MCFaulty} \cup
  {<<k, i, j>> : k \in MCAttempts, i \in MCAttempts, j \in MCAttempts}

MCAudits ==
  {[finalized |-> FALSE, complete |-> FALSE], [finalized |-> TRUE, complete |-> FALSE],
   [finalized |-> TRUE, complete |-> TRUE]}

MCAppliesTo ==
  [check \in {"missing_service_name", "missing_messaging_system", "missing_destination",
              "invalid_operation", "invalid_span_kind", "invalid_span_identity",
              "invalid_timestamps", "invalid_context_reference",
              "missing_consumer_context", "unresolved_consumer_context",
              "orphan_producer", "orphan_consumer", "batch_links_incomplete",
              "duplicate_processing", "queue_latency_high", "clock_skew",
              "runtime_topology_mismatch"} |-> {shop, till, None}]

MCFailing ==
  {"missing_consumer_context", "orphan_producer", "orphan_consumer",
   "duplicate_processing", "runtime_topology_mismatch"}

AnyEdge(p, k, each) ==
  [producer |-> p, consumer |-> k, dest |-> Wildcard, group |-> Wildcard, perMessage |-> each]

MCExpectedEdges == {AnyEdge(shop, till, TRUE), AnyEdge(shop, shop, FALSE)}
MCDeniedEdges == {[AnyEdge(shop, till, FALSE) EXCEPT !.dest = <<"bills">>]}
MCIgnoredEdges == {}
===============================================================================
