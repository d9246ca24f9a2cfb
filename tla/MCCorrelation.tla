---------------------------- MODULE MCCorrelation ----------------------------
(***************************************************************************)
(* Small windows for Correlation: up to three producers around a consumer, *)
(* or two consumers after a producer.  The producers and consumers come in *)
(* families, each varying the attributes one kind of evidence depends on.  *)
(* A duration is -5..4 wide, so that times 0..6 reach its last values and  *)
(* beyond, while most of the windows stay inside.                          *)
(***************************************************************************)
EXTENDS Correlation

CONSTANTS a, b, x, y, m

anySpan ==
  [role |-> "producer", id |-> a, links |-> <<>>, parent |-> None, start |-> 0,
   end |-> 1, system |-> "kafka", dest |-> <<"orders">>, partition |-> None,
   message |-> None, count |-> 0, scope |-> [f \in Strong \cup Weak |-> None]]

Scope(env, address) == [environment |-> env, address |-> address]

(* Producers: by time, by route, by scope *)
TimedProducers ==
  {[anySpan EXCEPT !.end = e] : e \in {0, 1, 2, 3, 6}} \cup
  {[anySpan EXCEPT !.start = 3, !.end = 3], [anySpan EXCEPT !.end = 5]}

RoutedProducers ==
  {[anySpan EXCEPT !.system = s, !.dest = d, !.partition = k] :
     s \in {"kafka", "rabbitmq"}, k \in {None, x},
     d \in {<<"orders">>, <<"orders", "queue">>, <<"bills">>}}

ScopedProducers ==
  {[anySpan EXCEPT !.id = i, !.scope = Scope(e, h), !.message = k] :
     i \in {a, b}, e \in {None, x}, h \in {None, x}, k \in {None, m}}

TimedConsumers ==
  {[anySpan EXCEPT !.role = "consumer", !.start = t, !.end = 6, !.count = n] :
     t \in {1, 2, 6}, n \in {0, 2}}

RoutedConsumers ==
  {[anySpan EXCEPT !.role = "consumer", !.system = s, !.dest = d, !.partition = k] :
     s \in {None, "kafka", "rabbitmq"}, k \in {x, y},
     d \in {<<>>, <<"orders">>, <<"orders", "queue">>}}

ScopedConsumers ==
  {[anySpan EXCEPT !.role = "consumer", !.links = l, !.parent = p, !.message = k,
                   !.scope = Scope(e, h)] :
     l \in {<<>>, <<a>>, <<a, b>>}, p \in {None, a}, k \in {None, m},
     e \in {x, y}, h \in {None, y}}

MCInputs ==
  {<<p, q, d, r>> : p \in TimedProducers, q \in TimedProducers, r \in TimedProducers,
                    d \in TimedConsumers} \cup
  {<<p, d, q>> : p \in RoutedProducers, q \in RoutedProducers, d \in RoutedConsumers} \cup
  {<<p, q, d>> : p \in ScopedProducers, q \in ScopedProducers, d \in ScopedConsumers} \cup
  {<<p, d, e>> : p \in ScopedProducers, d \in ScopedConsumers, e \in TimedConsumers}
=============================================================================
