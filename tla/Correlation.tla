------------------------------ MODULE Correlation ------------------------------
(***************************************************************************)
(* Correlate of internal/correlation/correlation.go: which producer spans  *)
(* a consumer span is correlated with.                                     *)
(*                                                                         *)
(* Consumers are taken in the order of the window.  For each, the evidence *)
(* is tried from the strongest: span links, the parent context, the        *)
(* message identity, and last the producers of the same broker route,      *)
(* nearest in time first.  The last search walks a route sorted by end     *)
(* time with two pointers; its iterations are steps here.                  *)
(*                                                                         *)
(* Times are integers and a duration has the width of time.Duration:       *)
(* -MaxDuration - 1 .. MaxDuration.  Names are opaque, a destination is    *)
(* the sequence of its ':'-separated parts, and the optional attributes    *)
(* compared by scopeCompatible are a function from their names.            *)
(***************************************************************************)
EXTENDS Integers, Sequences, FiniteSets

CONSTANTS
  Inputs,       \* the windows considered: sequences of spans
  Window,       \* correlation_window
  MaxDuration,  \* the largest time.Duration
  Strong,       \* deployment.environment.name, service.namespace
  Weak,         \* messaging.destination.namespace, server.address
  None          \* an attribute, a context or an identity that is absent

ASSUME CorrelationAssumption ==
  /\ Window \in Nat /\ MaxDuration \in Nat /\ Window < MaxDuration
  /\ \A w \in Inputs : Len(w) \in Nat
  /\ \A w \in Inputs : \A k \in 1..Len(w) :
       /\ w[k].role \in {"producer", "consumer", "other"}
       /\ w[k].start \in Int /\ w[k].end \in Int /\ w[k].count \in Int
       /\ w[k].dest \in Seq(STRING) /\ IsFiniteSet(DOMAIN w[k].links)

VARIABLES
  spans,                    \* the window being correlated
  phase,                    \* where Correlate is
  ci,                       \* the consumer whose turn it is
  route, left, right, out,  \* nearestRouteCandidates
  correlations,             \* res.Correlations
  references, unresolved    \* res.ContextReferences, res.UnresolvedReferences

mergeVars == <<route, left, right, out>>
vars == <<spans, phase, ci, route, left, right, out, correlations, references,
          unresolved>>

----------------------------------------------------------------------------
Positions == 1..Len(spans)
Producers == {k \in Positions : spans[k].role = "producer"}
Consumers == {k \in Positions : spans[k].role = "consumer"}

c == spans[ci]

Saturated(d) ==
  IF d > MaxDuration THEN MaxDuration
  ELSE IF d < -MaxDuration - 1 THEN -MaxDuration - 1 ELSE d

(* delta: the smallest duration is its own negation. *)
Delta(p) ==
  LET d == Saturated(c.start - p.end)
  IN  IF d < 0 /\ d # -MaxDuration - 1 THEN -d ELSE d

OptionalEqual(a, b) == a = None \/ b = None \/ a = b

MutantStrongScopeCompatible(p) == TRUE
StrongScopeCompatible(p) == \A f \in Strong : OptionalEqual(p.scope[f], c.scope[f])

ScopeCompatible(p) ==
  \A f \in Strong \cup Weak : OptionalEqual(p.scope[f], c.scope[f])

Under(name, parent) ==
  Len(parent) < Len(name) /\ SubSeq(name, 1, Len(parent)) = parent

DestinationCompatible(p) ==
  /\ p.dest # <<>> /\ c.dest # <<>>
  /\ IF p.system = "rabbitmq"
     THEN p.dest = c.dest \/ Under(c.dest, p.dest) \/ Under(p.dest, c.dest)
     ELSE p.dest = c.dest /\ OptionalEqual(p.partition, c.partition)

Compatible(p) ==
  /\ p.system # None /\ p.system = c.system
  /\ DestinationCompatible(p) /\ ScopeCompatible(p)

RouteLookupKey(s) ==
  IF s.system = None \/ s.dest = <<>> THEN <<>>
  ELSE <<s.system, IF s.system = "rabbitmq" THEN <<s.dest[1]>> ELSE s.dest>>

ProducersByRoute ==
  {p \in Producers : /\ RouteLookupKey(c) # <<>>
                     /\ RouteLookupKey(spans[p]) = RouteLookupKey(c)}

ProducersByContext(context) == {p \in Producers : spans[p].id = context}

----------------------------------------------------------------------------
(* The evidence about consumer c *)

ByLink(k) == {p \in ProducersByContext(c.links[k]) : StrongScopeCompatible(spans[p])}

Links == {k \in DOMAIN c.links : c.links[k] # None}  \* HasValidContext

Linked == UNION {ByLink(k) : k \in Links}

UnresolvedLinks == {k \in Links : ByLink(k) = {}}

ParentOf ==
  {p \in ProducersByContext(c.parent) : c.parent # None /\ StrongScopeCompatible(spans[p])}

MessageCandidates ==
  {p \in ProducersByRoute :
     /\ c.message # None /\ spans[p].message = c.message
     /\ Compatible(spans[p]) /\ Delta(spans[p]) <= Window}

(* sortCandidates *)
Before(p, q) ==
  \/ Delta(spans[p]) < Delta(spans[q])
  \/ Delta(spans[p]) = Delta(spans[q]) /\ p <= q

Limit == IF c.count > 1 THEN c.count ELSE 1

(* The order producersByRoute is sorted in *)
EndsBefore(p, q) ==
  \/ spans[p].end < spans[q].end
  \/ spans[p].end = spans[q].end /\ p < q

SortedRoutes ==
  {order \in [1..Cardinality(ProducersByRoute) -> ProducersByRoute] :
     \A i, j \in 1..Cardinality(ProducersByRoute) :
       i < j => EndsBefore(order[i], order[j])}

----------------------------------------------------------------------------
Upcoming(after) == {k \in Consumers : k > after}

Init ==
  /\ spans \in Inputs
  /\ phase = "consumer"
  /\ ci = 0
  /\ route = <<>> /\ left = 0 /\ right = 0 /\ out = <<>>
  /\ correlations = {}
  /\ references = [k \in Consumers |-> 0]
  /\ unresolved = [k \in Consumers |-> 0]

(* The loop over the consumers *)
NextConsumer ==
  /\ phase = "consumer"
  /\ \E k \in Upcoming(ci) :
       /\ \A other \in Upcoming(ci) : k <= other
       /\ ci' = k
  /\ phase' = "evidence"
  /\ UNCHANGED <<spans, mergeVars, correlations, references, unresolved>>

Finish ==
  /\ phase = "consumer"
  /\ Upcoming(ci) = {}
  /\ phase' = "done"
  /\ UNCHANGED <<spans, ci, mergeVars, correlations, references, unresolved>>

(* add *)
Add(producers, method) ==
  correlations' = correlations \cup
    {[producer |-> p, consumer |-> ci, method |-> method] : p \in producers}

MutantCountReferences(found, missing) ==
  /\ references' = [references EXCEPT ![ci] = found]
  /\ unresolved' = [unresolved EXCEPT ![ci] = Cardinality(UnresolvedLinks)]
CountReferences(found, missing) ==
  /\ references' = [references EXCEPT ![ci] = found]
  /\ unresolved' = [unresolved EXCEPT ![ci] = missing]

CorrelateLinks ==
  /\ phase = "evidence"
  /\ Linked # {}
  /\ Add(Linked, "span_link")
  /\ CountReferences(Cardinality(Links), Cardinality(UnresolvedLinks))
  /\ phase' = "consumer"
  /\ UNCHANGED <<spans, ci, mergeVars>>

(* The first producer with the parent's context that is in scope *)
CorrelateParent ==
  /\ phase = "evidence"
  /\ Linked = {}
  /\ \E p \in ParentOf : /\ \A other \in ParentOf : p <= other
                         /\ Add({p}, "parent_context")
  /\ CountReferences(Cardinality(Links) + 1, Cardinality(Links))
  /\ phase' = "consumer"
  /\ UNCHANGED <<spans, ci, mergeVars>>

NoContext == phase = "evidence" /\ Linked = {} /\ ParentOf = {}

ContextCounted ==
  LET all == Cardinality(Links) + (IF c.parent # None THEN 1 ELSE 0)
  IN  CountReferences(all, all)

CorrelateMessage ==
  /\ NoContext
  /\ \E p \in MessageCandidates : /\ \A other \in MessageCandidates : Before(p, other)
                                  /\ Add({p}, "messaging_attributes")
  /\ ContextCounted
  /\ phase' = "consumer"
  /\ UNCHANGED <<spans, ci, mergeVars>>

(* nearestRouteCandidates, entered: position is the first producer of the  *)
(* sorted route that does not end before the consumer starts.              *)
SearchRoute ==
  /\ NoContext
  /\ MessageCandidates = {}
  /\ ContextCounted
  /\ route' \in SortedRoutes
  /\ left' = Cardinality({p \in ProducersByRoute : spans[p].end < c.start})
  /\ right' = left' + 1
  /\ out' = <<>>
  /\ phase' = "merge"
  /\ UNCHANGED <<spans, ci, correlations>>

----------------------------------------------------------------------------
(* One iteration of the loop of nearestRouteCandidates *)

LoopOn ==
  phase = "merge" /\ Len(out) < Limit /\ (left >= 1 \/ right <= Len(route))

MutantLeftDelta == IF left >= 1 THEN Delta(spans[route[left]]) ELSE 0
LeftDelta == IF left >= 1 THEN Delta(spans[route[left]]) ELSE MaxDuration
RightDelta == IF right <= Len(route) THEN Delta(spans[route[right]]) ELSE MaxDuration

MutantChooseLeft == left >= 1
ChooseLeft == LeftDelta <= RightDelta

Chosen == IF ChooseLeft THEN left ELSE right
Distance == IF ChooseLeft THEN LeftDelta ELSE RightDelta

(* The code lets a pair pass in which a start IsZero(); none has one here,  *)
(* for time.Unix(0, 0), what ingest makes of a missing time, is not zero.  *)
Acceptable(p) == p.start <= c.start /\ Compatible(p)

MutantAdvancePointers == left' = left /\ right' = right
MutantAdvanceBoth == left' = left - 1 /\ right' = right + 1
AdvancePointers ==
  /\ left' = IF ChooseLeft THEN left - 1 ELSE left
  /\ right' = IF ChooseLeft THEN right ELSE right + 1

(* Both pointers at the sentinel distance: the left one is chosen, and     *)
(* indices[left] is out of range when it is the left side that ended.      *)
OutOfRange ==
  /\ LoopOn
  /\ Chosen \notin 1..Len(route)
  /\ phase' = "panic"
  /\ UNCHANGED <<spans, ci, mergeVars, correlations, references, unresolved>>

Accept ==
  /\ LoopOn
  /\ Chosen \in 1..Len(route)
  /\ Distance <= Window
  /\ Acceptable(spans[route[Chosen]])
  /\ out' = Append(out, route[Chosen])
  /\ AdvancePointers
  /\ UNCHANGED <<spans, phase, ci, route, correlations, references, unresolved>>

PassOver ==
  /\ LoopOn
  /\ Chosen \in 1..Len(route)
  /\ Distance <= Window
  /\ ~Acceptable(spans[route[Chosen]])
  /\ AdvancePointers
  /\ UNCHANGED <<spans, phase, ci, route, out, correlations, references, unresolved>>

(* The loop ends, or breaks at a nearest producer beyond the window: as it *)
(* is the nearer of the two, so is the other one, and `continue` is dead.  *)
CorrelateRoute ==
  /\ phase = "merge"
  /\ LoopOn => Chosen \in 1..Len(route) /\ Distance > Window
  /\ Add({out[k] : k \in DOMAIN out}, "time_window_heuristic")
  /\ phase' = "consumer"
  /\ route' = <<>> /\ left' = 0 /\ right' = 0 /\ out' = <<>>
  /\ UNCHANGED <<spans, ci, references, unresolved>>

Next ==
  \/ NextConsumer \/ Finish
  \/ CorrelateLinks \/ CorrelateParent \/ CorrelateMessage
  \/ SearchRoute \/ OutOfRange \/ Accept \/ PassOver \/ CorrelateRoute

(* A sequential function: it goes on as long as it can. *)
Spec == Init /\ [][Next]_vars /\ WF_vars(Next)

----------------------------------------------------------------------------
(* Properties *)

(* The values the state of Correlate can take. *)
TypeOK ==
  /\ phase \in {"consumer", "evidence", "merge", "done", "panic"}
  /\ ci \in {0} \cup Consumers
  /\ phase \in {"evidence", "merge", "panic"} => ci \in Consumers
  /\ Len(route) \in Nat /\ \A k \in 1..Len(route) : route[k] \in Producers
  /\ left \in 0..Len(route) /\ right \in Nat
  /\ \A k \in 1..Len(out) : out[k] \in Producers
  /\ correlations \subseteq
       [producer : Producers, consumer : Consumers,
        method : {"span_link", "parent_context", "messaging_attributes",
                  "time_window_heuristic"}]
  /\ references \in [Consumers -> Nat] /\ unresolved \in [Consumers -> Nat]

Decided == phase \in {"consumer", "done"} /\ ci # 0

CorrelatedBy(methods) ==
  {x.producer : x \in {y \in correlations : y.consumer = ci /\ y.method \in methods}}

Gap(p) == IF spans[p].end < c.start THEN c.start - spans[p].end ELSE spans[p].end - c.start

(* Timestamps less than 292 years apart, the range of a time.Duration. *)
InRange == \A p \in Producers : Gap(p) < MaxDuration

Eligible ==
  {p \in Producers : /\ Compatible(spans[p]) /\ spans[p].start <= c.start
                     /\ Gap(p) <= Window}

(* The walk over one sorted route finds what a search of all producers     *)
(* would: as many of the producers a consumer could be correlated with as  *)
(* its batch asks for, and none is nearer than a chosen one.  The route    *)
(* index and the two pointers lose nothing.                                *)
RouteNearest ==
  Decided /\ InRange
          /\ CorrelatedBy({"span_link", "parent_context", "messaging_attributes"}) = {} =>
    LET chosen == CorrelatedBy({"time_window_heuristic"})
    IN  /\ chosen \subseteq Eligible
        /\ \/ Cardinality(chosen) = Limit
           \/ Cardinality(chosen) < Limit /\ chosen = Eligible
        /\ \A p \in chosen, q \in Eligible \ chosen : Gap(p) <= Gap(q)

(* No correlation, however strong its evidence, joins a producer and a     *)
(* consumer of two different tenants (comment of strongScopeCompatible).   *)
TenantIsolation ==
  \A x \in correlations : \A f \in Strong :
    OptionalEqual(spans[x.producer].scope[f], spans[x.consumer].scope[f])

(* What the rules conclude from the two counters is right: a consumer has  *)
(* more context references than unresolved ones exactly when a link or its *)
(* parent correlated it.                                                   *)
ReferencesTell ==
  Decided =>
    (references[ci] > unresolved[ci] <=> CorrelatedBy({"span_link", "parent_context"}) # {})

(* The two pointers stay inside the route as long as timestamps are within *)
(* the range of a duration.                                                *)
PointersInRange == phase = "panic" => ~InRange

(* The two-pointer search has two exits, a skip and a limit: every audit's *)
(* correlation ends.                                                       *)
Finishes == <>(phase \in {"done", "panic"})
===============================================================================
