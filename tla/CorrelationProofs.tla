--------------------------- MODULE CorrelationProofs ---------------------------
(***************************************************************************)
(* Proofs about Correlation, for every window of spans, width of a         *)
(* duration, correlation window and set of scope attributes.               *)
(*                                                                         *)
(* IInv adds to the properties what the steps rely on: consumers are taken *)
(* in order, so that what is correlated with the current one was added in  *)
(* its turn; the search is entered only when no reference was resolved;    *)
(* and it collects compatible producers only.  Walk is the invariant of    *)
(* the two pointers, from which the nearest producers follow at the end.   *)
(***************************************************************************)
EXTENDS Correlation, FiniteSetTheorems, TLAPS

(* The window is one of those considered. *)
Fixed == spans \in Inputs

(* Outside the search its variables are reset. *)
Idle ==
  phase \notin {"merge", "panic"} =>
    route = <<>> /\ left = 0 /\ right = 0 /\ out = <<>>

(* Consumers are taken once and in order. *)
InTurn ==
  \A x \in correlations :
    IF phase \in {"evidence", "merge", "panic"} THEN x.consumer < ci ELSE x.consumer <= ci

(* The search is entered when no context reference was resolved. *)
NoneResolved == phase = "merge" => references[ci] = unresolved[ci]

CompatibleProducers == {p \in Producers : Compatible(spans[p])}

(* What holds of the search for any timestamps. *)
WalkType ==
  phase = "merge" =>
    /\ route \in SortedRoutes
    /\ Len(route) = Cardinality(ProducersByRoute)
    /\ right \in Nat \ {0}
    /\ out \in Seq(CompatibleProducers)

IInv ==
  /\ TypeOK /\ Fixed /\ Idle /\ InTurn /\ NoneResolved /\ WalkType
  /\ TenantIsolation /\ ReferencesTell /\ PointersInRange

----------------------------------------------------------------------------
(* The data *)

LEMMA SpanTypes ==
  ASSUME Fixed
  PROVE  /\ Len(spans) \in Nat
         /\ \A k \in Positions :
              /\ spans[k].role \in {"producer", "consumer", "other"}
              /\ spans[k].start \in Int /\ spans[k].end \in Int /\ spans[k].count \in Int
              /\ spans[k].dest \in Seq(STRING) /\ IsFiniteSet(DOMAIN spans[k].links)
         /\ Producers \subseteq 1..Len(spans) /\ Consumers \subseteq 1..Len(spans)
         /\ Window \in Nat /\ MaxDuration \in Nat /\ Window < MaxDuration
  BY CorrelationAssumption DEF Fixed, Positions, Producers, Consumers

LEMMA ProducersFinite ==
  ASSUME Fixed, NEW S \in SUBSET Producers
  PROVE  IsFiniteSet(S) /\ Cardinality(S) \in Nat
<1>1. IsFiniteSet(1..Len(spans)) /\ S \in SUBSET (1..Len(spans))
  BY SpanTypes, FS_Interval
<1> QED
  BY <1>1, FS_Subset, FS_CardinalityType

LEMMA LinksFinite ==
  ASSUME Fixed, ci \in Consumers
  PROVE  /\ IsFiniteSet(Links) /\ IsFiniteSet(UnresolvedLinks)
         /\ Cardinality(Links) \in Nat /\ Cardinality(UnresolvedLinks) \in Nat
         /\ Cardinality(UnresolvedLinks) <= Cardinality(Links)
         /\ Linked # {} <=> Cardinality(UnresolvedLinks) < Cardinality(Links)
<1>1. IsFiniteSet(DOMAIN c.links)
  BY SpanTypes DEF c, Positions
<1>2. Links \in SUBSET DOMAIN c.links /\ UnresolvedLinks \in SUBSET Links
  BY DEF Links, UnresolvedLinks
<1>3. IsFiniteSet(Links)
  BY <1>1, <1>2, FS_Subset
<1>4. IsFiniteSet(UnresolvedLinks)
      /\ Cardinality(UnresolvedLinks) <= Cardinality(Links)
      /\ (Cardinality(UnresolvedLinks) = Cardinality(Links) => UnresolvedLinks = Links)
  BY <1>2, <1>3, FS_Subset
<1>5. Linked # {} <=> UnresolvedLinks # Links
  BY DEF Linked, UnresolvedLinks
<1> QED
  BY <1>3, <1>4, <1>5, FS_CardinalityType

LEMMA RouteType ==
  ASSUME Fixed
  PROVE  /\ ProducersByRoute \subseteq Producers
         /\ Cardinality(ProducersByRoute) \in Nat
         /\ \A order \in SortedRoutes :
              /\ order \in Seq(ProducersByRoute)
              /\ Len(order) = Cardinality(ProducersByRoute)
<1>1. ProducersByRoute \subseteq Producers
  BY DEF ProducersByRoute
<1>2. Cardinality(ProducersByRoute) \in Nat
  BY <1>1, ProducersFinite
<1>3. ASSUME NEW order \in SortedRoutes
      PROVE  /\ order \in Seq(ProducersByRoute)
             /\ Len(order) = Cardinality(ProducersByRoute)
  BY <1>2 DEF SortedRoutes
<1> QED
  BY <1>1, <1>2, <1>3

(* Timestamps in range are compared without saturation.                    *)
LEMMA DeltaIsGap ==
  ASSUME Fixed, ci \in Consumers, InRange, NEW p \in Producers
  PROVE  /\ Gap(p) \in Nat /\ Gap(p) < MaxDuration
         /\ Delta(spans[p]) = Gap(p)
<1>1. /\ spans[p].end \in Int /\ spans[ci].start \in Int
      /\ MaxDuration \in Nat
  BY SpanTypes DEF Positions
<1>2. Gap(p) \in Nat /\ Gap(p) < MaxDuration
  BY <1>1 DEF InRange, Gap, c
<1> QED
  BY <1>1, <1>2 DEF Gap, Delta, Saturated, c

(* With timestamps in range the pointer chosen is one that is not exhausted. *)
LEMMA ChosenInRange ==
  ASSUME TypeOK, Fixed, WalkType, LoopOn, InRange
  PROVE  Chosen \in 1..Len(route)
<1>1. /\ ci \in Consumers /\ Len(route) \in Nat
      /\ left \in 0..Len(route) /\ right \in Nat \ {0}
      /\ \A k \in 1..Len(route) : route[k] \in Producers
  BY DEF TypeOK, WalkType, LoopOn
<1>2. \A k \in 1..Len(route) :
        /\ Delta(spans[route[k]]) \in Nat
        /\ Delta(spans[route[k]]) < MaxDuration
  BY <1>1, DeltaIsGap
<1>3. MaxDuration \in Nat /\ (left >= 1 \/ right <= Len(route))
  BY SpanTypes DEF LoopOn
<1>4. CASE left >= 1
  <2>1. LeftDelta < MaxDuration
    BY <1>1, <1>2, <1>4 DEF LeftDelta
  <2>2. CASE right <= Len(route)
    BY <1>1, <1>4, <2>2 DEF Chosen
  <2>3. CASE right > Len(route)
    <3>1. RightDelta = MaxDuration
      BY <1>1, <2>3 DEF RightDelta
    <3> QED
      BY <1>1, <1>2, <1>3, <1>4, <2>1, <3>1 DEF ChooseLeft, Chosen, LeftDelta
  <2> QED
    BY <1>1, <2>2, <2>3
<1>5. CASE left < 1
  <2>1. LeftDelta = MaxDuration /\ right <= Len(route)
    BY <1>1, <1>3, <1>5 DEF LeftDelta
  <2>2. RightDelta < MaxDuration /\ RightDelta \in Nat
    BY <1>1, <1>2, <2>1 DEF RightDelta
  <2> QED
    BY <1>1, <1>3, <2>1, <2>2 DEF ChooseLeft, Chosen
<1> QED
  BY <1>1, <1>4, <1>5

----------------------------------------------------------------------------
(* The inductive invariant *)

LEMMA InitInv == Init => IInv
<1> SUFFICES ASSUME Init PROVE IInv
  OBVIOUS
<1>1. Fixed
  BY DEF Init, Fixed
<1>2. TypeOK
  BY <1>1, SpanTypes DEF Init, TypeOK
<1>3. Idle /\ InTurn /\ NoneResolved /\ WalkType
  BY DEF Init, Idle, InTurn, NoneResolved, WalkType
<1>4. TenantIsolation /\ ReferencesTell /\ PointersInRange
  BY DEF Init, TenantIsolation, ReferencesTell, PointersInRange, Decided
<1> QED
  BY <1>1, <1>2, <1>3, <1>4 DEF IInv

(* A correlation is of a producer and a consumer of the window.            *)
LEMMA CorrelationType ==
  ASSUME IInv
  PROVE  \A x \in correlations :
           /\ x.producer \in Producers /\ x.consumer \in Consumers
           /\ x.consumer \in Int
<1>1. \A x \in correlations : x.producer \in Producers /\ x.consumer \in Consumers
  BY DEF IInv, TypeOK
<1>2. Consumers \subseteq Int
  BY SpanTypes DEF IInv
<1> QED
  BY <1>1, <1>2

(* What the branches that correlate a consumer at once have in common.     *)
LEMMA AddType ==
  ASSUME TypeOK, Fixed, ci \in Consumers,
         NEW S \in SUBSET Producers,
         NEW method \in {"span_link", "parent_context", "messaging_attributes",
                         "time_window_heuristic"},
         Add(S, method), UNCHANGED <<spans, ci>>
  PROVE  /\ correlations' \subseteq
              [producer : Producers, consumer : Consumers,
               method : {"span_link", "parent_context", "messaging_attributes",
                         "time_window_heuristic"}]
         /\ Producers' = Producers /\ Consumers' = Consumers
         /\ (\A x \in correlations : x.consumer <= ci) =>
              \A x \in correlations' : x.consumer <= ci
<1>1. ci \in Int
  BY SpanTypes
<1>2. Producers' = Producers /\ Consumers' = Consumers
  BY DEF Producers, Consumers, Positions
<1> QED
  BY <1>1, <1>2 DEF Add, TypeOK

LEMMA CountType ==
  ASSUME TypeOK, ci \in Consumers, UNCHANGED spans,
         NEW found \in Nat, NEW missing \in Nat, CountReferences(found, missing)
  PROVE  /\ references' \in [Consumers -> Nat] /\ unresolved' \in [Consumers -> Nat]
         /\ references'[ci] = found /\ unresolved'[ci] = missing
  BY DEF TypeOK, CountReferences

(* The evidence is about producers.                                        *)
LEMMA EvidenceType ==
  ASSUME Fixed
  PROVE  /\ Linked \subseteq Producers /\ ParentOf \subseteq Producers
         /\ MessageCandidates \subseteq Producers
  BY DEF Linked, ByLink, ParentOf, ProducersByContext, MessageCandidates,
         ProducersByRoute

(* A branch that correlates a consumer at once keeps the invariant when    *)
(* its producers are in scope and its count tells whether a context did it. *)
LEMMA BranchStep ==
  ASSUME IInv, phase = "evidence",
         NEW S \in SUBSET Producers,
         NEW method \in {"span_link", "parent_context", "messaging_attributes"},
         NEW found \in Nat, NEW missing \in Nat,
         Add(S, method), CountReferences(found, missing),
         phase' = "consumer", UNCHANGED <<spans, ci, mergeVars>>,
         \A p \in S : StrongScopeCompatible(spans[p]),
         found > missing <=> method \in {"span_link", "parent_context"} /\ S # {}
  PROVE  IInv'
<1>1. TypeOK /\ Fixed /\ ci \in Consumers /\ ci # 0
  BY SpanTypes DEF IInv, TypeOK
<1>2. /\ correlations' \subseteq
           [producer : Producers, consumer : Consumers,
            method : {"span_link", "parent_context", "messaging_attributes",
                      "time_window_heuristic"}]
      /\ Producers' = Producers /\ Consumers' = Consumers
  BY <1>1, AddType
<1>3. /\ references' \in [Consumers -> Nat] /\ unresolved' \in [Consumers -> Nat]
      /\ references'[ci] = found /\ unresolved'[ci] = missing
  BY <1>1, CountType
<1>4. TypeOK'
  BY <1>1, <1>2, <1>3 DEF TypeOK, mergeVars
<1>5. Fixed' /\ Idle' /\ NoneResolved' /\ WalkType' /\ PointersInRange'
  BY DEF IInv, Fixed, Idle, NoneResolved, WalkType, PointersInRange, mergeVars
<1>6. \A x \in correlations : x.consumer \in Int /\ x.consumer < ci
  BY CorrelationType DEF IInv, InTurn
<1>7. /\ \A x \in correlations' :
           \/ x \in correlations
           \/ x.consumer = ci /\ x.method = method /\ x.producer \in S
      /\ \A p \in S :
           [producer |-> p, consumer |-> ci, method |-> method] \in correlations'
  BY DEF Add
<1>8. InTurn'
  BY <1>1, <1>6, <1>7, SpanTypes DEF InTurn
<1>9. TenantIsolation'
  BY <1>1, <1>7 DEF IInv, TenantIsolation, StrongScopeCompatible, c
<1>10. ReferencesTell'
  <2>1. ASSUME NEW p \in CorrelatedBy({"span_link", "parent_context"})'
        PROVE  method \in {"span_link", "parent_context"} /\ S # {}
    <3>1. PICK x \in correlations' : /\ x.consumer = ci
                                     /\ x.method \in {"span_link", "parent_context"}
      BY <2>1 DEF CorrelatedBy
    <3> QED
      BY <1>1, <1>6, <1>7, <3>1, SpanTypes
  <2>2. ASSUME NEW p \in S, method \in {"span_link", "parent_context"}
        PROVE  p \in CorrelatedBy({"span_link", "parent_context"})'
    <3> DEFINE x == [producer |-> p, consumer |-> ci, method |-> method]
    <3>1. x \in correlations' /\ x.consumer = ci' /\ x.producer = p
      BY <1>7
    <3> QED
      BY <2>2, <3>1 DEF CorrelatedBy
  <2> QED
    BY <1>3, <2>1, <2>2 DEF ReferencesTell
<1> QED
  BY <1>4, <1>5, <1>8, <1>9, <1>10 DEF IInv

LEMMA LinksStep == IInv /\ CorrelateLinks => IInv'
<1> SUFFICES ASSUME IInv, CorrelateLinks PROVE IInv'
  OBVIOUS
<1>1. TypeOK /\ Fixed /\ phase = "evidence" /\ ci \in Consumers
  BY DEF IInv, TypeOK, CorrelateLinks
<1>2. \A p \in Linked : StrongScopeCompatible(spans[p])
  BY DEF Linked, ByLink
<1> QED
  BY <1>1, <1>2, LinksFinite, EvidenceType, BranchStep DEF CorrelateLinks

LEMMA ParentStep == IInv /\ CorrelateParent => IInv'
<1> SUFFICES ASSUME IInv, CorrelateParent PROVE IInv'
  OBVIOUS
<1>1. TypeOK /\ Fixed /\ phase = "evidence" /\ ci \in Consumers
  BY DEF IInv, TypeOK, CorrelateParent
<1>2. PICK p \in ParentOf : Add({p}, "parent_context")
  BY DEF CorrelateParent
<1>3. StrongScopeCompatible(spans[p]) /\ p \in Producers
  BY <1>1, EvidenceType DEF ParentOf
<1>4. Cardinality(Links) \in Nat /\ Cardinality(Links) + 1 \in Nat
      /\ Cardinality(Links) + 1 > Cardinality(Links)
  BY <1>1, LinksFinite
<1> HIDE DEF Links
<1> QED
  BY <1>1, <1>2, <1>3, <1>4, BranchStep DEF CorrelateParent

LEMMA MessageStep == IInv /\ CorrelateMessage => IInv'
<1> SUFFICES ASSUME IInv, CorrelateMessage PROVE IInv'
  OBVIOUS
<1>1. TypeOK /\ Fixed /\ phase = "evidence" /\ ci \in Consumers
  BY DEF IInv, TypeOK, CorrelateMessage, NoContext
<1>2. PICK p \in MessageCandidates : Add({p}, "messaging_attributes")
  BY DEF CorrelateMessage
<1>3. StrongScopeCompatible(spans[p]) /\ p \in Producers
  BY <1>1, EvidenceType
     DEF MessageCandidates, Compatible, ScopeCompatible, StrongScopeCompatible
<1>4. PICK n \in Nat : CountReferences(n, n)
  BY <1>1, LinksFinite DEF CorrelateMessage, ContextCounted
<1> QED
  BY <1>1, <1>2, <1>3, <1>4, BranchStep DEF CorrelateMessage

LEMMA LoopOverConsumersStep == IInv /\ (NextConsumer \/ Finish) => IInv'
<1> SUFFICES ASSUME IInv, NextConsumer \/ Finish PROVE IInv'
  OBVIOUS
<1> USE DEF mergeVars
<1>1. CASE NextConsumer
  <2>1. ci' \in Consumers /\ ci' > ci
    BY <1>1 DEF NextConsumer, Upcoming
  <2>2. Producers' = Producers /\ Consumers' = Consumers
    BY <1>1 DEF NextConsumer, Producers, Consumers, Positions
  <2>3. TypeOK'
    BY <1>1, <2>1, <2>2 DEF IInv, TypeOK, NextConsumer
  <2>4. InTurn'
    BY <1>1, <2>1, SpanTypes DEF IInv, TypeOK, InTurn, NextConsumer
  <2> QED
    BY <1>1, <2>3, <2>4 DEF NextConsumer, IInv, Fixed, Idle, NoneResolved, WalkType,
       TenantIsolation, ReferencesTell, Decided, PointersInRange
<1>2. CASE Finish
  <2>1. Producers' = Producers /\ Consumers' = Consumers
    BY <1>2 DEF Finish, Producers, Consumers, Positions
  <2>2. TypeOK'
    BY <1>2, <2>1 DEF IInv, TypeOK, Finish
  <2>3. ReferencesTell'
    BY <1>2 DEF Finish, IInv, ReferencesTell, Decided, CorrelatedBy
  <2> QED
    BY <1>2, <2>2, <2>3 DEF Finish, IInv, Fixed, Idle, InTurn, NoneResolved,
       WalkType, TenantIsolation, PointersInRange
<1> QED
  BY <1>1, <1>2

LEMMA SameCompatible ==
  ASSUME UNCHANGED <<spans, ci>>
  PROVE  CompatibleProducers' = CompatibleProducers
  BY DEF CompatibleProducers, Producers, Positions, Compatible, DestinationCompatible,
         ScopeCompatible, OptionalEqual, Under, c

(* The steps of the search correlate nothing.                              *)
LEMMA SearchKeeps ==
  ASSUME IInv, phase \in {"evidence", "merge"}, phase' \in {"merge", "panic"},
         UNCHANGED <<spans, ci, correlations>>
  PROVE  /\ Fixed' /\ Idle' /\ InTurn' /\ TenantIsolation' /\ ReferencesTell'
         /\ Producers' = Producers /\ Consumers' = Consumers
         /\ ProducersByRoute' = ProducersByRoute /\ SortedRoutes' = SortedRoutes
         /\ ci \in Consumers /\ Producers \subseteq 1..Len(spans)
  BY SpanTypes
     DEF IInv, TypeOK, Fixed, Idle, InTurn, TenantIsolation, ReferencesTell, Decided,
         Producers, Consumers, Positions, ProducersByRoute, SortedRoutes, EndsBefore, c

LEMMA SearchStep == IInv /\ SearchRoute => IInv'
<1> SUFFICES ASSUME IInv, SearchRoute PROVE IInv'
  OBVIOUS
<1>1. /\ Fixed' /\ Idle' /\ InTurn' /\ TenantIsolation' /\ ReferencesTell'
      /\ Producers' = Producers /\ Consumers' = Consumers
      /\ ProducersByRoute' = ProducersByRoute /\ SortedRoutes' = SortedRoutes
      /\ ci \in Consumers /\ TypeOK /\ Fixed
  BY SearchKeeps DEF SearchRoute, NoContext, IInv
<1>2. PICK n \in Nat : CountReferences(n, n)
  BY <1>1, LinksFinite DEF SearchRoute, ContextCounted
<1>3. /\ references' \in [Consumers -> Nat] /\ unresolved' \in [Consumers -> Nat]
      /\ references'[ci] = unresolved'[ci]
  BY <1>1, <1>2, CountType DEF SearchRoute
<1>4. /\ route' \in Seq(ProducersByRoute)
      /\ Len(route') = Cardinality(ProducersByRoute)
      /\ \A k \in 1..Len(route') : route'[k] \in Producers
  BY <1>1, RouteType DEF SearchRoute
<1>5. left' \in 0..Len(route') /\ right' \in Nat \ {0}
  <2> DEFINE ended == {p \in ProducersByRoute : spans[p].end < c.start}
  <2>1. IsFiniteSet(ProducersByRoute)
    BY <1>1, ProducersFinite, RouteType
  <2>2. Cardinality(ended) \in Nat /\ Cardinality(ended) <= Cardinality(ProducersByRoute)
    BY <2>1, FS_Subset, FS_CardinalityType
  <2>3. left' = Cardinality(ended) /\ right' = left' + 1
    BY DEF SearchRoute
  <2> HIDE DEF ended
  <2> QED
    BY <1>1, <1>4, <2>2, <2>3, RouteType
<1>6. /\ phase' = "merge" /\ out' = <<>>
      /\ UNCHANGED <<spans, ci, correlations>>
  BY DEF SearchRoute
<1>7. TypeOK'
  BY <1>1, <1>3, <1>4, <1>5, <1>6 DEF TypeOK
<1>8. WalkType' /\ NoneResolved' /\ PointersInRange'
  BY <1>1, <1>3, <1>4, <1>5, <1>6
     DEF WalkType, NoneResolved, PointersInRange, SearchRoute
<1> QED
  BY <1>1, <1>7, <1>8 DEF IInv

(* One iteration advances one of the two pointers, within the route.       *)
LEMMA AdvanceType ==
  ASSUME IInv, LoopOn, Chosen \in 1..Len(route), AdvancePointers
  PROVE  left' \in 0..Len(route) /\ right' \in Nat \ {0}
  BY DEF IInv, TypeOK, WalkType, LoopOn, Chosen, AdvancePointers

LEMMA IterationStep == IInv /\ (Accept \/ PassOver) => IInv'
<1> SUFFICES ASSUME IInv, Accept \/ PassOver PROVE IInv'
  OBVIOUS
<1>1. /\ LoopOn /\ Chosen \in 1..Len(route) /\ AdvancePointers
      /\ phase = "merge" /\ phase' = "merge"
      /\ UNCHANGED <<spans, ci, route, correlations, references, unresolved>>
  BY DEF Accept, PassOver, LoopOn
<1>2. /\ Fixed' /\ Idle' /\ InTurn' /\ TenantIsolation' /\ ReferencesTell'
      /\ Producers' = Producers /\ Consumers' = Consumers
      /\ ProducersByRoute' = ProducersByRoute /\ SortedRoutes' = SortedRoutes
  BY <1>1, SearchKeeps
<1>3. left' \in 0..Len(route) /\ right' \in Nat \ {0}
  BY <1>1, AdvanceType
<1>4. route[Chosen] \in Producers
  BY <1>1 DEF IInv, TypeOK
<1>5. out' \in Seq(CompatibleProducers)
  <2>1. out \in Seq(CompatibleProducers)
    BY <1>1 DEF IInv, WalkType
  <2>2. CASE Accept
    <3>1. out' = Append(out, route[Chosen]) /\ Compatible(spans[route[Chosen]])
      BY <2>2 DEF Accept, Acceptable
    <3>2. route[Chosen] \in CompatibleProducers
      BY <1>4, <3>1 DEF CompatibleProducers
    <3> QED
      BY <2>1, <3>1, <3>2
  <2>3. CASE PassOver
    BY <2>1, <2>3 DEF PassOver
  <2> QED
    BY <2>2, <2>3
<1>6. TypeOK'
  <2>1. \A k \in 1..Len(out') : out'[k] \in Producers
    BY <1>5 DEF CompatibleProducers
  <2> QED
    BY <1>1, <1>2, <1>3, <2>1 DEF IInv, TypeOK
<1>7. WalkType'
  BY <1>1, <1>2, <1>3, <1>5, SameCompatible DEF IInv, WalkType
<1>8. NoneResolved' /\ PointersInRange'
  BY <1>1 DEF IInv, NoneResolved, PointersInRange
<1> QED
  BY <1>2, <1>6, <1>7, <1>8 DEF IInv

LEMMA OutOfRangeStep == IInv /\ OutOfRange => IInv'
<1> SUFFICES ASSUME IInv, OutOfRange PROVE IInv'
  OBVIOUS
<1>1. /\ LoopOn /\ Chosen \notin 1..Len(route)
      /\ phase = "merge" /\ phase' = "panic"
      /\ UNCHANGED <<spans, ci, route, left, right, out, correlations, references,
                     unresolved>>
  BY DEF OutOfRange, LoopOn, mergeVars
<1>2. /\ Fixed' /\ Idle' /\ InTurn' /\ TenantIsolation' /\ ReferencesTell'
      /\ Producers' = Producers /\ Consumers' = Consumers
      /\ ci \in Consumers
  BY <1>1, SearchKeeps
<1>3. TypeOK'
  BY <1>1, <1>2 DEF IInv, TypeOK
<1>4. ~InRange
  BY <1>1, ChosenInRange DEF IInv
<1>5. PointersInRange'
  BY <1>1, <1>2, <1>4 DEF PointersInRange, InRange, Gap, c
<1> QED
  BY <1>1, <1>2, <1>3, <1>5 DEF IInv, WalkType, NoneResolved

LEMMA RouteStep == IInv /\ CorrelateRoute => IInv'
<1> SUFFICES ASSUME IInv, CorrelateRoute PROVE IInv'
  OBVIOUS
<1> DEFINE found == {out[k] : k \in DOMAIN out}
<1>1. /\ TypeOK /\ Fixed /\ phase = "merge" /\ ci \in Consumers /\ ci # 0
      /\ phase' = "consumer" /\ Add(found, "time_window_heuristic")
      /\ UNCHANGED <<spans, ci, references, unresolved>>
      /\ route' = <<>> /\ left' = 0 /\ right' = 0 /\ out' = <<>>
  BY SpanTypes DEF IInv, TypeOK, CorrelateRoute
<1>2. \A p \in found : p \in Producers /\ StrongScopeCompatible(spans[p])
  BY <1>1 DEF IInv, WalkType, CompatibleProducers, Compatible, ScopeCompatible,
              StrongScopeCompatible
<1>3. /\ \A x \in correlations' :
           \/ x \in correlations
           \/ x.consumer = ci /\ x.method = "time_window_heuristic" /\ x.producer \in found
  BY <1>1 DEF Add
<1> HIDE DEF found
<1>4. /\ correlations' \subseteq
           [producer : Producers, consumer : Consumers,
            method : {"span_link", "parent_context", "messaging_attributes",
                      "time_window_heuristic"}]
      /\ Producers' = Producers /\ Consumers' = Consumers
  BY <1>1, <1>2, AddType
<1>5. \A x \in correlations : x.consumer \in Int /\ x.consumer < ci
  BY <1>1, CorrelationType DEF IInv, InTurn
<1>6. TypeOK'
  BY <1>1, <1>4 DEF TypeOK
<1>7. InTurn'
  BY <1>1, <1>3, <1>5, SpanTypes DEF InTurn
<1>8. TenantIsolation'
  BY <1>1, <1>2, <1>3 DEF IInv, TenantIsolation, StrongScopeCompatible, c
<1>9. ReferencesTell'
  <2>1. CorrelatedBy({"span_link", "parent_context"})' = {}
    <3> SUFFICES ASSUME NEW x \in correlations', x.consumer = ci,
                        x.method \in {"span_link", "parent_context"}
                 PROVE  FALSE
      BY <1>1 DEF CorrelatedBy
    <3> QED
      BY <1>1, <1>3, <1>5
  <2>2. references'[ci'] = unresolved'[ci'] /\ references'[ci'] \in Nat
    BY <1>1 DEF IInv, TypeOK, NoneResolved
  <2> QED
    BY <2>1, <2>2 DEF ReferencesTell
<1> QED
  BY <1>1, <1>6, <1>7, <1>8, <1>9
     DEF IInv, Fixed, Idle, NoneResolved, WalkType, PointersInRange

LEMMA InvStep == IInv /\ [Next]_vars => IInv'
<1>1. ASSUME IInv, UNCHANGED vars PROVE IInv'
  <2>1. TypeOK' /\ Fixed' /\ Idle' /\ InTurn' /\ NoneResolved' /\ TenantIsolation'
    BY <1>1 DEF vars, IInv, TypeOK, Fixed, Idle, InTurn, NoneResolved, TenantIsolation,
       Producers, Consumers, Positions, OptionalEqual
  <2>2. WalkType'
    <3>1. ProducersByRoute' = ProducersByRoute /\ SortedRoutes' = SortedRoutes
      BY <1>1 DEF vars, Producers, Positions, SortedRoutes, ProducersByRoute,
         EndsBefore, c
    <3> QED
      BY <1>1, <3>1, SameCompatible DEF vars, IInv, WalkType
  <2>3. ReferencesTell' /\ PointersInRange'
    BY <1>1 DEF vars, IInv, ReferencesTell, PointersInRange, Decided, CorrelatedBy,
       InRange, Gap, c, Producers, Positions
  <2> QED
    BY <2>1, <2>2, <2>3 DEF IInv
<1> QED
  BY <1>1, LoopOverConsumersStep, LinksStep, ParentStep, MessageStep, SearchStep,
     IterationStep, OutOfRangeStep, RouteStep DEF Next

(* The invariant holds throughout every call of Correlate.                 *)
THEOREM Invariance == Spec => []IInv
  BY InitInv, InvStep, PTL DEF Spec

(* The state of Correlate keeps its type.                                  *)
THEOREM TypeCorrect == Spec => []TypeOK
  BY Invariance, PTL DEF IInv

(* No correlation joins a producer and a consumer of two tenants.          *)
THEOREM TenantsApart == Spec => []TenantIsolation
  BY Invariance, PTL DEF IInv

(* The two counters tell the rules whether a context correlated a consumer. *)
THEOREM CountersTell == Spec => []ReferencesTell
  BY Invariance, PTL DEF IInv

(* Within the range of a duration, the search indexes inside its route.    *)
THEOREM NoPanic == Spec => []PointersInRange
  BY Invariance, PTL DEF IInv

----------------------------------------------------------------------------
(* The search finds the nearest producers *)

(* The positions of the route that the search has dealt with.              *)
Walked == {j \in 1..Len(route) : left < j /\ j < right}

Found == {out[k] : k \in DOMAIN out}

(* The pointers part the route at the consumer's start; what lies between  *)
(* them is nearer than what does not, and what was found is the eligible   *)
(* part of it.                                                             *)
Walk ==
  phase = "merge" /\ InRange =>
    /\ left < right /\ right <= Len(route) + 1
    /\ \A i \in 1..Len(route) : /\ i <= left => spans[route[i]].end < c.start
                                /\ i >= right => spans[route[i]].end >= c.start
    /\ \A j \in Walked : \A i \in (1..Len(route)) \ Walked :
         Gap(route[j]) <= Gap(route[i])
    /\ Found = {route[j] : j \in Walked} \cap Eligible
    /\ IsFiniteSet(Found) /\ Cardinality(Found) = Len(out) /\ Len(out) <= Limit

(* A sorted route is an enumeration of the producers of the route.         *)
LEMMA Enumeration ==
  ASSUME Fixed, ci \in Consumers, NEW order \in SortedRoutes
  PROVE  LET n == Cardinality(ProducersByRoute)
         IN  /\ n \in Nat /\ order \in [1..n -> ProducersByRoute]
             /\ \A i, j \in 1..n : i < j => spans[order[i]].end <= spans[order[j]].end
             /\ \A i, j \in 1..n : order[i] = order[j] => i = j
             /\ \A p \in ProducersByRoute : \E i \in 1..n : order[i] = p
<1> DEFINE n == Cardinality(ProducersByRoute)
<1>1. n \in Nat /\ order \in [1..n -> ProducersByRoute]
  BY RouteType DEF SortedRoutes
<1>2. \A p \in ProducersByRoute : spans[p].end \in Int /\ p \in Int
  BY SpanTypes DEF ProducersByRoute, Positions
<1>3. \A i, j \in 1..n : i < j => EndsBefore(order[i], order[j])
  BY DEF SortedRoutes
<1> HIDE DEF n
<1>4. \A i, j \in 1..n :
        i < j => spans[order[i]].end <= spans[order[j]].end /\ order[i] # order[j]
  BY <1>1, <1>2, <1>3 DEF EndsBefore
<1>5. \A i, j \in 1..n : order[i] = order[j] => i = j
  BY <1>1, <1>4
<1>6. order \in Injection(1..n, ProducersByRoute)
  BY <1>1, <1>5 DEF Injection, IsInjective
<1>7. IsFiniteSet(ProducersByRoute)
  BY ProducersFinite, RouteType
<1>8. Cardinality(1..n) = n
  BY <1>1, FS_Interval
<1>9. order \in Surjection(1..n, ProducersByRoute)
  BY <1>6, <1>7, <1>8, FS_Injection DEF n
<1>10. \A p \in ProducersByRoute : \E i \in 1..n : order[i] = p
  BY <1>9 DEF Surjection
<1> QED
  BY <1>1, <1>4, <1>5, <1>10 DEF n

(* What a consumer could be correlated with by time is on its route.       *)
LEMMA EligibleOnRoute ==
  ASSUME Fixed, ci \in Consumers
  PROVE  Eligible \subseteq ProducersByRoute
<1> SUFFICES ASSUME NEW p \in Eligible PROVE p \in ProducersByRoute
  OBVIOUS
<1>1. /\ p \in Producers /\ Compatible(spans[p])
      /\ spans[p].dest \in Seq(STRING) /\ c.dest \in Seq(STRING)
  BY SpanTypes DEF Eligible, Positions, c
<1>2. /\ spans[p].system # None /\ spans[p].system = c.system
      /\ spans[p].dest # <<>> /\ c.dest # <<>>
  BY <1>1 DEF Compatible, DestinationCompatible
<1>3. /\ RouteLookupKey(c) # <<>>
      /\ c.system # "rabbitmq" => spans[p].dest = c.dest
  BY <1>1, <1>2 DEF Compatible, DestinationCompatible, RouteLookupKey
<1>4. ASSUME NEW name \in Seq(STRING), NEW parent \in Seq(STRING),
             parent # <<>>, Under(name, parent)
      PROVE  name[1] = parent[1]
  <2>1. 1 \in 1..Len(parent) /\ SubSeq(name, 1, Len(parent)) = parent
    BY <1>4 DEF Under
  <2>2. SubSeq(name, 1, Len(parent))[1] = name[1]
    BY <1>4, <2>1 DEF Under
  <2> QED
    BY <2>1, <2>2
<1>5. c.system = "rabbitmq" => spans[p].dest[1] = c.dest[1]
  BY <1>1, <1>2, <1>4 DEF Compatible, DestinationCompatible
<1>6. RouteLookupKey(spans[p]) = RouteLookupKey(c)
  BY <1>2, <1>3, <1>5 DEF RouteLookupKey
<1> QED
  BY <1>1, <1>3, <1>6 DEF ProducersByRoute

(* The search begins where the route reaches the consumer's start: as many *)
(* positions end before it as producers do.                                *)
LEMMA Partition ==
  ASSUME Fixed, ci \in Consumers, NEW order \in SortedRoutes,
         NEW k, k = Cardinality({p \in ProducersByRoute : spans[p].end < c.start})
  PROVE  \A i \in 1..Cardinality(ProducersByRoute) :
           i <= k <=> spans[order[i]].end < c.start
<1> DEFINE n == Cardinality(ProducersByRoute)
           ended == {p \in ProducersByRoute : spans[p].end < c.start}
<1>1. /\ n \in Nat /\ order \in [1..n -> ProducersByRoute]
      /\ \A i, j \in 1..n : i < j => spans[order[i]].end <= spans[order[j]].end
      /\ \A i, j \in 1..n : order[i] = order[j] => i = j
      /\ \A p \in ProducersByRoute : \E i \in 1..n : order[i] = p
  BY Enumeration
<1>2. /\ c.start \in Int
      /\ \A p \in ProducersByRoute : spans[p].end \in Int
  BY SpanTypes DEF ProducersByRoute, Positions, c
<1>3. IsFiniteSet(ended) /\ k \in Nat /\ k = Cardinality(ended)
  BY ProducersFinite DEF ProducersByRoute
<1>4. \A p \in ended : p \in ProducersByRoute /\ spans[p].end < c.start
  OBVIOUS
<1>5. \A p \in ProducersByRoute : spans[p].end < c.start => p \in ended
  OBVIOUS
<1> HIDE DEF n, ended
<1>6. ASSUME NEW i \in 1..n, spans[order[i]].end < c.start PROVE i <= k
  <2> DEFINE f == [j \in 1..i |-> order[j]]
  <2>1. \A j \in 1..i : order[j] \in ended
    BY <1>1, <1>2, <1>5, <1>6
  <2>2. f \in Injection(1..i, ended)
    BY <1>1, <2>1 DEF Injection, IsInjective
  <2>3. Cardinality(1..i) <= k
    BY <1>3, <2>2, FS_Injection
  <2> QED
    BY <2>3, FS_Interval
<1>7. ASSUME NEW i \in 1..n, spans[order[i]].end >= c.start PROVE k < i
  <2> DEFINE before == {j \in 1..n : order[j] \in ended}
             f == [j \in before |-> order[j]]
  <2>1. before \subseteq 1..(i - 1)
    BY <1>1, <1>2, <1>4, <1>7
  <2>2. IsFiniteSet(before) /\ Cardinality(before) <= i - 1
    <3>1. IsFiniteSet(1..(i - 1)) /\ Cardinality(1..(i - 1)) = i - 1
      BY <1>1, FS_Interval
    <3> QED
      BY <2>1, <3>1, FS_Subset
  <2>3. f \in Surjection(before, ended)
    BY <1>1, <1>4 DEF Surjection
  <2>4. k <= Cardinality(before) /\ Cardinality(before) \in Nat
    BY <1>3, <2>2, <2>3, FS_Surjection, FS_CardinalityType
  <2> QED
    BY <1>1, <1>3, <2>2, <2>4
<1>8. ASSUME NEW i \in 1..n PROVE i <= k <=> spans[order[i]].end < c.start
  <2>1. i \in Int /\ spans[order[i]].end \in Int
    BY <1>1, <1>2
  <2>2. CASE spans[order[i]].end < c.start
    BY <1>6, <2>2
  <2>3. CASE ~(spans[order[i]].end < c.start)
    <3>1. spans[order[i]].end >= c.start
      BY <1>2, <2>1, <2>3
    <3>2. k < i
      BY <1>7, <3>1
    <3> QED
      BY <1>3, <2>1, <2>3, <3>2
  <2> QED
    BY <2>2, <2>3
<1> QED
  BY <1>8 DEF n

(* Within a search the data stay as they are.                              *)
LEMMA SameData ==
  ASSUME UNCHANGED <<spans, ci>>
  PROVE  /\ Producers' = Producers /\ InRange' = InRange /\ Eligible' = Eligible
         /\ Limit' = Limit /\ c' = c /\ ProducersByRoute' = ProducersByRoute
         /\ SortedRoutes' = SortedRoutes
<1>1. c' = c /\ Producers' = Producers /\ Limit' = Limit
  BY DEF c, Producers, Positions, Limit
<1>2. InRange' = InRange
  BY <1>1 DEF InRange, Gap, c
<1>3. Eligible' = Eligible
  BY <1>1 DEF Eligible, Compatible, DestinationCompatible, ScopeCompatible,
              OptionalEqual, Under, Gap, c
<1>4. ProducersByRoute' = ProducersByRoute /\ SortedRoutes' = SortedRoutes
  BY <1>1 DEF SortedRoutes, ProducersByRoute, EndsBefore, c
<1> QED
  BY <1>1, <1>2, <1>3, <1>4

LEMMA WalkBegins == IInv /\ SearchRoute => Walk'
<1> SUFFICES ASSUME IInv, SearchRoute, InRange' PROVE Walk'
  BY DEF Walk
<1>1. /\ Fixed /\ ci \in Consumers /\ UNCHANGED <<spans, ci>>
      /\ route' \in SortedRoutes /\ out' = <<>> /\ right' = left' + 1
      /\ left' = Cardinality({p \in ProducersByRoute : spans[p].end < c.start})
  BY DEF IInv, TypeOK, SearchRoute, NoContext
<1>2. Len(route') = Cardinality(ProducersByRoute) /\ Len(route') \in Nat
  BY <1>1, RouteType
<1>3. left' \in 0..Len(route')
  BY SearchStep DEF IInv, TypeOK
<1>4. \A i \in 1..Len(route') : i <= left' <=> spans[route'[i]].end < c.start
  BY <1>1, <1>2, Partition
<1>5. /\ c.start \in Int
      /\ \A i \in 1..Len(route') : spans[route'[i]].end \in Int
  <2>1. \A i \in 1..Len(route') : route'[i] \in Producers
    BY <1>1, <1>2, Enumeration DEF ProducersByRoute
  <2> QED
    BY <1>1, <2>1, SpanTypes DEF c, Positions
<1>6. \A i \in 1..Len(route') :
        /\ i <= left' => spans'[route'[i]].end < c'.start
        /\ i >= right' => spans'[route'[i]].end >= c'.start
  <2>1. spans' = spans /\ c' = c
    BY <1>1 DEF c
  <2>2. ASSUME NEW i \in 1..Len(route')
        PROVE  /\ i <= left' => spans[route'[i]].end < c.start
               /\ i >= right' => spans[route'[i]].end >= c.start
    <3>1. i >= right' => ~(i <= left')
      BY <1>1, <1>2, <1>3
    <3> QED
      BY <1>4, <1>5, <3>1
  <2> QED
    BY <2>1, <2>2
<1>7. Walked' = {} /\ Found' = {}
  <2>1. \A j \in Int : ~(left' < j /\ j < right')
    BY <1>1, <1>2, <1>3
  <2>2. DOMAIN out' = {}
    BY <1>1
  <2> QED
    BY <1>2, <2>1, <2>2 DEF Walked, Found
<1>8. Limit' \in Nat /\ Len(out') = 0
  BY <1>1, SpanTypes DEF Limit, c, Positions
<1> QED
  BY <1>1, <1>2, <1>3, <1>6, <1>7, <1>8, FS_EmptySet DEF Walk

(* What the search knows of its route while it walks.                      *)
LEMMA WalkFacts ==
  ASSUME IInv, Walk, phase = "merge", InRange
  PROVE  /\ ci \in Consumers /\ Fixed
         /\ Len(route) \in Nat /\ left \in 0..Len(route) /\ right \in 1..(Len(route) + 1)
         /\ left < right /\ c.start \in Int
         /\ \A i \in 1..Len(route) :
              /\ route[i] \in Producers /\ route[i] \in ProducersByRoute
              /\ spans[route[i]].end \in Int
              /\ Gap(route[i]) \in Nat
              /\ Delta(spans[route[i]]) = Gap(route[i])
              /\ Gap(route[i]) < MaxDuration
         /\ \A i, j \in 1..Len(route) : i < j => spans[route[i]].end <= spans[route[j]].end
         /\ \A i, j \in 1..Len(route) : route[i] = route[j] => i = j
         /\ \A p \in ProducersByRoute : \E i \in 1..Len(route) : route[i] = p
<1>1. /\ Fixed /\ ci \in Consumers /\ route \in SortedRoutes
      /\ Len(route) = Cardinality(ProducersByRoute)
      /\ Len(route) \in Nat /\ left \in 0..Len(route) /\ right \in Nat \ {0}
      /\ \A i \in 1..Len(route) : route[i] \in Producers
  BY DEF IInv, TypeOK, WalkType
<1>2. left < right /\ right <= Len(route) + 1
  BY DEF Walk
<1>3. /\ \A i, j \in 1..Len(route) : i < j => spans[route[i]].end <= spans[route[j]].end
      /\ \A i, j \in 1..Len(route) : route[i] = route[j] => i = j
      /\ \A p \in ProducersByRoute : \E i \in 1..Len(route) : route[i] = p
      /\ \A i \in 1..Len(route) : route[i] \in ProducersByRoute
  BY <1>1, Enumeration
<1>4. c.start \in Int /\ \A i \in 1..Len(route) : spans[route[i]].end \in Int
  BY <1>1, SpanTypes DEF c, Positions
<1>5. \A i \in 1..Len(route) :
        /\ Gap(route[i]) \in Nat
        /\ Delta(spans[route[i]]) = Gap(route[i])
        /\ Gap(route[i]) < MaxDuration
  BY <1>1, DeltaIsGap
<1> QED
  BY <1>1, <1>2, <1>3, <1>4, <1>5

(* The position chosen is next to those walked, and no position that is    *)
(* left is nearer.                                                         *)
LEMMA ChosenIsNearest ==
  ASSUME IInv, Walk, LoopOn, InRange
  PROVE  /\ Chosen \in (1..Len(route)) \ Walked
         /\ Distance = Gap(route[Chosen])
         /\ \A i \in (1..Len(route)) \ Walked : Gap(route[Chosen]) <= Gap(route[i])
         /\ AdvancePointers =>
              /\ left' < right' /\ right' <= Len(route) + 1
              /\ left' \in Int /\ right' \in Int /\ left' <= left /\ right' >= right
              /\ {j \in 1..Len(route) : left' < j /\ j < right'} = Walked \cup {Chosen}
<1>0. phase = "merge"
  BY DEF LoopOn
<1>1. /\ Len(route) \in Nat /\ left \in 0..Len(route) /\ right \in 1..(Len(route) + 1)
      /\ left < right
      /\ \A i \in 1..Len(route) :
           /\ Gap(route[i]) \in Nat /\ Gap(route[i]) < MaxDuration
           /\ Delta(spans[route[i]]) = Gap(route[i])
  BY <1>0, WalkFacts
<1>2. Chosen \in 1..Len(route)
  BY ChosenInRange DEF IInv
<1>3. MaxDuration \in Nat
  BY SpanTypes DEF IInv
<1>4. /\ \A i \in 1..Len(route) : i <= left => Gap(route[left]) <= Gap(route[i])
      /\ \A i \in 1..Len(route) : i >= right => Gap(route[right]) <= Gap(route[i])
  <2>1. /\ c.start \in Int
        /\ \A i \in 1..Len(route) : spans[route[i]].end \in Int
        /\ \A i, j \in 1..Len(route) : i < j => spans[route[i]].end <= spans[route[j]].end
    BY <1>0, WalkFacts
  <2>2. \A i \in 1..Len(route) : /\ i <= left => spans[route[i]].end < c.start
                                 /\ i >= right => spans[route[i]].end >= c.start
    BY <1>0 DEF Walk
  <2>3. ASSUME NEW i \in 1..Len(route), i <= left
        PROVE  Gap(route[left]) <= Gap(route[i])
    <3>1. left \in 1..Len(route) /\ spans[route[i]].end <= spans[route[left]].end
      BY <1>1, <2>1, <2>3
    <3>2. spans[route[left]].end < c.start /\ spans[route[i]].end < c.start
      BY <1>1, <2>2, <2>3, <3>1
    <3>3. /\ Gap(route[left]) = c.start - spans[route[left]].end
          /\ Gap(route[i]) = c.start - spans[route[i]].end
      BY <3>2 DEF Gap
    <3> QED
      BY <2>1, <2>3, <3>1, <3>3
  <2>4. ASSUME NEW i \in 1..Len(route), i >= right
        PROVE  Gap(route[right]) <= Gap(route[i])
    <3>0. right \in 1..Len(route) /\ (right = i \/ right < i)
      BY <1>1, <2>4
    <3>1. right \in 1..Len(route) /\ spans[route[right]].end <= spans[route[i]].end
      BY <2>1, <3>0
    <3>2. spans[route[right]].end >= c.start /\ spans[route[i]].end >= c.start
      BY <1>1, <2>2, <2>4, <3>1
    <3>3. /\ Gap(route[right]) = spans[route[right]].end - c.start
          /\ Gap(route[i]) = spans[route[i]].end - c.start
      BY <2>1, <2>4, <3>0, <3>2 DEF Gap
    <3> QED
      BY <2>1, <2>4, <3>0, <3>1, <3>3
  <2> QED
    BY <2>3, <2>4
<1>5. /\ left >= 1 => LeftDelta = Gap(route[left])
      /\ right <= Len(route) => RightDelta = Gap(route[right])
      /\ left < 1 => LeftDelta = MaxDuration
      /\ right > Len(route) => RightDelta = MaxDuration
  BY <1>1 DEF LeftDelta, RightDelta
<1>6. CASE ChooseLeft
  <2>1. Chosen = left /\ left \in 1..Len(route) /\ Distance = Gap(route[left])
    BY <1>2, <1>5, <1>6 DEF Chosen, Distance
  <2>2. right <= Len(route) => Gap(route[left]) <= Gap(route[right])
    BY <1>5, <1>6, <2>1 DEF ChooseLeft
  <2>3. \A i \in (1..Len(route)) \ Walked : Gap(route[left]) <= Gap(route[i])
    <3> SUFFICES ASSUME NEW i \in 1..Len(route), i <= left \/ i >= right
                 PROVE  Gap(route[left]) <= Gap(route[i])
      BY <1>1 DEF Walked
    <3>1. CASE i <= left
      BY <1>4, <3>1
    <3>2. CASE i >= right
      <4>1. right \in 1..Len(route) /\ Gap(route[right]) <= Gap(route[i])
        BY <1>1, <1>4, <3>2
      <4> QED
        BY <1>1, <2>1, <2>2, <4>1
    <3> QED
      BY <3>1, <3>2
  <2>4. ASSUME AdvancePointers
        PROVE  /\ left' < right' /\ right' <= Len(route) + 1
               /\ left' \in Int /\ right' \in Int /\ left' <= left /\ right' >= right
               /\ {j \in 1..Len(route) : left' < j /\ j < right'} = Walked \cup {Chosen}
    <3>1. left' = left - 1 /\ right' = right
      BY <1>6, <2>4 DEF AdvancePointers
    <3>2. \A j \in 1..Len(route) :
            left' < j /\ j < right' <=> (left < j /\ j < right) \/ j = Chosen
      BY <1>1, <2>1, <3>1
    <3> QED
      BY <1>1, <2>1, <3>1, <3>2 DEF Walked
  <2>5. Chosen \notin Walked
    BY <1>1, <2>1 DEF Walked
  <2> QED
    BY <2>1, <2>3, <2>4, <2>5
<1>7. CASE ~ChooseLeft
  <2>1. Chosen = right /\ right \in 1..Len(route) /\ Distance = Gap(route[right])
    BY <1>2, <1>5, <1>7 DEF Chosen, Distance
  <2>2. left >= 1 => Gap(route[right]) <= Gap(route[left])
    BY <1>1, <1>5, <1>7, <2>1 DEF ChooseLeft
  <2>3. \A i \in (1..Len(route)) \ Walked : Gap(route[right]) <= Gap(route[i])
    <3> SUFFICES ASSUME NEW i \in 1..Len(route), i <= left \/ i >= right
                 PROVE  Gap(route[right]) <= Gap(route[i])
      BY <1>1 DEF Walked
    <3>1. CASE i >= right
      BY <1>4, <3>1
    <3>2. CASE i <= left
      <4>1. left \in 1..Len(route) /\ Gap(route[left]) <= Gap(route[i])
        BY <1>1, <1>4, <3>2
      <4> QED
        BY <1>1, <2>1, <2>2, <4>1
    <3> QED
      BY <3>1, <3>2
  <2>4. ASSUME AdvancePointers
        PROVE  /\ left' < right' /\ right' <= Len(route) + 1
               /\ left' \in Int /\ right' \in Int /\ left' <= left /\ right' >= right
               /\ {j \in 1..Len(route) : left' < j /\ j < right'} = Walked \cup {Chosen}
    <3>1. left' = left /\ right' = right + 1
      BY <1>7, <2>4 DEF AdvancePointers
    <3>2. \A j \in 1..Len(route) :
            left' < j /\ j < right' <=> (left < j /\ j < right) \/ j = Chosen
      BY <1>1, <2>1, <3>1
    <3> QED
      BY <1>1, <2>1, <3>1, <3>2 DEF Walked
  <2>5. Chosen \notin Walked
    BY <1>1, <2>1 DEF Walked
  <2> QED
    BY <2>1, <2>3, <2>4, <2>5
<1> QED
  BY <1>6, <1>7

LEMMA WalkGoesOn == IInv /\ Walk /\ (Accept \/ PassOver) => Walk'
<1> SUFFICES ASSUME IInv, Walk, Accept \/ PassOver, InRange' PROVE Walk'
  BY DEF Walk
<1>1. /\ LoopOn /\ AdvancePointers /\ phase = "merge" /\ Distance <= Window
      /\ UNCHANGED <<spans, ci, route>> /\ Len(out) < Limit
  BY DEF Accept, PassOver, LoopOn
<1>2. /\ InRange /\ c' = c /\ Eligible' = Eligible /\ Limit' = Limit
  BY <1>1, SameData
<1>3. /\ Chosen \in (1..Len(route)) \ Walked
      /\ Distance = Gap(route[Chosen])
      /\ \A i \in (1..Len(route)) \ Walked : Gap(route[Chosen]) <= Gap(route[i])
      /\ left' < right' /\ right' <= Len(route) + 1
      /\ left' \in Int /\ right' \in Int /\ left' <= left /\ right' >= right
      /\ Walked' = Walked \cup {Chosen}
  BY <1>1, <1>2, ChosenIsNearest DEF Walked
<1>4. /\ Len(route) \in Nat /\ left \in Int /\ right \in Int
      /\ \A i \in 1..Len(route) : Gap(route[i]) \in Nat /\ route[i] \in Producers
      /\ \A i, j \in 1..Len(route) : route[i] = route[j] => i = j
  BY <1>1, <1>2, WalkFacts
<1>5. /\ \A i \in 1..Len(route) : /\ i <= left => spans[route[i]].end < c.start
                                  /\ i >= right => spans[route[i]].end >= c.start
      /\ \A j \in Walked : \A i \in (1..Len(route)) \ Walked :
           Gap(route[j]) <= Gap(route[i])
      /\ Found = {route[j] : j \in Walked} \cap Eligible
      /\ IsFiniteSet(Found) /\ Cardinality(Found) = Len(out)
  BY <1>1, <1>2 DEF Walk
<1>6. \A i \in 1..Len(route) : /\ i <= left' => spans[route[i]].end < c.start
                               /\ i >= right' => spans[route[i]].end >= c.start
  BY <1>3, <1>4, <1>5
<1>7. \A j \in Walked' : \A i \in (1..Len(route)) \ Walked' :
        Gap(route[j]) <= Gap(route[i])
  BY <1>3, <1>5
<1>8. /\ Found' = {route[j] : j \in Walked'} \cap Eligible
      /\ IsFiniteSet(Found') /\ Cardinality(Found') = Len(out') /\ Len(out') <= Limit
  <2>1. out \in Seq(Producers) /\ route[Chosen] \in Producers /\ Limit \in Nat
    <3>1. out \in Seq(Producers)
      BY <1>1 DEF IInv, WalkType, CompatibleProducers
    <3>2. c.count \in Int
      BY <1>1, <1>2, WalkFacts, SpanTypes DEF c, Positions
    <3> QED
      BY <1>3, <1>4, <3>1, <3>2 DEF Limit
  <2>2. route[Chosen] \in Eligible <=> Acceptable(spans[route[Chosen]])
    BY <1>1, <1>3, <2>1 DEF Eligible, Acceptable
  <2>3. route[Chosen] \notin Found
    BY <1>3, <1>4, <1>5 DEF Walked
  <2>4. CASE Accept
    <3>1. out' = Append(out, route[Chosen]) /\ route[Chosen] \in Eligible
      BY <2>2, <2>4 DEF Accept
    <3>2. Found' = Found \cup {route[Chosen]} /\ Len(out') = Len(out) + 1
      <4>1. /\ DOMAIN out = 1..Len(out) /\ Len(out) \in Nat
            /\ Len(out') = Len(out) + 1 /\ DOMAIN out' = 1..(Len(out) + 1)
            /\ \A k \in 1..Len(out) : out'[k] = out[k]
            /\ out'[Len(out) + 1] = route[Chosen]
        BY <2>1, <3>1
      <4> QED
        BY <4>1 DEF Found
    <3>3. IsFiniteSet(Found') /\ Cardinality(Found') = Len(out) + 1
      BY <1>5, <2>3, <3>2, FS_AddElement
    <3>4. Len(out') <= Limit
      BY <1>1, <2>1, <3>2
    <3> QED
      BY <1>3, <1>5, <3>1, <3>2, <3>3, <3>4
  <2>5. CASE PassOver
    <3>1. out' = out /\ route[Chosen] \notin Eligible
      BY <2>2, <2>5 DEF PassOver
    <3>2. Found' = Found
      BY <3>1 DEF Found
    <3> QED
      BY <1>1, <1>3, <1>5, <2>1, <3>1, <3>2
  <2> QED
    BY <2>4, <2>5
<1>9. ASSUME NEW j \in Walked', NEW i \in (1..Len(route')) \ Walked'
      PROVE  Gap(route[j])' <= Gap(route[i])'
  <2>1. Gap(route[j])' = Gap(route[j]) /\ Gap(route[i])' = Gap(route[i])
    BY <1>1, <1>2 DEF Gap
  <2>2. Gap(route[j]) <= Gap(route[i])
    BY <1>1, <1>7
  <2> QED
    BY <2>1, <2>2
<1>10. /\ left' < right' /\ right' <= Len(route') + 1
       /\ \A i \in 1..Len(route') : /\ i <= left' => spans'[route'[i]].end < c'.start
                                    /\ i >= right' => spans'[route'[i]].end >= c'.start
  BY <1>1, <1>2, <1>3, <1>6
<1>11. /\ Found' = {route'[j] : j \in Walked'} \cap Eligible'
       /\ Len(out') <= Limit'
  BY <1>1, <1>2, <1>8
<1> QED
  BY <1>8, <1>9, <1>10, <1>11 DEF Walk

LEMMA WalkStep == IInv /\ Walk /\ [Next]_vars => Walk'
<1> SUFFICES ASSUME IInv, Walk, [Next]_vars, phase' = "merge", InRange' PROVE Walk'
  BY DEF Walk
<1>1. CASE SearchRoute
  BY <1>1, WalkBegins
<1>2. CASE Accept \/ PassOver
  BY <1>2, WalkGoesOn
<1>3. CASE UNCHANGED vars
  <2>1. InRange' = InRange /\ c' = c /\ Eligible' = Eligible /\ Limit' = Limit
    BY <1>3, SameData DEF vars
  <2> QED
    BY <1>3, <2>1 DEF vars, Walk, Walked, Found, Gap
<1> QED
  BY <1>1, <1>2, <1>3
     DEF Next, NextConsumer, Finish, CorrelateLinks, CorrelateParent, CorrelateMessage,
         OutOfRange, CorrelateRoute

(* When the search ends, what it found are the nearest eligible producers. *)
LEMMA WalkEnds ==
  ASSUME IInv, Walk, CorrelateRoute, InRange
  PROVE  /\ Found \subseteq Eligible
         /\ \/ Cardinality(Found) = Limit
            \/ Cardinality(Found) < Limit /\ Found = Eligible
         /\ \A p \in Found, q \in Eligible \ Found : Gap(p) <= Gap(q)
<1>1. phase = "merge" /\ (LoopOn => Distance > Window)
  BY DEF CorrelateRoute
<1>2. /\ \A j \in Walked : \A i \in (1..Len(route)) \ Walked :
           Gap(route[j]) <= Gap(route[i])
      /\ Found = {route[j] : j \in Walked} \cap Eligible
      /\ Cardinality(Found) = Len(out) /\ Len(out) <= Limit
  BY <1>1 DEF Walk
<1>3. /\ ci \in Consumers /\ Fixed /\ Len(route) \in Nat
      /\ left \in 0..Len(route) /\ right \in 1..(Len(route) + 1)
      /\ \A i \in 1..Len(route) : Gap(route[i]) \in Nat
      /\ \A p \in ProducersByRoute : \E i \in 1..Len(route) : route[i] = p
  BY <1>1, WalkFacts
<1>4. \A q \in Eligible \ Found :
        \E i \in (1..Len(route)) \ Walked : route[i] = q /\ Gap(q) <= Window
  <2> SUFFICES ASSUME NEW q \in Eligible \ Found
               PROVE  \E i \in (1..Len(route)) \ Walked : route[i] = q /\ Gap(q) <= Window
    OBVIOUS
  <2>1. PICK i \in 1..Len(route) : route[i] = q
    BY <1>3, EligibleOnRoute
  <2> QED
    BY <1>2, <2>1 DEF Eligible
<1>5. Len(out) \in Nat /\ Limit \in Nat
  <2>1. c.count \in Int
    BY <1>3, SpanTypes DEF c, Positions
  <2>2. out \in Seq(CompatibleProducers)
    BY <1>1 DEF IInv, WalkType
  <2> QED
    BY <2>1, <2>2 DEF Limit
<1>6. \A p \in Found, q \in Eligible \ Found : Gap(p) <= Gap(q)
  BY <1>2, <1>4
<1>7. CASE LoopOn
  <2>1. Found = Eligible
    <3> SUFFICES ASSUME NEW q \in Eligible \ Found PROVE FALSE
      BY <1>2
    <3>1. PICK i \in (1..Len(route)) \ Walked : route[i] = q /\ Gap(q) <= Window
      BY <1>4
    <3>2. /\ Distance <= Gap(route[i]) /\ Distance \in Nat
      BY <1>3, <1>7, ChosenIsNearest
    <3> QED
      BY <1>1, <1>3, <1>7, <3>1, <3>2, SpanTypes
  <2>2. Cardinality(Found) < Limit
    BY <1>2, <1>7 DEF LoopOn
  <2> QED
    BY <1>6, <2>1, <2>2
<1>8. CASE ~LoopOn
  <2>1. CASE Len(out) >= Limit
    BY <1>2, <1>5, <1>6, <2>1
  <2>2. CASE Len(out) < Limit
    <3>1. left < 1 /\ right > Len(route)
      BY <1>1, <1>3, <1>8, <2>2 DEF LoopOn
    <3>2. Walked = 1..Len(route)
      BY <1>3, <3>1 DEF Walked
    <3> QED
      BY <1>2, <1>4, <1>6, <2>2, <3>2
  <2> QED
    BY <1>5, <2>1, <2>2
<1> QED
  BY <1>7, <1>8

LEMMA NearestStep == IInv /\ Walk /\ RouteNearest /\ [Next]_vars => RouteNearest'
<1> SUFFICES ASSUME IInv, Walk, RouteNearest, [Next]_vars, Decided', InRange',
                    CorrelatedBy({"span_link", "parent_context",
                                  "messaging_attributes"})' = {}
             PROVE  RouteNearest'
  BY DEF RouteNearest
<1> DEFINE stronger == {"span_link", "parent_context", "messaging_attributes"}
           byTime == {"time_window_heuristic"}
<1>1. CASE CorrelateRoute
  <2>1. /\ UNCHANGED <<spans, ci>> /\ phase = "merge"
        /\ Add(Found, "time_window_heuristic")
    BY <1>1 DEF CorrelateRoute, Found
  <2>2. /\ InRange /\ Eligible' = Eligible /\ Limit' = Limit /\ c' = c
    BY <2>1, SameData
  <2>3. \A x \in correlations : x.consumer \in Int /\ x.consumer < ci /\ ci \in Int
    BY <2>1, CorrelationType, SpanTypes DEF IInv, InTurn, TypeOK
  <2>4. CorrelatedBy(byTime)' = Found
    <3>1. /\ \A x \in correlations' : x \in correlations \/ x.producer \in Found
          /\ \A p \in Found :
               [producer |-> p, consumer |-> ci, method |-> "time_window_heuristic"]
                 \in correlations'
      BY <2>1 DEF Add
    <3>2. ASSUME NEW p \in CorrelatedBy(byTime)' PROVE p \in Found
      <4>1. PICK x \in correlations' : x.consumer = ci /\ x.producer = p
        BY <2>1, <3>2 DEF CorrelatedBy
      <4> QED
        BY <2>3, <3>1, <4>1
    <3>3. ASSUME NEW p \in Found PROVE p \in CorrelatedBy(byTime)'
      <4> DEFINE x == [producer |-> p, consumer |-> ci,
                       method |-> "time_window_heuristic"]
      <4>1. x \in correlations' /\ x.consumer = ci' /\ x.producer = p
            /\ x.method \in byTime
        BY <2>1, <3>1, <3>3
      <4> QED
        BY <4>1 DEF CorrelatedBy
    <3> QED
      BY <3>2, <3>3
  <2>5. /\ Found \subseteq Eligible
        /\ \/ Cardinality(Found) = Limit
           \/ Cardinality(Found) < Limit /\ Found = Eligible
        /\ \A p \in Found, q \in Eligible \ Found : Gap(p) <= Gap(q)
    BY <1>1, <2>2, WalkEnds
  <2>6. ASSUME NEW p \in Found, NEW q \in Eligible \ Found PROVE (Gap(p) <= Gap(q))'
    <3>1. Gap(p)' = Gap(p) /\ Gap(q)' = Gap(q)
      BY <2>1, <2>2 DEF Gap
    <3> QED
      BY <2>5, <3>1
  <2> QED
    BY <2>2, <2>4, <2>5, <2>6 DEF RouteNearest
<1>2. CASE CorrelateLinks \/ CorrelateParent \/ CorrelateMessage
  <2>1. PICK p \in Producers, m \in stronger :
          [producer |-> p, consumer |-> ci, method |-> m] \in correlations'
    BY <1>2, EvidenceType DEF IInv, CorrelateLinks, CorrelateParent, CorrelateMessage, Add
  <2>2. ci' = ci
    BY <1>2 DEF CorrelateLinks, CorrelateParent, CorrelateMessage
  <2>3. p \in CorrelatedBy(stronger)'
    <3> DEFINE x == [producer |-> p, consumer |-> ci, method |-> m]
    <3>1. x \in correlations' /\ x.consumer = ci' /\ x.producer = p /\ x.method \in stronger
      BY <2>1, <2>2
    <3> QED
      BY <3>1 DEF CorrelatedBy
  <2> QED
    BY <2>3
<1>3. CASE Finish \/ UNCHANGED vars
  <2>1. UNCHANGED <<spans, ci, correlations>> /\ Decided
    BY <1>3 DEF Finish, Decided, vars
  <2>2. /\ InRange' = InRange /\ Eligible' = Eligible /\ Limit' = Limit /\ c' = c
    BY <2>1, SameData
  <2>3. /\ CorrelatedBy(stronger)' = CorrelatedBy(stronger)
        /\ CorrelatedBy(byTime)' = CorrelatedBy(byTime)
    BY <2>1 DEF CorrelatedBy
  <2>4. \A p : Gap(p)' = Gap(p)
    BY <2>1, <2>2 DEF Gap
  <2> QED
    BY <2>1, <2>2, <2>3, <2>4 DEF RouteNearest
<1>4. CASE NextConsumer \/ SearchRoute \/ OutOfRange \/ Accept \/ PassOver
  BY <1>4 DEF NextConsumer, SearchRoute, OutOfRange, Accept, PassOver, LoopOn, Decided
<1> QED
  BY <1>1, <1>2, <1>3, <1>4 DEF Next

(* The walk over the sorted route finds the producers a search of all of   *)
(* them would find: the nearest eligible ones, as many as are asked for.   *)
THEOREM NearestFound == Spec => []RouteNearest
<1>1. Init => Walk /\ RouteNearest
  BY DEF Init, Walk, RouteNearest, Decided
<1> QED
  BY <1>1, Invariance, WalkStep, NearestStep, PTL DEF Spec
===============================================================================
