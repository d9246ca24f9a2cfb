------------------------------ MODULE RulesProofs ------------------------------
(***************************************************************************)
(* Theorems about Rules, for any windows, audits and configuration.        *)
(*                                                                         *)
(* The report is a function of what Correlate left, so the invariant is    *)
(* about the counters and the pairs that it keeps while it runs, and the   *)
(* rest is what each family of findings can hold.                          *)
(***************************************************************************)
EXTENDS Rules, FiniteSetTheorems, SequenceTheorems, NaturalsInduction,
        WellFoundedInduction, TLAPS

(* The definitions that Correlation reads from FiniteSets are these.       *)
LEMMA SameCardinality == \A S : Correlate!Cardinality(S) = Cardinality(S)
BY DEF Correlate!Cardinality, Cardinality

LEMMA SameFinite == \A S : Correlate!IsFiniteSet(S) <=> IsFiniteSet(S)
BY DEF Correlate!IsFiniteSet, IsFiniteSet

----------------------------------------------------------------------------
(* The window *)

(* The spans judged are the first that arrived.                            *)
Windows ==
  /\ stream \in Inputs /\ audit \in Audits
  /\ \E n \in 0 .. Len(stream) : spans = Received(n)

LEMMA StreamType ==
  ASSUME NEW w \in Inputs
  PROVE  /\ w \in Seq(Range(w))
         /\ Len(w) \in Nat /\ DOMAIN w = 1 .. Len(w)
<1>1. w \in Seq(Range(w))
  BY RulesAssumption
<1> QED
  BY <1>1, LenProperties

LEMMA PrefixType ==
  ASSUME stream \in Inputs, NEW n \in 0 .. Len(stream)
  PROVE  /\ Len(Received(n)) = n /\ DOMAIN Received(n) = 1 .. n
         /\ \A k \in 1 .. n : Received(n)[k] = stream[k]
<1>1. stream \in Seq(Range(stream)) /\ Len(stream) \in Nat
  BY StreamType
<1> QED
  BY <1>1 DEF Received

LEMMA WindowType ==
  ASSUME Windows
  PROVE  /\ Len(stream) \in Nat /\ DOMAIN stream = 1 .. Len(stream)
         /\ Len(spans) \in Nat /\ Len(spans) <= Len(stream)
         /\ DOMAIN spans = 1 .. Len(spans)
         /\ \A k \in DOMAIN spans : spans[k] = stream[k]
<1>1. PICK n \in 0 .. Len(stream) : spans = Received(n)
  BY DEF Windows
<1>2. Len(stream) \in Nat /\ DOMAIN stream = 1 .. Len(stream)
  BY StreamType DEF Windows
<1>3. /\ Len(spans) = n /\ DOMAIN spans = 1 .. n
      /\ \A k \in 1 .. n : spans[k] = stream[k]
  BY <1>1, PrefixType DEF Windows
<1> QED
  BY <1>2, <1>3

LEMMA InitWindows == Init => Windows
<1> SUFFICES ASSUME Init PROVE Windows
  OBVIOUS
<1>1. Len(stream) \in Nat
  BY StreamType DEF Init
<1> QED
  BY <1>1 DEF Init, Windows

(* Correlate reads the window and never writes it.                         *)
LEMMA CorrelateKeepsSpans ==
  ASSUME Correlate!Next PROVE spans' = spans
BY DEF Correlate!Next, Correlate!NextConsumer, Correlate!Finish,
   Correlate!CorrelateLinks, Correlate!CorrelateParent, Correlate!CorrelateMessage,
   Correlate!SearchRoute, Correlate!OutOfRange, Correlate!Accept,
   Correlate!PassOver, Correlate!CorrelateRoute

LEMMA WindowsStep == Windows /\ [Next]_vars => Windows'
<1> SUFFICES ASSUME Windows, [Next]_vars PROVE Windows'
  OBVIOUS
<1>1. CASE CorrelateStep
  BY <1>1, CorrelateKeepsSpans DEF CorrelateStep, Windows, Received
<1>2. CASE Judge
  BY <1>2 DEF Judge, Windows, corrVars, Received
<1>3. CASE NextWindow
  <2>1. PICK n \in (Len(spans) + 1) .. Len(stream) : spans' = Received(n)
    BY <1>3 DEF NextWindow
  <2>2. n \in 0 .. Len(stream)
    BY <2>1, WindowType
  <2> QED
    BY <1>3, <2>1, <2>2 DEF NextWindow, Windows, Received
<1>4. CASE UNCHANGED vars
  BY <1>4 DEF vars, corrVars, Windows, Received
<1> QED
  BY <1>1, <1>2, <1>3, <1>4 DEF Next

----------------------------------------------------------------------------
(* What Correlate leaves *)

(* Correlations and routes are of spans of the window.                     *)
PairsInv ==
  /\ phase \in {"evidence", "merge"} => ci \in Consumers
  /\ route \in Seq(Producers) /\ out \in Seq(Producers)
  /\ \A x \in correlations : x.producer \in Producers /\ x.consumer \in Consumers

(* A consumer that has context references is correlated, or one of them is *)
(* unresolved: no reference is counted and then forgotten.                 *)
CountersInv ==
  /\ references \in [Consumers -> Nat] /\ unresolved \in [Consumers -> Nat]
  /\ \A k \in Consumers :
       references[k] = 0 \/ k \in ConsumerMatched \/ unresolved[k] > 0

CorrelateInv == Windows /\ PairsInv /\ CountersInv

LEMMA UncountedType ==
  ASSUME NEW w, DOMAIN w = 1 .. Len(w)
  PROVE  LET consumers == {k \in 1 .. Len(w) : w[k].role = "consumer"}
         IN  /\ Uncounted(w) \in [consumers -> Nat]
             /\ \A k \in consumers : Uncounted(w)[k] = 0
BY DEF Uncounted

LEMMA InitCorrelate == Init => CorrelateInv
<1> SUFFICES ASSUME Init PROVE CorrelateInv
  OBVIOUS
<1>1. Windows
  BY InitWindows
<1>2. DOMAIN spans = 1 .. Len(spans)
  BY <1>1, WindowType
<1>3. PairsInv
  BY DEF Init, PairsInv
<1>4. CountersInv
  BY <1>2, UncountedType
     DEF Init, CountersInv, Consumers, Correlate!Consumers, Correlate!Positions
<1> QED
  BY <1>1, <1>3, <1>4 DEF CorrelateInv

LEMMA ProducersFinite ==
  ASSUME Windows
  PROVE  \A S : S \subseteq 1 .. Len(spans) => IsFiniteSet(S) /\ Cardinality(S) \in 0 .. Len(spans)
<1>1. Len(spans) \in Nat
  BY WindowType
<1>2. IsFiniteSet(1 .. Len(spans)) /\ Cardinality(1 .. Len(spans)) = Len(spans)
  BY <1>1, FS_Interval
<1> SUFFICES ASSUME NEW S, S \subseteq 1 .. Len(spans)
             PROVE  IsFiniteSet(S) /\ Cardinality(S) \in 0 .. Len(spans)
  OBVIOUS
<1>3. IsFiniteSet(S) /\ Cardinality(S) <= Cardinality(1 .. Len(spans))
  BY <1>2, FS_Subset
<1> QED
  BY <1>1, <1>2, <1>3, FS_CardinalityType

(* What the search of a route is given.                                    *)
LEMMA RouteType ==
  ASSUME Windows, NEW r \in Correlate!SortedRoutes
  PROVE  r \in Seq(Producers)
<1>1. Correlate!ProducersByRoute \subseteq Producers
  BY DEF Correlate!ProducersByRoute, Producers
<1>2. Correlate!ProducersByRoute \subseteq 1 .. Len(spans)
  BY DEF Correlate!ProducersByRoute, Correlate!Producers, Correlate!Positions
<1>3. Correlate!Cardinality(Correlate!ProducersByRoute) \in Nat
  <2>1. Cardinality(Correlate!ProducersByRoute) \in 0 .. Len(spans)
    BY <1>2, ProducersFinite
  <2>2. Cardinality(Correlate!ProducersByRoute) \in Nat
    BY <2>1, WindowType
  <2> QED
    BY <2>2, SameCardinality
<1>4. r \in [1 .. Correlate!Cardinality(Correlate!ProducersByRoute) -> Producers]
  BY <1>1 DEF Correlate!SortedRoutes
<1> QED
  BY <1>3, <1>4, SeqDef

(* The references of the consumer whose turn it is.                        *)
LEMMA ReferencesFinite ==
  ASSUME Windows, ci \in Consumers
  PROVE  /\ Correlate!Cardinality(Correlate!Links) \in Nat
         /\ Correlate!Cardinality(Correlate!UnresolvedLinks) \in Nat
<1>1. ci \in DOMAIN spans
  BY WindowType DEF Consumers, Correlate!Consumers, Correlate!Positions
<1>2. ci \in DOMAIN stream /\ spans[ci] = stream[ci] /\ stream \in Inputs
  BY <1>1, WindowType DEF Windows
<1>3. IsFiniteSet(DOMAIN spans[ci].links)
  BY <1>2, WindowType, RulesAssumption, SameFinite DEF Correlate!CorrelationAssumption
<1>4. Correlate!Links \subseteq DOMAIN spans[ci].links
  BY DEF Correlate!Links, Correlate!c
<1>5. Correlate!UnresolvedLinks \subseteq DOMAIN spans[ci].links
  BY <1>4 DEF Correlate!UnresolvedLinks
<1> QED
  BY <1>3, <1>4, <1>5, FS_Subset, FS_CardinalityType, SameCardinality

(* The sets of producers a consumer is correlated with are sets of         *)
(* producers of the window.                                                *)
LEMMA EvidenceType ==
  /\ Correlate!Linked \subseteq Producers
  /\ Correlate!ParentOf \subseteq Producers
  /\ Correlate!MessageCandidates \subseteq Producers
BY DEF Correlate!Linked, Correlate!ByLink, Correlate!ProducersByContext,
   Correlate!ParentOf, Correlate!MessageCandidates, Correlate!ProducersByRoute, Producers

LEMMA AddedPairs ==
  ASSUME PairsInv, ci \in Consumers, NEW ps, ps \subseteq Producers, NEW method,
         Correlate!Add(ps, method)
  PROVE  /\ \A x \in correlations' : x.producer \in Producers /\ x.consumer \in Consumers
         /\ ConsumerMatched \subseteq {x.consumer : x \in correlations'}
         /\ ps # {} => ci \in {x.consumer : x \in correlations'}
<1> DEFINE Pair(p) == [producer |-> p, consumer |-> ci, method |-> method]
<1>1. correlations' = correlations \cup {Pair(p) : p \in ps}
  BY DEF Correlate!Add
<1>2. \A p : Pair(p).producer = p /\ Pair(p).consumer = ci
  OBVIOUS
<1> HIDE DEF Pair
<1>3. \A x \in correlations' : x.producer \in Producers /\ x.consumer \in Consumers
  BY <1>1, <1>2 DEF PairsInv
<1>4. ConsumerMatched \subseteq {x.consumer : x \in correlations'}
  BY <1>1 DEF ConsumerMatched
<1>5. ASSUME NEW p \in ps PROVE ci \in {x.consumer : x \in correlations'}
  <2>1. Pair(p) \in correlations' /\ Pair(p).consumer = ci
    BY <1>1, <1>2
  <2> QED
    BY <2>1
<1> QED
  BY <1>3, <1>4, <1>5

(* A consumer that is correlated may be given any counts.                  *)
LEMMA CountedMatched ==
  ASSUME CountersInv, ci \in Consumers, NEW all \in Nat, NEW missing \in Nat,
         Correlate!CountReferences(all, missing),
         ConsumerMatched \subseteq {x.consumer : x \in correlations'},
         \/ ci \in {x.consumer : x \in correlations'}
         \/ all = missing
  PROVE  /\ references' \in [Consumers -> Nat] /\ unresolved' \in [Consumers -> Nat]
         /\ \A k \in Consumers : \/ references'[k] = 0
                                 \/ k \in {x.consumer : x \in correlations'}
                                 \/ unresolved'[k] > 0
BY DEF CountersInv, Correlate!CountReferences

(* A correlation of one consumer is written: its counts are all of its     *)
(* references, and it is correlated or none of them resolved.              *)
LEMMA CorrelatedStep ==
  ASSUME CorrelateInv, ci \in Consumers, NEW ps, ps \subseteq Producers,
         NEW method, Correlate!Add(ps, method), NEW all \in Nat, NEW missing \in Nat,
         Correlate!CountReferences(all, missing), ps # {},
         phase' = "consumer", UNCHANGED <<spans, ci, route, left, right, out>>
  PROVE  PairsInv' /\ CountersInv'
<1>1. Consumers' = Consumers /\ Producers' = Producers
  BY DEF Consumers, Producers, Correlate!Consumers, Correlate!Producers,
         Correlate!Positions
<1>2. /\ \A x \in correlations' : x.producer \in Producers /\ x.consumer \in Consumers
      /\ ConsumerMatched \subseteq ConsumerMatched'
      /\ ci \in ConsumerMatched'
  BY AddedPairs DEF CorrelateInv, ConsumerMatched
<1>3. CountersInv'
  BY <1>1, <1>2, CountedMatched DEF CorrelateInv, CountersInv, ConsumerMatched
<1>4. PairsInv'
  BY <1>1, <1>2 DEF CorrelateInv, PairsInv
<1> QED
  BY <1>3, <1>4

(* A step that leaves the counters alone and adds no pairs.                *)
LEMMA CountersKept ==
  ASSUME CorrelateInv,
         UNCHANGED <<spans, references, unresolved>>,
         ConsumerMatched \subseteq ConsumerMatched'
  PROVE  CountersInv'
<1>1. Consumers' = Consumers
  BY DEF Consumers, Correlate!Consumers, Correlate!Positions
<1> QED
  BY <1>1 DEF CorrelateInv, CountersInv

LEMMA CorrelateStepInv ==
  ASSUME CorrelateInv, Correlate!Next
  PROVE  PairsInv' /\ CountersInv'
<1> USE DEF CorrelateInv
<1>0. Consumers' = Consumers /\ Producers' = Producers
  BY CorrelateKeepsSpans
     DEF Consumers, Producers, Correlate!Consumers, Correlate!Producers, Correlate!Positions
<1>1. CASE Correlate!NextConsumer
  <2>1. ci' \in Consumers
    BY <1>1 DEF Correlate!NextConsumer, Correlate!Upcoming, Consumers
  <2>2. PairsInv'
    BY <1>0, <1>1, <2>1 DEF Correlate!NextConsumer, Correlate!mergeVars, PairsInv
  <2>3. CountersInv'
    BY <1>1, CountersKept DEF Correlate!NextConsumer, ConsumerMatched
  <2> QED
    BY <2>2, <2>3
<1>2. CASE Correlate!Finish
  <2>1. PairsInv'
    BY <1>0, <1>2 DEF Correlate!Finish, Correlate!mergeVars, PairsInv
  <2>2. CountersInv'
    BY <1>2, CountersKept DEF Correlate!Finish, ConsumerMatched
  <2> QED
    BY <2>1, <2>2
<1>3. CASE Correlate!CorrelateLinks
  <2>1. ci \in Consumers
    BY <1>3 DEF Correlate!CorrelateLinks, PairsInv
  <2> QED
    BY <1>3, <2>1, CorrelatedStep, ReferencesFinite, EvidenceType
       DEF Correlate!CorrelateLinks, Correlate!mergeVars
<1>4. CASE Correlate!CorrelateParent
  <2>1. ci \in Consumers
    BY <1>4 DEF Correlate!CorrelateParent, PairsInv
  <2>2. PICK p \in Correlate!ParentOf : Correlate!Add({p}, "parent_context")
    BY <1>4 DEF Correlate!CorrelateParent
  <2>3. {p} \subseteq Producers /\ {p} # {}
    BY <2>2, EvidenceType
  <2>4. Correlate!Cardinality(Correlate!Links) + 1 \in Nat
    BY <2>1, ReferencesFinite
  <2> QED
    BY <1>4, <2>1, <2>2, <2>3, <2>4, CorrelatedStep, ReferencesFinite
       DEF Correlate!CorrelateParent, Correlate!mergeVars
<1> DEFINE all == Correlate!Cardinality(Correlate!Links)
                  + (IF Correlate!c.parent # None THEN 1 ELSE 0)
<1>a. ASSUME ci \in Consumers, Correlate!ContextCounted
      PROVE  all \in Nat /\ Correlate!CountReferences(all, all)
  BY <1>a, ReferencesFinite DEF Correlate!ContextCounted
<1> HIDE DEF all
<1>5. CASE Correlate!CorrelateMessage
  <2>1. ci \in Consumers
    BY <1>5 DEF Correlate!CorrelateMessage, Correlate!NoContext, PairsInv
  <2>2. PICK p \in Correlate!MessageCandidates : Correlate!Add({p}, "messaging_attributes")
    BY <1>5 DEF Correlate!CorrelateMessage
  <2>3. {p} \subseteq Producers /\ {p} # {}
    BY <2>2, EvidenceType
  <2>4. all \in Nat /\ Correlate!CountReferences(all, all)
    BY <1>5, <1>a, <2>1 DEF Correlate!CorrelateMessage
  <2> QED
    BY <1>5, <2>1, <2>2, <2>3, <2>4, CorrelatedStep
       DEF Correlate!CorrelateMessage, Correlate!mergeVars
<1>6. CASE Correlate!SearchRoute
  <2>1. ci \in Consumers
    BY <1>6 DEF Correlate!SearchRoute, Correlate!NoContext, PairsInv
  <2>2. all \in Nat /\ Correlate!CountReferences(all, all)
    BY <1>6, <1>a, <2>1 DEF Correlate!SearchRoute
  <2>3. route' \in Seq(Producers) /\ out' \in Seq(Producers)
    BY <1>6, RouteType DEF Correlate!SearchRoute
  <2>4. UNCHANGED <<spans, ci, correlations>>
    BY <1>6 DEF Correlate!SearchRoute
  <2>5. PairsInv'
    BY <1>0, <2>1, <2>3, <2>4 DEF PairsInv
  <2>6. CountersInv'
    BY <1>0, <2>1, <2>2, <2>4, CountedMatched DEF CountersInv, ConsumerMatched
  <2> QED
    BY <2>5, <2>6
<1>7. CASE Correlate!OutOfRange
  <2>1. PairsInv'
    BY <1>0, <1>7 DEF Correlate!OutOfRange, Correlate!mergeVars, PairsInv
  <2>2. CountersInv'
    BY <1>7, CountersKept DEF Correlate!OutOfRange, ConsumerMatched
  <2> QED
    BY <2>1, <2>2
<1>8. CASE Correlate!Accept
  <2>1. route[Correlate!Chosen] \in Producers
    BY <1>8 DEF Correlate!Accept, PairsInv
  <2>2. out' \in Seq(Producers)
    BY <1>8, <2>1 DEF Correlate!Accept, PairsInv
  <2>3. PairsInv'
    BY <1>0, <1>8, <2>2 DEF Correlate!Accept, PairsInv
  <2>4. CountersInv'
    BY <1>8, CountersKept DEF Correlate!Accept, ConsumerMatched
  <2> QED
    BY <2>3, <2>4
<1>9. CASE Correlate!PassOver
  <2>1. PairsInv'
    BY <1>0, <1>9 DEF Correlate!PassOver, PairsInv
  <2>2. CountersInv'
    BY <1>9, CountersKept DEF Correlate!PassOver, ConsumerMatched
  <2> QED
    BY <2>1, <2>2
<1>10. CASE Correlate!CorrelateRoute
  <2>1. ci \in Consumers
    BY <1>10 DEF Correlate!CorrelateRoute, PairsInv
  <2>2. {out[k] : k \in DOMAIN out} \subseteq Producers
    BY DEF PairsInv
  <2>3. /\ \A x \in correlations' : x.producer \in Producers /\ x.consumer \in Consumers
        /\ ConsumerMatched \subseteq ConsumerMatched'
    BY <1>10, <2>1, <2>2, AddedPairs DEF Correlate!CorrelateRoute, ConsumerMatched
  <2>4. PairsInv'
    BY <1>0, <1>10, <2>3 DEF Correlate!CorrelateRoute, PairsInv
  <2>5. CountersInv'
    BY <1>10, <2>3, CountersKept DEF Correlate!CorrelateRoute
  <2> QED
    BY <2>4, <2>5
<1> QED
  BY <1>1, <1>2, <1>3, <1>4, <1>5, <1>6, <1>7, <1>8, <1>9, <1>10 DEF Correlate!Next

LEMMA InvStep == CorrelateInv /\ [Next]_vars => CorrelateInv'
<1> SUFFICES ASSUME CorrelateInv, [Next]_vars PROVE CorrelateInv'
  OBVIOUS
<1>1. Windows'
  BY WindowsStep DEF CorrelateInv
<1>2. CASE CorrelateStep
  BY <1>1, <1>2, CorrelateStepInv DEF CorrelateStep, CorrelateInv
<1>3. CASE Judge \/ UNCHANGED vars
  <2>1. UNCHANGED corrVars
    BY <1>3 DEF Judge, vars
  <2> QED
    BY <1>1, <2>1
       DEF CorrelateInv, PairsInv, CountersInv, corrVars, Consumers, Producers,
           ConsumerMatched, Correlate!Consumers, Correlate!Producers, Correlate!Positions
<1>4. CASE NextWindow
  <2>1. PICK n \in (Len(spans) + 1) .. Len(stream) : spans' = Received(n)
    BY <1>4 DEF NextWindow
  <2>2. DOMAIN spans' = 1 .. Len(spans')
    BY <2>1, WindowType, PrefixType DEF CorrelateInv, Windows
  <2>3. Consumers' = {k \in 1 .. Len(spans') : spans'[k].role = "consumer"}
    BY DEF Consumers, Correlate!Consumers, Correlate!Positions
  <2>4. /\ references' \in [Consumers' -> Nat] /\ unresolved' \in [Consumers' -> Nat]
        /\ \A k \in Consumers' : references'[k] = 0
    BY <1>4, <2>2, <2>3, UncountedType DEF NextWindow
  <2>5. CountersInv'
    BY <2>4 DEF CountersInv
  <2>6. PairsInv'
    BY <1>4 DEF NextWindow, PairsInv
  <2> QED
    BY <1>1, <2>5, <2>6 DEF CorrelateInv
<1> QED
  BY <1>2, <1>3, <1>4 DEF Next

----------------------------------------------------------------------------
(* What the findings can be *)

(* A finding of a check that is on, about spans of the window; one that    *)
(* concludes from what was not seen is as good as the input is complete.   *)
Sound(f) ==
  /\ f = Finding(f.check, f.kind, f.about, f.edge, f.evidence)
  /\ f.check \in Checks
  /\ f.about \subseteq DOMAIN spans
  /\ f.evidence \in {"sufficient", "insufficient"}
  /\ f.kind \in AbsenceKinds => f.evidence = AbsenceEvidence

(* The families of findings that the properties name, and no other, make   *)
(* findings under their names.                                             *)
Sorted(f) ==
  /\ f.check \in SpanChecks => f \in FaultySpans
  /\ f.check = "missing_consumer_context" => f \in MissingConsumerContext
  /\ f.check = "duplicate_processing" => f \in DuplicateProcessing
  /\ f.check = "orphan_producer" => f \in OrphanProducer
  /\ f.check = "orphan_consumer" => f \in OrphanConsumer
  /\ f.check = "unresolved_consumer_context" => f \in UnresolvedConsumerContext

LEMMA FindingFields ==
  ASSUME NEW check, NEW kind, NEW about, NEW edge, NEW evidence
  PROVE  LET f == Finding(check, kind, about, edge, evidence)
         IN  /\ f.check = check /\ f.kind = kind /\ f.about = about
             /\ f.edge = edge /\ f.evidence = evidence
             /\ f = Finding(f.check, f.kind, f.about, f.edge, f.evidence)
BY DEF Finding

LEMMA AboutFields ==
  ASSUME NEW check, NEW ks, NEW evidence, NEW f \in About(check, ks, evidence)
  PROVE  /\ f = Finding(f.check, f.kind, f.about, f.edge, f.evidence)
         /\ f.check = check /\ f.kind = check /\ f.evidence = evidence
         /\ f.edge = None
         /\ \E k \in ks : f.about = {k} /\ Applies(check, k)
<1>1. PICK k \in ks : f = Finding(check, check, {k}, None, evidence) /\ Applies(check, k)
  BY DEF About
<1> QED
  BY <1>1, FindingFields

LEMMA AboutMember ==
  ASSUME NEW check, NEW ks, NEW evidence, NEW k \in ks, Applies(check, k)
  PROVE  Finding(check, check, {k}, None, evidence) \in About(check, ks, evidence)
BY DEF About

LEMMA AboutSound ==
  ASSUME NEW check, NEW ks, ks \subseteq DOMAIN spans,
         NEW evidence \in {"sufficient", "insufficient"},
         check \in AbsenceKinds => evidence = AbsenceEvidence,
         NEW f \in About(check, ks, evidence)
  PROVE  Sound(f)
BY AboutFields DEF Sound, Applies

LEMMA EvidenceValues == AbsenceEvidence \in {"sufficient", "insufficient"}
BY DEF AbsenceEvidence

LEMMA SpanCheckNames ==
  SpanChecks = {"missing_messaging_system", "missing_service_name", "missing_destination",
                "invalid_operation", "invalid_span_kind", "invalid_span_identity",
                "invalid_timestamps", "invalid_context_reference"}
BY DEF SpanChecks, Faulty

LEMMA FaultyPositions ==
  ASSUME NEW check \in SpanChecks
  PROVE  Faulty[check] \subseteq DOMAIN spans
<1>1. /\ Messaging \subseteq DOMAIN spans /\ LooksMessaging \subseteq DOMAIN spans
      /\ Known \subseteq Messaging
  BY DEF Messaging, LooksMessaging, Known
<1>2. /\ Faulty["missing_messaging_system"] \subseteq LooksMessaging
      /\ Faulty["missing_service_name"] \subseteq Messaging
      /\ Faulty["missing_destination"] \subseteq Known
      /\ Faulty["invalid_operation"] \subseteq Messaging
      /\ Faulty["invalid_span_kind"] \subseteq Known
      /\ Faulty["invalid_span_identity"] \subseteq Messaging
      /\ Faulty["invalid_timestamps"] \subseteq Messaging
      /\ Faulty["invalid_context_reference"] \subseteq Messaging
  BY DEF Faulty
<1> QED
  BY <1>1, <1>2, SpanCheckNames

LEMMA FaultySpansSound ==
  ASSUME NEW f \in FaultySpans
  PROVE  Sound(f) /\ Sorted(f)
<1>1. PICK check \in SpanChecks : f \in About(check, Faulty[check], "sufficient")
  BY DEF FaultySpans
<1>2. /\ check \notin AbsenceKinds
      /\ check \notin {"orphan_producer", "orphan_consumer", "unresolved_consumer_context",
                       "missing_consumer_context", "duplicate_processing"}
  BY SpanCheckNames DEF AbsenceKinds
<1>3. f.check = check
  BY <1>1, AboutFields
<1>4. Faulty[check] \subseteq DOMAIN spans
  BY FaultyPositions
<1> QED
  BY <1>1, <1>2, <1>3, <1>4, AboutSound DEF Sorted

LEMMA ConsumerFindingsSound ==
  ASSUME CorrelateInv,
         NEW f \in UNION {MissingConsumerContext, UnresolvedConsumerContext, OrphanProducer,
                          OrphanConsumer, BatchLinksIncomplete}
  PROVE  Sound(f) /\ Sorted(f)
<1>1. Consumers \subseteq DOMAIN spans /\ Producers \subseteq DOMAIN spans
  BY WindowType
     DEF CorrelateInv, Consumers, Producers, Correlate!Consumers, Correlate!Producers,
         Correlate!Positions
<1>2. CASE f \in MissingConsumerContext
  <2> DEFINE name == "missing_consumer_context"
  <2>1. PICK k \in WithoutContext :
          f = Finding(name, name, {k} \cup Candidate(k), None, "sufficient")
    BY <1>2 DEF MissingConsumerContext
  <2>2. k \in Consumers /\ name \in Checks
    BY <2>1 DEF WithoutContext, Applies
  <2>3. Candidate(k) \subseteq Producers
    BY DEF CorrelateInv, PairsInv, Candidate, CorrelationsOf
  <2>4. /\ f.check = name /\ f.kind = name /\ f.about = {k} \cup Candidate(k)
        /\ f.evidence = "sufficient"
        /\ f = Finding(f.check, f.kind, f.about, f.edge, f.evidence)
    BY <2>1, FindingFields
  <2>5. f.about \subseteq DOMAIN spans
    BY <1>1, <2>2, <2>3, <2>4
  <2> QED
    BY <1>2, <2>2, <2>4, <2>5, SpanCheckNames DEF Sound, Sorted, AbsenceKinds
<1>3. CASE f \in UnresolvedConsumerContext
  BY <1>1, <1>3, AboutSound, AboutFields, SpanCheckNames DEF UnresolvedConsumerContext, AbsenceKinds, Sorted
<1>4. CASE f \in OrphanProducer
  BY <1>1, <1>4, AboutSound, AboutFields, EvidenceValues, SpanCheckNames
     DEF OrphanProducer, Sorted
<1>5. CASE f \in OrphanConsumer
  BY <1>1, <1>5, AboutSound, AboutFields, EvidenceValues, SpanCheckNames
     DEF OrphanConsumer, Sorted
<1>6. CASE f \in BatchLinksIncomplete
  BY <1>1, <1>6, AboutSound, AboutFields, SpanCheckNames DEF BatchLinksIncomplete, AbsenceKinds, Sorted
<1> QED
  BY <1>2, <1>3, <1>4, <1>5, <1>6

LEMMA AttemptPositions ==
  ASSUME Windows, NEW k
  PROVE  Succeeded(AttemptWindow(k)) \subseteq DOMAIN spans
BY WindowType
   DEF Succeeded, AttemptWindow, AttemptsLike, Attempts, Consumers, Correlate!Consumers,
       Correlate!Positions

LEMMA DuplicatesSound ==
  ASSUME Windows, NEW f \in DuplicateProcessing
  PROVE  Sound(f) /\ Sorted(f)
<1> DEFINE name == "duplicate_processing"
<1>1. PICK k \in Attempts :
        f = Finding(name, name, First(Succeeded(AttemptWindow(k))), None, "sufficient")
  BY DEF DuplicateProcessing
<1>2. name \in Checks
  BY <1>1 DEF Attempts, Applies
<1>3. f.about = First(Succeeded(AttemptWindow(k))) /\ f.check = name /\ f.kind = name
  BY <1>1, FindingFields
<1>4. f.about \subseteq DOMAIN spans
  BY <1>3, AttemptPositions DEF First
<1> QED
  BY <1>1, <1>2, <1>3, <1>4, FindingFields, SpanCheckNames
     DEF Sound, Sorted, AbsenceKinds

LEMMA PairsSound ==
  ASSUME CorrelateInv, NEW f \in QueueLatencyHigh \cup ClockSkew
  PROVE  Sound(f) /\ Sorted(f)
<1>1. PICK check \in {"queue_latency_high", "clock_skew"}, x \in correlations :
        /\ f = Finding(check, check, {x.producer, x.consumer}, None, "sufficient")
        /\ check \in Checks
  BY DEF QueueLatencyHigh, ClockSkew, BetweenPairs
<1>2. {x.producer, x.consumer} \subseteq DOMAIN spans
  BY WindowType
     DEF CorrelateInv, PairsInv, Consumers, Producers, Correlate!Consumers,
         Correlate!Producers, Correlate!Positions
<1>3. /\ f.check = check /\ f.kind = check /\ f.about = {x.producer, x.consumer}
      /\ f.evidence = "sufficient"
      /\ f = Finding(f.check, f.kind, f.about, f.edge, f.evidence)
  BY <1>1, FindingFields
<1> QED
  BY <1>1, <1>2, <1>3, SpanCheckNames DEF Sound, Sorted, AbsenceKinds

LEMMA TopologySound ==
  ASSUME Windows, NEW f \in RuntimeTopologyMismatch
  PROVE  Sound(f) /\ Sorted(f)
<1>1. f.check \in Checks
  BY DEF RuntimeTopologyMismatch
<1>2. \/ f \in Topology("denied_edge", DeniedEdgesSeen, "sufficient")
      \/ f \in Topology("unexpected_edge", UnexpectedEdges, "sufficient")
      \/ f \in Topology("missing_edge", MissingEdges, AbsenceEvidence)
      \/ \E x \in ExpectedEdges : \E p \in Undelivered(x) :
           f = Finding("runtime_topology_mismatch", "missing_required_consumer",
                       {p}, x, AbsenceEvidence)
  BY DEF RuntimeTopologyMismatch
<1>3. ASSUME NEW kind, NEW edges, NEW evidence, f \in Topology(kind, edges, evidence)
      PROVE  /\ f = Finding(f.check, f.kind, f.about, f.edge, f.evidence)
             /\ f.check = "runtime_topology_mismatch" /\ f.kind = kind
             /\ f.about = {} /\ f.evidence = evidence
  BY <1>3, FindingFields DEF Topology
<1>4. ASSUME NEW x \in ExpectedEdges, NEW p \in Undelivered(x),
             f = Finding("runtime_topology_mismatch", "missing_required_consumer",
                         {p}, x, AbsenceEvidence)
      PROVE  Sound(f) /\ Sorted(f)
  <2>1. p \in DOMAIN spans
    BY WindowType
       DEF Undelivered, EligibleProducers, Producers, Correlate!Producers,
           Correlate!Positions
  <2>2. /\ f = Finding(f.check, f.kind, f.about, f.edge, f.evidence)
        /\ f.check = "runtime_topology_mismatch" /\ f.about = {p}
        /\ f.evidence = AbsenceEvidence
    BY <1>4, FindingFields
  <2> QED
    BY <1>1, <2>1, <2>2, EvidenceValues, SpanCheckNames DEF Sound, Sorted
<1>5. ASSUME NEW kind, NEW edges, NEW evidence \in {"sufficient", "insufficient"},
             kind \in AbsenceKinds => evidence = AbsenceEvidence,
             f \in Topology(kind, edges, evidence)
      PROVE  Sound(f) /\ Sorted(f)
  BY <1>1, <1>3, <1>5, SpanCheckNames DEF Sound, Sorted
<1>6. "denied_edge" \notin AbsenceKinds /\ "unexpected_edge" \notin AbsenceKinds
  BY DEF AbsenceKinds
<1> QED
  BY <1>2, <1>4, <1>5, <1>6, EvidenceValues

LEMMA FindingsSound ==
  ASSUME CorrelateInv, NEW f \in AllFindings
  PROVE  Sound(f) /\ Sorted(f)
<1>1. Windows
  BY DEF CorrelateInv
<1>2. \/ f \in FaultySpans
      \/ f \in UNION {MissingConsumerContext, UnresolvedConsumerContext, OrphanProducer,
                      OrphanConsumer, BatchLinksIncomplete}
      \/ f \in DuplicateProcessing
      \/ f \in QueueLatencyHigh \cup ClockSkew
      \/ f \in RuntimeTopologyMismatch
  BY DEF AllFindings
<1> QED
  BY <1>1, <1>2, FaultySpansSound, ConsumerFindingsSound, DuplicatesSound, PairsSound,
     TopologySound

----------------------------------------------------------------------------
(* The report *)

LEMMA DegradedFields ==
  ASSUME NEW f, f = Finding(f.check, f.kind, f.about, f.edge, f.evidence)
  PROVE  LET g == DegradedEvidence(f)
         IN  /\ g.check = f.check /\ g.kind = f.kind /\ g.about = f.about
             /\ g.edge = f.edge
             /\ g.evidence = IF BaseCoverage = "degraded" /\ f.evidence = "insufficient"
                             THEN "degraded" ELSE f.evidence
BY DEF DegradedEvidence, Finding

(* Once a window is judged, Correlate has nothing left to do.              *)
JudgedInv == judged => phase = "done"

LEMMA DoneIsFinal == phase = "done" => ~Correlate!Next
BY DEF Correlate!Next, Correlate!NextConsumer, Correlate!Finish,
   Correlate!CorrelateLinks, Correlate!CorrelateParent, Correlate!CorrelateMessage,
   Correlate!NoContext, Correlate!SearchRoute, Correlate!OutOfRange, Correlate!LoopOn,
   Correlate!Accept, Correlate!PassOver, Correlate!CorrelateRoute

LEMMA JudgedStep == JudgedInv /\ [Next]_vars => JudgedInv'
BY DoneIsFinal DEF JudgedInv, Next, CorrelateStep, Judge, NextWindow, vars, corrVars

Inv == CorrelateInv /\ JudgedInv

LEMMA InitInv == Init => Inv
BY InitCorrelate DEF Inv, JudgedInv, Init

LEMMA NextInv == Inv /\ [Next]_vars => Inv'
BY InvStep, JudgedStep DEF Inv

THEOREM Invariance == Spec => []Inv
BY InitInv, NextInv, PTL DEF Spec

(* A report is written by Judge alone; the audit it is of is over.         *)
LEMMA ReportSteps ==
  ASSUME Inv, [Next]_vars
  PROVE  \/ Judge
         \/ UNCHANGED vars
         \/ /\ ~judged'
            /\ UNCHANGED <<stream, audit, findings, coverage, summary, violates>>
            /\ Len(spans) <= Len(spans')
            /\ spans' = spans \/ ~audit.finalized
<1>1. CASE CorrelateStep
  <2>1. ~judged
    BY <1>1, DoneIsFinal DEF CorrelateStep, Inv, JudgedInv
  <2>2. spans' = spans /\ UNCHANGED <<stream, audit, judged, findings, coverage, summary, violates>>
    BY <1>1, CorrelateKeepsSpans DEF CorrelateStep
  <2>3. Len(spans) \in Nat
    BY WindowType DEF Inv, CorrelateInv
  <2> QED
    BY <2>1, <2>2, <2>3
<1>2. CASE NextWindow
  <2>1. PICK n \in (Len(spans) + 1) .. Len(stream) : spans' = Received(n)
    BY <1>2 DEF NextWindow
  <2>2. Len(spans) \in Nat /\ Len(stream) \in Nat /\ Windows
    BY WindowType DEF Inv, CorrelateInv
  <2>3. Len(spans') = n
    BY <2>1, <2>2, PrefixType DEF Windows
  <2> QED
    BY <1>2, <2>1, <2>2, <2>3 DEF NextWindow
<1> QED
  BY <1>1, <1>2 DEF Next

----------------------------------------------------------------------------
(* The values of a report *)

CoverageTypes ==
  /\ coverage \in {"unknown", "complete", "degraded"}
  /\ \A f \in findings :
       /\ f.check \in Checks /\ f.about \subseteq 1..Len(spans)
       /\ f.evidence \in {"sufficient", "insufficient", "degraded"}
       /\ f.evidence = "degraded" => coverage = "degraded"
  /\ \A n \in DOMAIN summary : summary[n] \in 0..Len(stream)

Verdict == judged \in BOOLEAN /\ violates \in BOOLEAN

LEMMA ReportedFields ==
  ASSUME CorrelateInv, NEW g \in {DegradedEvidence(f) : f \in AllFindings}
  PROVE  /\ g.check \in Checks /\ g.about \subseteq 1 .. Len(spans)
         /\ g.evidence \in {"sufficient", "insufficient", "degraded"}
         /\ g.evidence = "degraded" => BaseCoverage = "degraded"
<1>1. PICK f \in AllFindings : g = DegradedEvidence(f)
  OBVIOUS
<1>2. Sound(f)
  BY FindingsSound
<1>3. DOMAIN spans = 1 .. Len(spans)
  BY WindowType DEF CorrelateInv
<1> QED
  BY <1>1, <1>2, <1>3, DegradedFields DEF Sound

LEMMA SummaryType ==
  ASSUME CorrelateInv
  PROVE  \A n \in DOMAIN Summary : Summary[n] \in 0 .. Len(stream)
<1>1. Windows /\ Len(spans) \in Nat /\ Len(stream) \in Nat /\ Len(spans) <= Len(stream)
  BY WindowType DEF CorrelateInv
<1>2. Consumers \subseteq 1 .. Len(spans) /\ Producers \subseteq 1 .. Len(spans)
  BY DEF Consumers, Producers, Correlate!Consumers, Correlate!Producers, Correlate!Positions
<1>3. ASSUME NEW S, S \subseteq Consumers \/ S \subseteq Producers
      PROVE  Cardinality(S) \in 0 .. Len(stream)
  <2>1. Cardinality(S) \in 0 .. Len(spans)
    BY <1>1, <1>2, <1>3, ProducersFinite
  <2> QED
    BY <1>1, <2>1
<1>4. /\ Summary.broken \in 0 .. Len(stream)
      /\ Summary.orphanProducers \in 0 .. Len(stream)
      /\ Summary.orphanConsumers \in 0 .. Len(stream)
  BY <1>3 DEF Summary
<1>5. DOMAIN Summary = {"broken", "orphanProducers", "orphanConsumers"}
  BY DEF Summary
<1> QED
  BY <1>4, <1>5

LEMMA CoverageStep ==
  ASSUME Inv, CoverageTypes, [Next]_vars
  PROVE  CoverageTypes'
<1>1. CASE Judge
  <2>1. /\ coverage' = BaseCoverage /\ summary' = Summary
        /\ findings' = {DegradedEvidence(f) : f \in AllFindings}
        /\ UNCHANGED <<stream, spans>>
    BY <1>1 DEF Judge, corrVars
  <2>2. BaseCoverage \in {"unknown", "complete", "degraded"}
    BY DEF BaseCoverage
  <2>3. \A f \in findings' :
          /\ f.check \in Checks /\ f.about \subseteq 1 .. Len(spans)
          /\ f.evidence \in {"sufficient", "insufficient", "degraded"}
          /\ f.evidence = "degraded" => BaseCoverage = "degraded"
    BY <2>1, ReportedFields DEF Inv
  <2>4. \A n \in DOMAIN summary' : summary'[n] \in 0 .. Len(stream)
    BY <2>1, SummaryType DEF Inv
  <2> QED
    BY <2>1, <2>2, <2>3, <2>4 DEF CoverageTypes, Checks
<1>2. CASE UNCHANGED vars
  BY <1>2 DEF vars, corrVars, CoverageTypes, Checks
<1>3. CASE /\ UNCHANGED <<stream, audit, findings, coverage, summary, violates>>
           /\ Len(spans) <= Len(spans')
  <2>1. Len(spans) \in Nat /\ Len(spans') \in Nat
    <3>1. Windows /\ Windows'
      BY WindowsStep DEF Inv, CorrelateInv
    <3>2. Len(stream') \in Nat /\ stream' = stream /\ stream \in Inputs
      BY <1>3, <3>1, StreamType DEF Windows
    <3>3. PICK n \in 0 .. Len(stream) : spans' = Received(n)
      BY <3>1, <3>2 DEF Windows, Received
    <3> QED
      BY <3>1, <3>2, <3>3, PrefixType, WindowType
  <2>2. 1 .. Len(spans) \subseteq 1 .. Len(spans')
    BY <1>3, <2>1
  <2> QED
    BY <1>3, <2>2 DEF CoverageTypes, Checks
<1> QED
  BY <1>1, <1>2, <1>3, ReportSteps

LEMMA VerdictStep ==
  ASSUME Verdict, [Next]_vars
  PROVE  Verdict'
<1>1. judged' \in BOOLEAN
  BY DEF Verdict, Next, CorrelateStep, Judge, NextWindow, vars
<1>2. violates' \in BOOLEAN
  <2>1. CASE Judge
    <3>1. violates' = ViolatesPolicy(findings')
      BY <2>1 DEF Judge
    <3>2. ViolatesPolicy(findings') \in BOOLEAN
      BY Zenon DEF ViolatesPolicy
    <3> QED
      BY <3>1, <3>2, Zenon
  <2>2. CASE ~Judge
    BY <2>2 DEF Verdict, Next, CorrelateStep, NextWindow, vars
  <2> QED
    BY <2>1, <2>2
<1> QED
  BY <1>1, <1>2 DEF Verdict

(* What a report can say agrees with what the audit was told of its input. *)
THEOREM TypeCorrect == Spec => []TypeOK
<1>1. Init => CoverageTypes /\ Verdict
  <2> SUFFICES ASSUME Init PROVE CoverageTypes /\ Verdict
    OBVIOUS
  <2>1. Len(stream) \in Nat
    BY StreamType DEF Init
  <2>2. \A n \in DOMAIN summary : summary[n] \in 0 .. Len(stream)
    BY <2>1 DEF Init
  <2> QED
    BY <2>2 DEF Init, CoverageTypes, Verdict
<1>2. Inv /\ CoverageTypes /\ Verdict /\ [Next]_vars => CoverageTypes' /\ Verdict'
  BY CoverageStep, VerdictStep
<1>3. Inv /\ CoverageTypes /\ Verdict => TypeOK
  BY RulesAssumption DEF Inv, CorrelateInv, Windows, CoverageTypes, Verdict, TypeOK
<1> QED
  BY Invariance, <1>1, <1>2, <1>3, PTL DEF Spec

----------------------------------------------------------------------------
(* What decides the verdict *)

LEMMA AbsenceIsInsufficient ==
  ASSUME CorrelateInv, ~audit.complete, NEW g \in {DegradedEvidence(f) : f \in AllFindings},
         g.kind \in AbsenceKinds
  PROVE  g.evidence # "sufficient"
<1>1. PICK f \in AllFindings : g = DegradedEvidence(f)
  OBVIOUS
<1>2. Sound(f)
  BY FindingsSound
<1>3. g.kind = f.kind /\ f.evidence = AbsenceEvidence
  BY <1>1, <1>2, DegradedFields DEF Sound
<1>4. f.evidence = "insufficient"
  BY <1>3 DEF AbsenceEvidence
<1> QED
  BY <1>1, <1>2, <1>4, DegradedFields DEF Sound

LEMMA AbsenceStep ==
  ASSUME Inv, AbsenceDoesNotDecide, [Next]_vars
  PROVE  AbsenceDoesNotDecide'
<1>1. CASE Judge
  <2> DEFINE seen == {f \in findings' : f.kind \notin AbsenceKinds}
  <2>1. /\ findings' = {DegradedEvidence(f) : f \in AllFindings}
        /\ violates' = ViolatesPolicy(findings')
        /\ audit' = audit
    BY <1>1 DEF Judge
  <2> SUFFICES ASSUME ~audit.complete, ~FailOnInsufficient
               PROVE  violates' = ViolatesPolicy(seen)
    BY <2>1 DEF AbsenceDoesNotDecide, AbsenceKinds, ViolatesPolicy
  <2>2. \A g \in findings' : g.kind \in AbsenceKinds => g.evidence # "sufficient"
    BY <2>1, AbsenceIsInsufficient DEF Inv
  <2>3. ViolatesPolicy(findings') <=> ViolatesPolicy(seen)
    BY <2>2 DEF ViolatesPolicy
  <2>4. /\ ViolatesPolicy(findings') \in BOOLEAN
        /\ ViolatesPolicy(seen) \in BOOLEAN
    BY Zenon DEF ViolatesPolicy
  <2>5. ViolatesPolicy(findings') = ViolatesPolicy(seen)
    BY <2>3, <2>4
  <2> QED
    BY <2>1, <2>5, Zenon
<1>2. CASE UNCHANGED vars
  BY <1>2 DEF vars, AbsenceDoesNotDecide, AbsenceKinds, ViolatesPolicy
<1>3. CASE ~judged'
  BY <1>3 DEF AbsenceDoesNotDecide
<1> QED
  BY <1>1, <1>2, <1>3, ReportSteps

(* While its input is not declared complete, an audit decides by what it   *)
(* has seen: no finding that rests on absence can change the verdict.      *)
THEOREM AbsenceHolds == Spec => []AbsenceDoesNotDecide
<1>1. Init => AbsenceDoesNotDecide
  BY DEF Init, AbsenceDoesNotDecide
<1>2. Inv /\ AbsenceDoesNotDecide /\ [Next]_vars => AbsenceDoesNotDecide'
  BY AbsenceStep
<1> QED
  BY Invariance, <1>1, <1>2, PTL DEF Spec

----------------------------------------------------------------------------
(* Where every span ends up *)

NamedIn(fs, check) == UNION {f.about : f \in {g \in fs : g.check = check}}

OrphansIn(fs) ==
  NamedIn(fs, "orphan_consumer") \cup NamedIn(fs, "unresolved_consumer_context")

Reported == {DegradedEvidence(f) : f \in AllFindings}

(* A finding of a family whose check is on names its spans in the report.  *)
LEMMA NamedByFamily ==
  ASSUME CorrelateInv, NEW check, NEW ks, NEW evidence,
         About(check, ks, evidence) \subseteq AllFindings,
         NEW k \in ks, Applies(check, k)
  PROVE  k \in NamedIn(Reported, check)
<1> DEFINE f == Finding(check, check, {k}, None, evidence)
<1>1. f \in AllFindings
  BY AboutMember
<1>2. f.check = check /\ f.about = {k}
  BY FindingFields
<1> HIDE DEF f
<1>3. Sound(f)
  BY <1>1, FindingsSound
<1>4. /\ DegradedEvidence(f) \in Reported
      /\ DegradedEvidence(f).check = check /\ DegradedEvidence(f).about = {k}
  BY <1>1, <1>2, <1>3, DegradedFields DEF Sound, Reported
<1> QED
  BY <1>4 DEF NamedIn

(* And nothing else does, for the families that are counted.               *)
LEMMA NamedOnlyBy ==
  ASSUME CorrelateInv, NEW check, NEW ks, NEW evidence,
         \A f \in AllFindings : f.check = check => f \in About(check, ks, evidence),
         NEW k \in NamedIn(Reported, check)
  PROVE  k \in ks
<1>1. PICK g \in Reported : g.check = check /\ k \in g.about
  BY DEF NamedIn
<1>2. PICK f \in AllFindings : g = DegradedEvidence(f)
  BY DEF Reported
<1>3. f.check = check /\ f.about = g.about
  BY <1>1, <1>2, FindingsSound, DegradedFields DEF Sound
<1> QED
  BY <1>1, <1>2, <1>3, AboutFields

LEMMA OrphanProducersNamed ==
  ASSUME CorrelateInv
  PROVE  LET orphans == {k \in Producers \ ProducerMatched : WindowClosed(k)}
         IN  /\ \A k \in orphans : Applies("orphan_producer", k) =>
                  k \in NamedIn(Reported, "orphan_producer")
             /\ NamedIn(Reported, "orphan_producer") \subseteq orphans
<1>1. OrphanProducer \subseteq AllFindings
  BY DEF AllFindings
<1>2. \A f \in AllFindings : f.check = "orphan_producer" => f \in OrphanProducer
  BY FindingsSound DEF Sorted
<1> QED
  BY <1>1, <1>2, NamedByFamily, NamedOnlyBy DEF OrphanProducer

(* A consumer whose window is closed and that is not correlated is named:  *)
(* it has no reference, or it has one that is unresolved.                  *)
LEMMA OrphanConsumersNamed ==
  ASSUME CorrelateInv
  PROVE  /\ \A k \in Consumers \ ConsumerMatched :
              /\ WindowClosed(k) /\ Applies("orphan_consumer", k)
              /\ Applies("unresolved_consumer_context", k)
              => k \in OrphansIn(Reported)
         /\ OrphansIn(Reported) \subseteq Consumers
<1>1. OrphanConsumer \subseteq AllFindings /\ UnresolvedConsumerContext \subseteq AllFindings
  BY DEF AllFindings
<1>2. \A f \in AllFindings :
        /\ f.check = "orphan_consumer" => f \in OrphanConsumer
        /\ f.check = "unresolved_consumer_context" => f \in UnresolvedConsumerContext
  BY FindingsSound DEF Sorted
<1>3. NamedIn(Reported, "orphan_consumer") \subseteq Consumers
  BY <1>2, NamedOnlyBy DEF OrphanConsumer
<1>4. NamedIn(Reported, "unresolved_consumer_context") \subseteq Consumers
  BY <1>2, NamedOnlyBy DEF UnresolvedConsumerContext
<1>5. ASSUME NEW k \in Consumers \ ConsumerMatched, WindowClosed(k),
             Applies("orphan_consumer", k), Applies("unresolved_consumer_context", k)
      PROVE  k \in OrphansIn(Reported)
  <2>1. references[k] = 0 \/ unresolved[k] > 0
    BY <1>5 DEF CorrelateInv, CountersInv
  <2>2. CASE references[k] = 0
    <3>1. k \in NamedIn(Reported, "orphan_consumer")
      BY <1>1, <1>5, <2>2, NamedByFamily DEF OrphanConsumer
    <3> QED
      BY <3>1 DEF OrphansIn
  <2>3. CASE unresolved[k] > 0
    <3>1. k \in NamedIn(Reported, "unresolved_consumer_context")
      BY <1>1, <1>5, <2>3, NamedByFamily DEF UnresolvedConsumerContext
    <3> QED
      BY <3>1 DEF OrphansIn
  <2> QED
    BY <2>1, <2>2, <2>3
<1> QED
  BY <1>3, <1>4, <1>5 DEF OrphansIn

(* A span that looks like messaging is of a known operation or is reported *)
(* for lacking one, or a system.                                           *)
LEMMA MessagingNamed ==
  ASSUME CorrelateInv, NEW k \in LooksMessaging,
         Applies("invalid_operation", k), Applies("missing_messaging_system", k)
  PROVE  k \in Known \cup NamedIn(Reported, "invalid_operation")
                    \cup NamedIn(Reported, "missing_messaging_system")
<1>1. \A check \in SpanChecks : About(check, Faulty[check], "sufficient") \subseteq AllFindings
  BY DEF AllFindings, FaultySpans
<1>2. {"invalid_operation", "missing_messaging_system"} \subseteq SpanChecks
  BY SpanCheckNames
<1>3. /\ Faulty["invalid_operation"] = Messaging \ Known
      /\ Faulty["missing_messaging_system"] = {j \in LooksMessaging : spans[j].system = None}
  BY DEF Faulty
<1>4. CASE k \in Messaging \ Known
  <2>1. k \in Faulty["invalid_operation"]
    BY <1>3, <1>4
  <2>2. k \in NamedIn(Reported, "invalid_operation")
    BY <1>1, <1>2, <2>1, NamedByFamily
  <2> QED
    BY <2>2
<1>5. CASE k \notin Messaging
  <2>1. k \in Faulty["missing_messaging_system"]
    BY <1>3, <1>5 DEF Messaging, LooksMessaging
  <2>2. k \in NamedIn(Reported, "missing_messaging_system")
    BY <1>1, <1>2, <2>1, NamedByFamily
  <2> QED
    BY <2>2
<1> QED
  BY <1>4, <1>5

(* What NothingVanishes says of a report and its counts. *)
Accounts(fs, counts) ==
  /\ \A k \in LooksMessaging :
       Applies("invalid_operation", k) /\ Applies("missing_messaging_system", k) =>
         k \in Known \cup NamedIn(fs, "invalid_operation")
                     \cup NamedIn(fs, "missing_messaging_system")
  /\ \A k \in Producers :
       WindowClosed(k) /\ Applies("orphan_producer", k) =>
         k \in ProducerMatched \cup NamedIn(fs, "orphan_producer")
  /\ \A k \in Consumers :
       WindowClosed(k) /\ Applies("orphan_consumer", k)
                       /\ Applies("unresolved_consumer_context", k) =>
         k \in ConsumerMatched \cup OrphansIn(fs)
  /\ AppliesToAll("orphan_producer") =>
       counts.orphanProducers = Cardinality(NamedIn(fs, "orphan_producer"))
  /\ AppliesToAll("orphan_consumer") /\ AppliesToAll("unresolved_consumer_context") =>
       counts.orphanConsumers =
         Cardinality({k \in OrphansIn(fs) \ ConsumerMatched : WindowClosed(k)})

LEMMA ReportedAccounts ==
  ASSUME CorrelateInv
  PROVE  Accounts(Reported, Summary)
<1>0. Consumers \subseteq DOMAIN spans /\ Producers \subseteq DOMAIN spans
  BY WindowType
     DEF CorrelateInv, Consumers, Producers, Correlate!Consumers, Correlate!Producers,
         Correlate!Positions
<1>1. /\ Summary.orphanProducers =
           Cardinality({k \in Producers \ ProducerMatched : WindowClosed(k)})
      /\ Summary.orphanConsumers =
           Cardinality({k \in Consumers \ ConsumerMatched : WindowClosed(k)})
  BY DEF Summary
<1>2. ASSUME AppliesToAll("orphan_producer")
      PROVE  {k \in Producers \ ProducerMatched : WindowClosed(k)} =
               NamedIn(Reported, "orphan_producer")
  BY <1>0, <1>2, OrphanProducersNamed DEF AppliesToAll
<1>3. ASSUME AppliesToAll("orphan_consumer"), AppliesToAll("unresolved_consumer_context")
      PROVE  {k \in Consumers \ ConsumerMatched : WindowClosed(k)} =
               {k \in OrphansIn(Reported) \ ConsumerMatched : WindowClosed(k)}
  BY <1>0, <1>3, OrphanConsumersNamed DEF AppliesToAll
<1>4. \A k \in Producers :
        WindowClosed(k) /\ Applies("orphan_producer", k) =>
          k \in ProducerMatched \cup NamedIn(Reported, "orphan_producer")
  BY OrphanProducersNamed
<1>5. \A k \in Consumers :
        WindowClosed(k) /\ Applies("orphan_consumer", k)
                        /\ Applies("unresolved_consumer_context", k) =>
          k \in ConsumerMatched \cup OrphansIn(Reported)
  BY OrphanConsumersNamed
<1> QED
  BY <1>1, <1>2, <1>3, <1>4, <1>5, MessagingNamed DEF Accounts

(* What Accounts reads of a state in which nothing but the report changes. *)
LEMMA SameSpans ==
  ASSUME UNCHANGED <<audit, corrVars>>
  PROVE  /\ LooksMessaging' = LooksMessaging /\ Known' = Known
         /\ Producers' = Producers /\ Consumers' = Consumers
         /\ ProducerMatched' = ProducerMatched /\ ConsumerMatched' = ConsumerMatched
         /\ \A check, k : Applies(check, k)' <=> Applies(check, k)
         /\ \A k : WindowClosed(k)' <=> WindowClosed(k)
         /\ \A check : AppliesToAll(check)' <=> AppliesToAll(check)
BY DEF corrVars, LooksMessaging, Known, Messaging, Producers, Consumers,
       Correlate!Producers, Correlate!Consumers, Correlate!Positions, ProducerMatched,
       ConsumerMatched, Applies, AppliesToAll, Checks, WindowClosed, EventWatermark

LEMMA AccountsKept ==
  ASSUME UNCHANGED <<audit, corrVars>>, NEW fs, NEW counts, Accounts(fs, counts),
         findings' = fs, summary' = counts
  PROVE  Accounts(findings, summary)'
BY SameSpans DEF Accounts

LEMMA NothingVanishesIs == NothingVanishes <=> (judged => Accounts(findings, summary))
BY DEF NothingVanishes, Accounts, Orphans, OrphansIn, Named, NamedIn

LEMMA VanishStep ==
  ASSUME Inv, NothingVanishes, [Next]_vars
  PROVE  NothingVanishes'
<1>0. NothingVanishes' <=> (judged' => Accounts(findings, summary)')
  BY NothingVanishesIs, PTL
<1>1. CASE Judge
  <2>1. /\ findings' = Reported /\ summary' = Summary
        /\ UNCHANGED <<audit, corrVars>>
    BY <1>1 DEF Judge, Reported
  <2>2. Accounts(Reported, Summary)
    BY ReportedAccounts DEF Inv
  <2>3. Accounts(findings, summary)'
    BY <2>1, <2>2, AccountsKept
  <2> QED
    BY <1>0, <2>3
<1>2. CASE UNCHANGED vars
  BY <1>0, <1>2, AccountsKept, NothingVanishesIs DEF vars
<1>3. CASE ~judged'
  BY <1>3 DEF NothingVanishes
<1> QED
  BY <1>1, <1>2, <1>3, ReportSteps

(* Every span that an audit reads is correlated, known to be of another    *)
(* kind, or named in the report, and the summary counts those named.       *)
THEOREM NoSpanVanishes == Spec => []NothingVanishes
<1>1. Init => NothingVanishes
  BY DEF Init, NothingVanishes
<1>2. Inv /\ NothingVanishes /\ [Next]_vars => NothingVanishes'
  BY VanishStep
<1> QED
  BY Invariance, <1>1, <1>2, PTL DEF Spec

----------------------------------------------------------------------------
(* A context that was missing *)

NoReferences(k) ==
  /\ spans[k].parent = None
  /\ \A j \in DOMAIN spans[k].links : spans[k].links[j] = None

Visited(k) == k < ci \/ (k = ci /\ phase # "evidence")

(* Once a consumer has been visited, its count of references is zero       *)
(* exactly when its span holds none: it depends on no other span.          *)
ReferencesInv ==
  /\ ci \in {0} \cup Consumers
  /\ \A k \in Consumers :
       /\ NoReferences(k) => references[k] = 0
       /\ Visited(k) /\ references[k] = 0 => NoReferences(k)
  /\ phase = "done" => \A k \in Consumers : k <= ci

LEMMA ConsumersType ==
  ASSUME Windows
  PROVE  /\ Consumers \subseteq DOMAIN spans /\ Producers \subseteq DOMAIN spans
         /\ Consumers \subseteq Nat \ {0}
BY WindowType
   DEF Consumers, Producers, Correlate!Consumers, Correlate!Producers, Correlate!Positions

LEMMA LinksTell ==
  ASSUME Windows, ci \in Consumers
  PROVE  /\ Correlate!Cardinality(Correlate!Links) \in Nat
         /\ Correlate!Cardinality(Correlate!Links) = 0 <=>
              \A j \in DOMAIN spans[ci].links : spans[ci].links[j] = None
<1>1. Correlate!Cardinality(Correlate!Links) \in Nat
  BY ReferencesFinite
<1>2. IsFiniteSet(Correlate!Links)
  <2>1. ci \in DOMAIN stream /\ spans[ci] = stream[ci] /\ stream \in Inputs
    BY WindowType, ConsumersType DEF Windows
  <2>2. IsFiniteSet(DOMAIN spans[ci].links)
    BY <2>1, WindowType, RulesAssumption, SameFinite DEF Correlate!CorrelationAssumption
  <2>3. Correlate!Links \subseteq DOMAIN spans[ci].links
    BY DEF Correlate!Links, Correlate!c
  <2> QED
    BY <2>2, <2>3, FS_Subset
<1>3. Cardinality(Correlate!Links) = 0 <=> Correlate!Links = {}
  BY <1>2, FS_EmptySet
<1>4. Correlate!Links = {} <=>
        \A j \in DOMAIN spans[ci].links : spans[ci].links[j] = None
  BY DEF Correlate!Links, Correlate!c
<1> QED
  BY <1>1, <1>3, <1>4, SameCardinality

(* The consumer whose turn it is is counted.                               *)
LEMMA CountedTells ==
  ASSUME CorrelateInv, ReferencesInv, phase = "evidence",
         NEW n \in Nat, n = 0 <=> NoReferences(ci), NEW missing,
         Correlate!CountReferences(n, missing), UNCHANGED <<spans, ci>>,
         phase' \in {"consumer", "merge"}
  PROVE  ReferencesInv'
<1>1. ci \in Consumers /\ Consumers' = Consumers
  BY DEF CorrelateInv, PairsInv, Consumers, Correlate!Consumers, Correlate!Positions
<1>2. \A k : NoReferences(k)' <=> NoReferences(k)
  BY DEF NoReferences
<1>3. /\ references'[ci] = n
      /\ \A k \in Consumers : k # ci => references'[k] = references[k]
  BY <1>1 DEF CorrelateInv, CountersInv, Correlate!CountReferences
<1> QED
  BY <1>1, <1>2, <1>3 DEF ReferencesInv, Visited

(* The walk over a route counts nothing.                                   *)
LEMMA UncountedTells ==
  ASSUME CorrelateInv, ReferencesInv, UNCHANGED <<spans, ci, references>>,
         phase # "evidence", phase' \in {"consumer", "merge", "panic"}
  PROVE  ReferencesInv'
BY DEF ReferencesInv, Visited, NoReferences, Consumers, Correlate!Consumers,
       Correlate!Positions

LEMMA ReferencesStep ==
  ASSUME CorrelateInv, ReferencesInv, Correlate!Next
  PROVE  ReferencesInv'
<1> DEFINE all == Correlate!Cardinality(Correlate!Links)
                  + (IF Correlate!c.parent # None THEN 1 ELSE 0)
<1>0. phase = "evidence" => /\ ci \in Consumers /\ Windows
                            /\ Correlate!c = spans[ci]
  BY DEF CorrelateInv, PairsInv, Correlate!c
<1>a. ASSUME Correlate!ContextCounted, phase = "evidence"
      PROVE  /\ all \in Nat
             /\ all = 0 <=> NoReferences(ci)
             /\ Correlate!CountReferences(all, all)
  <2>1. Correlate!CountReferences(all, all)
    BY <1>a DEF Correlate!ContextCounted
  <2>2. /\ all \in Nat
        /\ all = 0 <=> NoReferences(ci)
    BY <1>0, <1>a, LinksTell DEF NoReferences
  <2> QED
    BY <2>1, <2>2
<1> HIDE DEF all
<1>1. CASE Correlate!NextConsumer
  <2>1. Consumers' = Consumers /\ Consumers \subseteq Nat \ {0} /\ ci \in Nat
    BY <1>1, ConsumersType
       DEF Correlate!NextConsumer, CorrelateInv, Consumers, Correlate!Consumers,
           Correlate!Positions, ReferencesInv
  <2>2. /\ ci' \in Consumers /\ phase = "consumer" /\ phase' = "evidence"
        /\ \A k \in Consumers : k > ci => ci' <= k
        /\ UNCHANGED <<spans, references>>
    BY <1>1 DEF Correlate!NextConsumer, Correlate!Upcoming, Consumers
  <2>3. \A k \in Consumers : Visited(k)' => Visited(k)
    BY <2>1, <2>2 DEF Visited
  <2>4. \A k : NoReferences(k)' <=> NoReferences(k)
    BY <2>2 DEF NoReferences
  <2> QED
    BY <2>1, <2>2, <2>3, <2>4 DEF ReferencesInv
<1>2. CASE Correlate!Finish
  <2>1. Consumers' = Consumers /\ Consumers \subseteq Nat \ {0} /\ ci \in Nat
    BY <1>2, ConsumersType
       DEF Correlate!Finish, CorrelateInv, Consumers, Correlate!Consumers,
           Correlate!Positions, ReferencesInv
  <2>2. /\ phase = "consumer" /\ phase' = "done"
        /\ \A k \in Consumers : k <= ci
        /\ UNCHANGED <<spans, ci, references>>
    BY <1>2, <2>1 DEF Correlate!Finish, Correlate!Upcoming, Consumers
  <2> QED
    BY <2>1, <2>2 DEF ReferencesInv, Visited, NoReferences
<1>3. CASE Correlate!CorrelateLinks
  <2>1. phase = "evidence" /\ phase' = "consumer" /\ UNCHANGED <<spans, ci>>
    BY <1>3 DEF Correlate!CorrelateLinks
  <2>2. Correlate!Links # {}
    BY <1>3 DEF Correlate!CorrelateLinks, Correlate!Linked
  <2>3. ~NoReferences(ci)
    BY <1>0, <2>1, <2>2 DEF NoReferences, Correlate!Links
  <2>4. /\ Correlate!Cardinality(Correlate!Links) \in Nat
        /\ Correlate!Cardinality(Correlate!Links) # 0
    BY <1>0, <2>1, <2>2, LinksTell DEF Correlate!Links
  <2> QED
    BY <1>3, <2>1, <2>3, <2>4, CountedTells DEF Correlate!CorrelateLinks
<1>4. CASE Correlate!CorrelateParent
  <2>1. phase = "evidence" /\ phase' = "consumer" /\ UNCHANGED <<spans, ci>>
    BY <1>4 DEF Correlate!CorrelateParent
  <2>2. Correlate!c.parent # None
    BY <1>4 DEF Correlate!CorrelateParent, Correlate!ParentOf
  <2>3. ~NoReferences(ci)
    BY <1>0, <2>1, <2>2 DEF NoReferences
  <2>4. /\ Correlate!Cardinality(Correlate!Links) + 1 \in Nat
        /\ Correlate!Cardinality(Correlate!Links) + 1 # 0
    BY <1>0, <2>1, LinksTell
  <2> QED
    BY <1>4, <2>1, <2>3, <2>4, CountedTells DEF Correlate!CorrelateParent
<1>5. CASE Correlate!CorrelateMessage \/ Correlate!SearchRoute
  <2>1. /\ phase = "evidence" /\ phase' \in {"consumer", "merge"}
        /\ UNCHANGED <<spans, ci>> /\ Correlate!ContextCounted
    BY <1>5 DEF Correlate!CorrelateMessage, Correlate!SearchRoute, Correlate!NoContext
  <2>2. /\ all \in Nat /\ Correlate!CountReferences(all, all)
        /\ all = 0 <=> NoReferences(ci)
    BY <1>a, <2>1
  <2> QED
    BY <2>1, <2>2, CountedTells
<1>6. CASE \/ Correlate!OutOfRange \/ Correlate!Accept \/ Correlate!PassOver
           \/ Correlate!CorrelateRoute
  BY <1>6, UncountedTells
     DEF Correlate!OutOfRange, Correlate!Accept, Correlate!PassOver,
         Correlate!CorrelateRoute, Correlate!LoopOn
<1> QED
  BY <1>1, <1>2, <1>3, <1>4, <1>5, <1>6 DEF Correlate!Next

LEMMA InitReferences == Init => ReferencesInv
<1> SUFFICES ASSUME Init PROVE ReferencesInv
  OBVIOUS
<1>1. Windows
  BY InitWindows
<1>2. \A k \in Consumers : references[k] = 0
  BY <1>1, WindowType, UncountedType
     DEF Init, Consumers, Correlate!Consumers, Correlate!Positions
<1>3. \A k \in Consumers : ~Visited(k)
  BY <1>1, ConsumersType DEF Init, Visited
<1> QED
  BY <1>2, <1>3 DEF Init, ReferencesInv

LEMMA ReferencesInvStep == CorrelateInv /\ ReferencesInv /\ [Next]_vars => ReferencesInv'
<1> SUFFICES ASSUME CorrelateInv, ReferencesInv, [Next]_vars PROVE ReferencesInv'
  OBVIOUS
<1>1. CASE CorrelateStep
  BY <1>1, ReferencesStep DEF CorrelateStep
<1>2. CASE Judge \/ UNCHANGED vars
  <2>1. UNCHANGED corrVars
    BY <1>2 DEF Judge, vars
  <2> QED
    BY <2>1 DEF ReferencesInv, corrVars, Visited, NoReferences, Consumers,
                Correlate!Consumers, Correlate!Positions
<1>3. CASE NextWindow
  <2>1. PICK n \in (Len(spans) + 1) .. Len(stream) : spans' = Received(n)
    BY <1>3 DEF NextWindow
  <2>2. DOMAIN spans' = 1 .. Len(spans')
    BY <2>1, WindowType, PrefixType DEF CorrelateInv, Windows
  <2>3. Consumers' = {k \in 1 .. Len(spans') : spans'[k].role = "consumer"}
    BY DEF Consumers, Correlate!Consumers, Correlate!Positions
  <2>4. \A k \in Consumers' : references'[k] = 0
    BY <1>3, <2>2, <2>3, UncountedType DEF NextWindow
  <2>5. Len(spans') \in Nat
    BY <2>1, WindowType, PrefixType DEF CorrelateInv, Windows
  <2>6. ci' = 0 /\ phase' = "consumer"
    BY <1>3 DEF NextWindow
  <2>7. \A k \in Consumers' : ~Visited(k)'
    BY <2>3, <2>5, <2>6 DEF Visited
  <2> QED
    BY <2>4, <2>6, <2>7 DEF ReferencesInv
<1> QED
  BY <1>1, <1>2, <1>3 DEF Next

----------------------------------------------------------------------------
(* Attempts at a message, as more spans arrive *)

(* The window as it grows: what was read before is read again.             *)
Extended ==
  /\ DOMAIN spans \subseteq DOMAIN spans'
  /\ \A k \in DOMAIN spans : spans'[k] = spans[k]
  /\ \A k \in DOMAIN spans, j \in DOMAIN spans' : j < k => j \in DOMAIN spans

WindowShape ==
  /\ Len(spans) \in Nat /\ DOMAIN spans = 1 .. Len(spans)
  /\ \A k \in DOMAIN spans : spans[k] = stream[k]
  /\ \A k \in DOMAIN spans :
       spans[k].start \in Int /\ spans[k].end \in Int

LEMMA ShapeOfWindow == Windows => WindowShape
<1> SUFFICES ASSUME Windows PROVE WindowShape
  OBVIOUS
<1>1. /\ Len(spans) \in Nat /\ DOMAIN spans = 1 .. Len(spans)
      /\ \A k \in DOMAIN spans : spans[k] = stream[k]
      /\ DOMAIN spans \subseteq 1 .. Len(stream)
  BY WindowType
<1>2. \A k \in 1 .. Len(stream) : stream[k].start \in Int /\ stream[k].end \in Int
  BY RulesAssumption DEF Windows, Correlate!CorrelationAssumption
<1> QED
  BY <1>1, <1>2 DEF WindowShape

LEMMA WindowExtends ==
  ASSUME Windows, Windows', UNCHANGED stream, Len(spans) <= Len(spans')
  PROVE  Extended
<1>1. WindowShape /\ WindowShape'
  BY ShapeOfWindow, PTL
<1> QED
  BY <1>1 DEF WindowShape, Extended

(* From a to b no two neighbours of S are further apart than a window.     *)
Chain(S, a, b) ==
  \A x \in S : x \in a .. (b - 1) => \E y \in S : y \in (x + 1) .. (x + Window)

Below == {p \in Nat \X Nat : p[1] < p[2]}

LEMMA BelowWellFounded == IsWellFoundedOn(Below, Nat)
<1>1. Below = OpToRel(<, Nat)
  BY DEF Below, OpToRel
<1> QED
  BY <1>1, NatLessThanWellFounded

LEMMA Greatest ==
  ASSUME NEW M \in SUBSET Int, NEW a \in M, NEW x \in Int, \A z \in M : z <= x
  PROVE  \E z \in M : \A y \in M : y <= z
<1> DEFINE D == {x - z : z \in M}
<1>1. D \subseteq Nat /\ x - a \in D
  OBVIOUS
<1>2. PICK d \in D : \A e \in D : <<e, d>> \notin Below
  BY <1>1, BelowWellFounded, WFMin
<1>3. PICK z \in M : d = x - z
  BY <1>2
<1>4. ASSUME NEW y \in M PROVE y <= z
  <2> DEFINE e == x - y
  <2>1. e \in D /\ e \in Nat /\ d \in Nat
    BY <1>1, <1>2
  <2> HIDE DEF e, D
  <2>2. <<e, d>> \in Nat \X Nat /\ <<e, d>> \notin Below
    BY <1>2, <2>1
  <2>3. ~(<<e, d>>[1] < <<e, d>>[2])
    BY <2>2, Zenon DEF Below
  <2>4. ~(e < d)
    BY <2>3
  <2> QED
    BY <1>3, <2>4 DEF e
<1> QED
  BY <1>4

(* More attempts between do not break a chain.                             *)
LEMMA ChainGrows ==
  ASSUME NEW S \in SUBSET Int, NEW T \in SUBSET Int, S \subseteq T, NEW a \in S,
         NEW b \in Int, Window \in Nat, Chain(S, a, b)
  PROVE  Chain(T, a, b)
<1> SUFFICES ASSUME NEW x \in T, x \in a .. (b - 1)
             PROVE  \E y \in T : y \in (x + 1) .. (x + Window)
  BY DEF Chain
<1> DEFINE M == {z \in S : z <= x}
<1>0. x \in Int /\ a \in Int /\ a <= x
  OBVIOUS
<1>1. M \in SUBSET Int /\ a \in M /\ \A z \in M : z <= x
  BY <1>0
<1>2. PICK z \in M : \A y \in M : y <= z
  BY <1>0, <1>1, Greatest
<1>3. z \in S /\ z \in a .. (b - 1)
  BY <1>1, <1>2
<1>4. PICK y \in S : y \in (z + 1) .. (z + Window)
  BY <1>3 DEF Chain
<1>5. ~(y <= x)
  BY <1>2, <1>4
<1> QED
  BY <1>2, <1>4, <1>5

LEMMA ChainJoins ==
  ASSUME NEW S \in SUBSET Int, NEW a \in Int, NEW m \in Int, NEW b \in Int,
         Chain(S, a, m), Chain(S, m, b)
  PROVE  Chain(S, a, b)
BY DEF Chain

LEMMA ChainShorter ==
  ASSUME NEW S \in SUBSET Int, NEW a \in Int, NEW m \in Int, NEW b \in Int,
         NEW n \in Int, Chain(S, a, b), a <= m, n <= b
  PROVE  Chain(S, m, n)
BY DEF Chain

Starts(k) == {spans[j].start : j \in AttemptsLike(k)}

LEMMA AttemptsType ==
  ASSUME Windows
  PROVE  /\ Attempts \subseteq DOMAIN spans
         /\ \A k \in DOMAIN spans : spans[k].start \in Int
         /\ \A k : AttemptsLike(k) \subseteq Attempts /\ Starts(k) \in SUBSET Int
<1>1. Attempts \subseteq DOMAIN spans
  BY ConsumersType DEF Attempts
<1>2. \A k \in DOMAIN spans : spans[k].start \in Int
  BY ShapeOfWindow DEF WindowShape
<1> QED
  BY <1>1, <1>2 DEF AttemptsLike, Starts

LEMMA FollowsIs ==
  ASSUME Windows, NEW i \in DOMAIN spans, NEW j \in DOMAIN spans
  PROVE  Follows(i, j) <=> /\ spans[i].start <= spans[j].start
                           /\ Chain(Starts(i), spans[i].start, spans[j].start)
BY DEF Follows, Chain, Starts

(* Attempts of one window, none of which failed.                           *)
Together(ks) ==
  /\ ks \subseteq Attempts
  /\ \A i \in ks : ~Repeated(i) /\ ~spans[i].failed
  /\ \A i, j \in ks : /\ MessageKey(i) = MessageKey(j)
                      /\ Follows(i, j) \/ Follows(j, i)

LEMMA SameLike ==
  ASSUME NEW i, NEW j, MessageKey(i) = MessageKey(j)
  PROVE  AttemptsLike(i) = AttemptsLike(j) /\ Starts(i) = Starts(j)
BY DEF AttemptsLike, Starts

LEMMA WindowIsTogether ==
  ASSUME Windows, NEW k \in Attempts
  PROVE  Together(Succeeded(AttemptWindow(k)))
<1> DEFINE ks == Succeeded(AttemptWindow(k))
           at(i) == spans[i].start
<1>1. \A i \in ks : /\ i \in AttemptsLike(k) /\ ~spans[i].failed
                    /\ Follows(i, k) \/ Follows(k, i)
  BY DEF Succeeded, AttemptWindow
<1>2. \A i \in AttemptsLike(k) : i \in Attempts /\ ~Repeated(i) /\ MessageKey(i) = MessageKey(k)
  BY DEF AttemptsLike
<1>3. \A i \in DOMAIN spans : at(i) \in Int
  BY AttemptsType
<1>4. Starts(k) \in SUBSET Int /\ Attempts \subseteq DOMAIN spans
  BY AttemptsType
<1>5. ASSUME NEW i \in ks, NEW j \in ks, at(i) <= at(j)
      PROVE  Follows(i, j)
  <2>1. i \in DOMAIN spans /\ j \in DOMAIN spans /\ k \in DOMAIN spans
    BY <1>1, <1>2, <1>4, <1>5
  <2>2. Starts(i) = Starts(k) /\ Starts(j) = Starts(k)
    BY <1>1, <1>2, <1>5, SameLike
  <2>3. Chain(Starts(k), at(i), at(j))
    <3>1. CASE Follows(i, k) /\ Follows(k, j)
      BY <1>3, <1>4, <2>1, <2>2, <3>1, FollowsIs, ChainJoins
    <3>2. CASE Follows(i, k) /\ Follows(j, k)
      BY <1>3, <1>4, <2>1, <2>2, <3>2, FollowsIs, ChainShorter
    <3>3. CASE Follows(k, i) /\ Follows(k, j)
      BY <1>3, <1>4, <2>1, <2>2, <3>3, FollowsIs, ChainShorter
    <3>4. CASE Follows(k, i) /\ Follows(j, k)
      <4>1. at(i) = at(j)
        BY <1>3, <1>5, <2>1, <3>4, FollowsIs
      <4> QED
        BY <1>3, <2>1, <4>1 DEF Chain
    <3> QED
      BY <1>1, <1>5, <3>1, <3>2, <3>3, <3>4
  <2> QED
    BY <1>5, <2>1, <2>2, <2>3, FollowsIs
<1>6. \A i, j \in ks : Follows(i, j) \/ Follows(j, i)
  <2> SUFFICES ASSUME NEW i \in ks, NEW j \in ks PROVE Follows(i, j) \/ Follows(j, i)
    OBVIOUS
  <2>1. at(i) \in Int /\ at(j) \in Int
    BY <1>1, <1>2, <1>3, <1>4
  <2>2. at(i) <= at(j) \/ at(j) <= at(i)
    BY <2>1
  <2> QED
    BY <1>5, <2>2
<1>7. \A i, j \in ks : MessageKey(i) = MessageKey(j)
  BY <1>1, <1>2
<1>8. ks \subseteq Attempts /\ \A i \in ks : ~Repeated(i) /\ ~spans[i].failed
  BY <1>1, <1>2
<1> QED
  BY <1>6, <1>7, <1>8 DEF Together

(* Too many attempts are some. *)
LEMMA SomeDuplicates ==
  ASSUME NEW ks, Cardinality(ks) > DuplicateThreshold
  PROVE  ks # {}
<1>1. DuplicateThreshold \in Nat /\ Cardinality({}) = 0
  BY RulesAssumption, FS_EmptySet
<1> QED
  BY <1>1

LEMMA FirstLeast ==
  ASSUME NEW all, NEW x, x \in First(all), NEW y \in all
  PROVE  /\ x \in all /\ spans[x].start <= spans[y].start
         /\ spans[x].start = spans[y].start => x <= y
BY DEF First

(* Of any attempts there is a first one.                                   *)
LEMMA FirstExists ==
  ASSUME Windows, NEW ks, ks \subseteq DOMAIN spans, ks # {}
  PROVE  \E k : k \in First(ks)
<1> DEFINE upTo(n) == {k \in ks : k <= n}
           Bad == {n \in Nat : upTo(n) # {} /\ First(upTo(n)) = {}}
<1>1. /\ Len(spans) \in Nat /\ ks \subseteq 1 .. Len(spans)
      /\ \A k \in ks : spans[k].start \in Int
  BY ShapeOfWindow DEF WindowShape
<1>2. ASSUME NEW n \in Bad, \A m \in Bad : <<m, n>> \notin Below
      PROVE  FALSE
  <2>1. n \in Nat /\ n # 0 /\ n - 1 \in Nat
    BY <1>1, <1>2
  <2>2. n - 1 \notin Bad
    <3>1. <<n - 1, n>> \in Below
      BY <2>1 DEF Below
    <3> QED
      BY <1>2, <3>1
  <2>3. CASE upTo(n - 1) = {}
    <3>1. n \in ks /\ upTo(n) = {n}
      BY <1>1, <1>2, <2>1, <2>3
    <3>2. n \in First(upTo(n))
      BY <1>1, <3>1 DEF First
    <3> QED
      BY <1>2, <3>2
  <2>4. CASE upTo(n - 1) # {}
    <3>1. PICK k \in upTo(n - 1) : k \in First(upTo(n - 1))
      BY <2>1, <2>2, <2>4 DEF First
    <3>0. \A j \in upTo(n - 1) : /\ spans[k].start <= spans[j].start
                                 /\ spans[k].start = spans[j].start => k <= j
      BY <3>1, FirstLeast
    <3>2. \A j \in upTo(n) : j \in upTo(n - 1) \/ j = n
      BY <1>1, <2>1
    <3>3. k \in upTo(n) /\ k < n /\ k \in ks
      BY <1>1, <2>1, <3>1
    <3>4. CASE n \in ks /\ spans[n].start < spans[k].start
      <4>1. \A j \in upTo(n) : spans[n].start <= spans[j].start
                              /\ (spans[n].start = spans[j].start => j = n)
        BY <1>1, <2>1, <3>0, <3>2, <3>3, <3>4
      <4>2. n \in First(upTo(n))
        BY <2>1, <3>4, <4>1 DEF First
      <4> QED
        BY <1>2, <4>2
    <3>5. CASE ~(n \in ks /\ spans[n].start < spans[k].start)
      <4>1. \A j \in upTo(n) : spans[k].start <= spans[j].start
                              /\ (spans[k].start = spans[j].start => k <= j)
        BY <1>1, <2>1, <3>0, <3>2, <3>3, <3>5
      <4>2. k \in First(upTo(n))
        BY <3>3, <4>1 DEF First
      <4> QED
        BY <1>2, <4>2
    <3> QED
      BY <3>4, <3>5
  <2> QED
    BY <2>3, <2>4
<1>3. Bad = {}
  <2> SUFFICES ASSUME Bad # {} PROVE FALSE
    OBVIOUS
  <2>1. Bad \in SUBSET Nat
    OBVIOUS
  <2> HIDE DEF Bad
  <2>2. PICK n \in Bad : \A m \in Bad : <<m, n>> \notin Below
    BY <2>1, BelowWellFounded, WFMin
  <2> QED
    BY <1>2, <2>2
<1>4. upTo(Len(spans)) = ks
  BY <1>1
<1> QED
  BY <1>1, <1>3, <1>4

(* What a span is to the rules does not depend on those that came later.   *)
LEMMA SameSpan ==
  ASSUME Windows, Windows', Extended
  PROVE  /\ \A k \in DOMAIN spans : /\ k \in Consumers <=> k \in Consumers'
                                    /\ k \in Producers <=> k \in Producers'
                                    /\ NoReferences(k) <=> NoReferences(k)'
                                    /\ \A check : Applies(check, k) <=> Applies(check, k)'
                                    /\ MessageKey(k) = MessageKey(k)'
         /\ \A check \in SpanChecks : check \in SpanChecks' /\ Faulty[check] \subseteq Faulty'[check]
<1>1. WindowShape /\ WindowShape'
  BY ShapeOfWindow, PTL
<1>2. \A k \in DOMAIN spans :
        /\ k \in Consumers <=> k \in Consumers'
        /\ k \in Producers <=> k \in Producers'
  BY <1>1
     DEF Extended, WindowShape, Consumers, Producers, Correlate!Consumers,
         Correlate!Producers, Correlate!Positions
<1>3. \A k \in DOMAIN spans :
        /\ NoReferences(k) <=> NoReferences(k)'
        /\ \A check : Applies(check, k) <=> Applies(check, k)'
        /\ MessageKey(k) = MessageKey(k)'
  BY DEF Extended, NoReferences, Applies, Checks, MessageKey
<1>4. /\ Messaging \subseteq Messaging' /\ LooksMessaging \subseteq LooksMessaging'
      /\ Known \subseteq Known'
      /\ \A k \in Messaging : k \in Known' => k \in Known
  BY DEF Extended, Messaging, LooksMessaging, Known, Operations
<1>5. Messaging \subseteq DOMAIN spans /\ LooksMessaging \subseteq DOMAIN spans
  BY DEF Messaging, LooksMessaging
<1>6. SpanChecks' = SpanChecks
  BY DEF SpanChecks, Faulty
<1>7. /\ Faulty["missing_messaging_system"] \subseteq Faulty'["missing_messaging_system"]
      /\ Faulty["missing_service_name"] \subseteq Faulty'["missing_service_name"]
      /\ Faulty["missing_destination"] \subseteq Faulty'["missing_destination"]
      /\ Faulty["invalid_operation"] \subseteq Faulty'["invalid_operation"]
      /\ Faulty["invalid_span_kind"] \subseteq Faulty'["invalid_span_kind"]
      /\ Faulty["invalid_span_identity"] \subseteq Faulty'["invalid_span_identity"]
      /\ Faulty["invalid_timestamps"] \subseteq Faulty'["invalid_timestamps"]
      /\ Faulty["invalid_context_reference"] \subseteq Faulty'["invalid_context_reference"]
  BY <1>4, <1>5 DEF Extended, Faulty, Known, ExpectedKinds, Range
<1> QED
  BY <1>2, <1>3, <1>6, <1>7, SpanCheckNames

LEMMA AttemptsGrow ==
  ASSUME Windows, Windows', Extended
  PROVE  /\ Attempts \subseteq Attempts'
         /\ \A k \in Attempts : /\ Repeated(k) <=> Repeated(k)'
                                /\ AttemptsLike(k) \subseteq AttemptsLike(k)'
                                /\ Starts(k) \subseteq Starts(k)'
<1>1. \A k \in DOMAIN spans : k \in Attempts <=> k \in Attempts'
  BY SameSpan DEF Extended, Attempts
<1>2. Attempts \subseteq DOMAIN spans /\ Attempts' \subseteq DOMAIN spans'
  <2>1. /\ Consumers \subseteq DOMAIN spans
        /\ Consumers' \subseteq DOMAIN spans'
    <3>1. WindowShape /\ WindowShape'
      BY ShapeOfWindow, PTL
    <3> QED
      BY <3>1 DEF WindowShape, Consumers, Correlate!Consumers, Correlate!Positions
  <2> QED
    BY <2>1 DEF Attempts
<1>3. \A k \in Attempts : Repeated(k) <=> Repeated(k)'
  BY <1>1, <1>2 DEF Extended, Repeated
<1>4. \A k \in Attempts : AttemptsLike(k) \subseteq AttemptsLike(k)'
  BY <1>1, <1>2, <1>3, SameSpan DEF AttemptsLike
<1>5. \A k \in Attempts : Starts(k) \subseteq Starts(k)'
  BY <1>2, <1>4 DEF Starts, AttemptsLike, Extended
<1> QED
  BY <1>1, <1>2, <1>3, <1>4, <1>5 DEF Extended

LEMMA TogetherGrows ==
  ASSUME Windows, Windows', Extended, NEW ks, Together(ks)
  PROVE  Together(ks)'
<1>1. /\ ks \subseteq Attempts /\ ks \subseteq DOMAIN spans
      /\ \A i \in ks : ~Repeated(i) /\ ~spans[i].failed
  BY AttemptsType DEF Together
<1>2. /\ ks \subseteq Attempts'
      /\ \A i \in ks : ~Repeated(i)' /\ ~spans'[i].failed
      /\ \A i, j \in ks : MessageKey(i)' = MessageKey(j)'
  BY <1>1, AttemptsGrow, SameSpan DEF Together, Extended
<1>3. ASSUME NEW i \in ks, NEW j \in ks, Follows(i, j) PROVE Follows(i, j)'
  <2> DEFINE S == Starts(i)  T == Starts(i)'
             a == spans[i].start  b == spans[j].start
  <2>1. a \in S
    BY <1>1, <1>3 DEF Starts, AttemptsLike
  <2>2. S \in SUBSET Int /\ b \in Int /\ a \in Int
    BY <1>1, <1>3, AttemptsType
  <2>3. S \subseteq T
    BY <1>1, <1>3, AttemptsGrow
  <2>4. T \in SUBSET Int
    <3>1. /\ \A k \in Attempts' : k \in DOMAIN spans'
          /\ \A k \in DOMAIN spans' : spans'[k].start \in Int
      <4>1. WindowShape'
        BY ShapeOfWindow, PTL
      <4> QED
        BY <4>1 DEF WindowShape, Attempts, Consumers, Correlate!Consumers, Correlate!Positions
    <3> QED
      BY <3>1 DEF Starts, AttemptsLike
  <2>5. a <= b /\ Chain(S, a, b)
    BY <1>1, <1>3, FollowsIs
  <2>6. Window \in Nat
    BY RulesAssumption DEF Correlate!CorrelationAssumption
  <2> HIDE DEF S, T
  <2>7. Chain(T, a, b)
    BY <2>1, <2>2, <2>3, <2>4, <2>5, <2>6, ChainGrows
  <2>8. spans'[i].start = a /\ spans'[j].start = b
    BY <1>1, <1>3 DEF Extended
  <2> QED
    BY <2>5, <2>7, <2>8 DEF Follows, Chain, T, Starts
<1> QED
  BY <1>2, <1>3 DEF Together

----------------------------------------------------------------------------
(* What is concluded from a span alone, or from the consumers' spans *)

SelfNamed(f) == f.kind = f.check /\ f.edge = None

(* The facts that such a finding rests on, as the window shows them now.   *)
SeenInOneSpan(f) ==
  f.check \in SpanChecks =>
    \E k \in Faulty[f.check] :
      f = Finding(f.check, f.check, {k}, None, "sufficient") /\ Applies(f.check, k)

SeenWithoutContext(f) ==
  f.check = "missing_consumer_context" =>
    \E k \in f.about : /\ k \in Consumers /\ spans[k].op = "process"
                       /\ NoReferences(k) /\ Applies(f.check, k)

SeenTogether(f) ==
  f.check = "duplicate_processing" =>
    \E i \in f.about, ks \in SUBSET Attempts :
      i \in ks /\ Together(ks) /\ Cardinality(ks) > DuplicateThreshold

Seen(f) == SeenInOneSpan(f) /\ SeenWithoutContext(f) /\ SeenTogether(f)

ObservedInv == \A f \in findings : Seen(f)

(* What Judge concludes was seen.                                          *)
LEMMA ReportedSeen ==
  ASSUME CorrelateInv, ReferencesInv, phase = "done", NEW g \in Reported
  PROVE  Seen(g)
<1>1. PICK f \in AllFindings : g = DegradedEvidence(f)
  BY DEF Reported
<1>2. Sound(f) /\ Sorted(f) /\ Windows
  BY FindingsSound DEF CorrelateInv
<1>3. /\ g.check = f.check /\ g.kind = f.kind /\ g.about = f.about /\ g.edge = f.edge
  BY <1>1, <1>2, DegradedFields DEF Sound
<1>4. SeenInOneSpan(g)
  <2> SUFFICES ASSUME f.check \in SpanChecks
               PROVE  \E k \in Faulty[f.check] :
                        /\ g = Finding(f.check, f.check, {k}, None, "sufficient")
                        /\ Applies(f.check, k)
    BY <1>3 DEF SeenInOneSpan
  <2>1. PICK check \in SpanChecks : f \in About(check, Faulty[check], "sufficient")
    BY <1>2 DEF Sorted, FaultySpans
  <2>2. f.check = check /\ f.evidence = "sufficient"
    BY <2>1, AboutFields
  <2>3. PICK k \in Faulty[check] :
          f = Finding(check, check, {k}, None, "sufficient") /\ Applies(check, k)
    BY <2>1 DEF About
  <2>4. g = f
    BY <1>1, <2>2 DEF DegradedEvidence
  <2> QED
    BY <2>2, <2>3, <2>4
<1>5. SeenWithoutContext(g)
  <2> DEFINE name == "missing_consumer_context"
  <2> SUFFICES ASSUME f.check = name
               PROVE  \E k \in f.about : /\ k \in Consumers /\ spans[k].op = "process"
                                         /\ NoReferences(k) /\ Applies(name, k)
    BY <1>3 DEF SeenWithoutContext
  <2>1. PICK k \in WithoutContext :
          f = Finding(name, name, {k} \cup Candidate(k), None, "sufficient")
    BY <1>2 DEF Sorted, MissingConsumerContext
  <2>2. k \in f.about
    BY <2>1, FindingFields
  <2>3. k \in Consumers /\ spans[k].op = "process" /\ references[k] = 0 /\ Applies(name, k)
    BY <2>1 DEF WithoutContext
  <2>4. Visited(k)
    <3>1. k <= ci /\ k \in Nat /\ ci \in Nat
      BY <1>2, <2>3, ConsumersType DEF ReferencesInv
    <3> QED
      BY <3>1 DEF Visited
  <2>5. NoReferences(k)
    BY <2>3, <2>4 DEF ReferencesInv
  <2> QED
    BY <2>2, <2>3, <2>5
<1>6. SeenTogether(g)
  <2> DEFINE name == "duplicate_processing"
  <2> SUFFICES ASSUME f.check = name
               PROVE  \E i \in f.about, ks \in SUBSET Attempts :
                        i \in ks /\ Together(ks) /\ Cardinality(ks) > DuplicateThreshold
    BY <1>3 DEF SeenTogether
  <2>1. PICK k \in Attempts :
          /\ f = Finding(name, name, First(Succeeded(AttemptWindow(k))), None, "sufficient")
          /\ Cardinality(Succeeded(AttemptWindow(k))) > DuplicateThreshold
    BY <1>2 DEF Sorted, DuplicateProcessing
  <2> DEFINE ks == Succeeded(AttemptWindow(k))
  <2>2. f.about = First(ks)
    BY <2>1, FindingFields
  <2>3. Together(ks)
    BY <1>2, WindowIsTogether
  <2>4. ks \subseteq DOMAIN spans /\ ks # {}
    BY <1>2, <2>1, AttemptPositions, SomeDuplicates
  <2>5. PICK i : i \in First(ks)
    BY <1>2, <2>4, FirstExists
  <2>6. i \in ks /\ ks \in SUBSET Attempts
    BY <2>3, <2>5 DEF First, Together
  <2> QED
    BY <2>1, <2>2, <2>3, <2>5, <2>6
<1> QED
  BY <1>4, <1>5, <1>6 DEF Seen

(* What was seen is still there when more spans have come.                 *)
LEMMA SeenGrows ==
  ASSUME Windows, Windows', Extended, NEW f, Seen(f)
  PROVE  Seen(f)'
<1>1. SeenInOneSpan(f)'
  <2>1. SpanChecks' = SpanChecks
    BY DEF SpanChecks, Faulty
  <2> SUFFICES ASSUME f.check \in SpanChecks
               PROVE  \E k \in Faulty'[f.check] :
                        /\ f = Finding(f.check, f.check, {k}, None, "sufficient")
                        /\ Applies(f.check, k)'
    BY <2>1 DEF SeenInOneSpan, Finding
  <2>2. PICK k \in Faulty[f.check] :
          f = Finding(f.check, f.check, {k}, None, "sufficient") /\ Applies(f.check, k)
    BY DEF Seen, SeenInOneSpan
  <2>3. k \in DOMAIN spans
    BY <2>2, FaultyPositions
  <2> QED
    BY <2>2, <2>3, SameSpan
<1>2. SeenWithoutContext(f)'
  <2> SUFFICES ASSUME f.check = "missing_consumer_context"
               PROVE  \E k \in f.about : /\ k \in Consumers' /\ spans'[k].op = "process"
                                         /\ NoReferences(k)' /\ Applies(f.check, k)'
    BY DEF SeenWithoutContext
  <2>1. PICK k \in f.about : /\ k \in Consumers /\ spans[k].op = "process"
                             /\ NoReferences(k) /\ Applies(f.check, k)
    BY DEF Seen, SeenWithoutContext
  <2>2. k \in DOMAIN spans
    BY <2>1, ConsumersType
  <2> QED
    BY <2>1, <2>2, SameSpan DEF Extended
<1>3. SeenTogether(f)'
  <2> SUFFICES ASSUME f.check = "duplicate_processing"
               PROVE  \E i \in f.about, ks \in SUBSET Attempts' :
                        i \in ks /\ Together(ks)' /\ Cardinality(ks) > DuplicateThreshold
    BY DEF SeenTogether
  <2>1. PICK i \in f.about, ks \in SUBSET Attempts :
          i \in ks /\ Together(ks) /\ Cardinality(ks) > DuplicateThreshold
    BY DEF Seen, SeenTogether
  <2>2. Together(ks)'
    BY <2>1, TogetherGrows
  <2>3. ks \in SUBSET Attempts'
    BY <2>1, AttemptsGrow
  <2> QED
    BY <2>1, <2>2, <2>3
<1> QED
  BY <1>1, <1>2, <1>3 DEF Seen

(* And an audit that sees it reports it.                                   *)
Concludes(f, gs) ==
  \E g \in gs : /\ g.check = f.check /\ g.kind = f.kind
                /\ g.edge = f.edge /\ f.about \subseteq g.about

LEMMA ConcludedFrom ==
  ASSUME CorrelateInv, NEW f, NEW h \in AllFindings, h.check = f.check, h.kind = f.kind,
         h.edge = f.edge, f.about \subseteq h.about
  PROVE  Concludes(f, Reported)
<1>1. Sound(h)
  BY FindingsSound
<1>2. DegradedEvidence(h) \in Reported
  BY DEF Reported
<1> QED
  BY <1>1, <1>2, DegradedFields DEF Sound, Concludes

LEMMA AboutConcludes ==
  ASSUME CorrelateInv, NEW f, SelfNamed(f), NEW ks, NEW evidence, NEW k \in ks,
         f.about = {k}, Applies(f.check, k),
         About(f.check, ks, evidence) \subseteq AllFindings
  PROVE  Concludes(f, Reported)
<1> DEFINE h == Finding(f.check, f.check, {k}, None, evidence)
<1>1. h \in AllFindings
  BY AboutMember
<1>2. h.check = f.check /\ h.kind = f.check /\ h.about = {k} /\ h.edge = None
  BY FindingFields
<1> HIDE DEF h
<1> QED
  BY <1>1, <1>2, ConcludedFrom DEF SelfNamed

WithoutContextIn(f, gs) ==
  \E g \in gs :
    g.check = f.check /\ \E k \in f.about \cap g.about : stream[k].role = "consumer"

DuplicateIn(f, gs) ==
  \E g \in gs : \E i \in f.about, j \in g.about :
    /\ g.check = f.check
    /\ j \in AttemptWindow(i) /\ stream[j].start <= stream[i].start

Upheld(f, gs) ==
  /\ f.check \in SpanChecks => f \in gs
  /\ f.check = "missing_consumer_context" => WithoutContextIn(f, gs)
  /\ f.check = "duplicate_processing" => DuplicateIn(f, gs)

AllUpheld == \A f \in findings : Upheld(f, findings)

LEMMA Attempted ==
  ASSUME Windows, NEW ks, Together(ks), NEW i \in ks
  PROVE  i \in DOMAIN spans /\ ks \subseteq Succeeded(AttemptWindow(i))
BY AttemptsType DEF Together, Succeeded, AttemptWindow, AttemptsLike

LEMMA SeenIsReported ==
  ASSUME CorrelateInv, ReferencesInv, NEW f, Seen(f)
  PROVE  Upheld(f, Reported)
<1>0. Windows /\ WindowShape
  BY ShapeOfWindow DEF CorrelateInv
<1>1. ASSUME f.check \in SpanChecks PROVE f \in Reported
  <2>1. PICK k \in Faulty[f.check] :
          f = Finding(f.check, f.check, {k}, None, "sufficient") /\ Applies(f.check, k)
    BY <1>1 DEF Seen, SeenInOneSpan
  <2>2. f \in AllFindings
    BY <1>1, <2>1, AboutMember DEF AllFindings, FaultySpans
  <2>3. DegradedEvidence(f) = f
    BY <2>1, FindingFields DEF DegradedEvidence
  <2> QED
    BY <2>2, <2>3 DEF Reported
<1>2. ASSUME f.check = "missing_consumer_context" PROVE WithoutContextIn(f, Reported)
  <2> DEFINE name == "missing_consumer_context"
  <2>1. PICK k \in f.about : /\ k \in Consumers /\ spans[k].op = "process"
                             /\ NoReferences(k) /\ Applies(name, k)
    BY <1>2 DEF Seen, SeenWithoutContext
  <2> DEFINE h == Finding(name, name, {k} \cup Candidate(k), None, "sufficient")
  <2>2. k \in WithoutContext
    BY <2>1 DEF ReferencesInv, WithoutContext
  <2>3. h \in AllFindings
    BY <2>2 DEF AllFindings, MissingConsumerContext
  <2>4. h.check = name /\ k \in h.about /\ h.evidence = "sufficient"
    BY FindingFields
  <2>5. h \in Reported
    <3>1. DegradedEvidence(h) = h
      BY <2>4 DEF DegradedEvidence
    <3> QED
      BY <2>3, <3>1 DEF Reported
  <2>6. stream[k].role = "consumer"
    BY <1>0, <2>1, ConsumersType
       DEF WindowShape, Consumers, Correlate!Consumers, Correlate!Positions
  <2> HIDE DEF h
  <2> QED
    BY <1>2, <2>1, <2>4, <2>5, <2>6 DEF WithoutContextIn
<1>3. ASSUME f.check = "duplicate_processing" PROVE DuplicateIn(f, Reported)
  <2> DEFINE name == "duplicate_processing"
  <2>1. PICK i \in f.about, ks \in SUBSET Attempts :
          i \in ks /\ Together(ks) /\ Cardinality(ks) > DuplicateThreshold
    BY <1>3 DEF Seen, SeenTogether
  <2> DEFINE all == Succeeded(AttemptWindow(i))
             h == Finding(name, name, First(all), None, "sufficient")
  <2>2. ks \subseteq all /\ i \in all /\ i \in Attempts
    BY <1>0, <2>1, Attempted
  <2>3. all \subseteq DOMAIN spans /\ IsFiniteSet(all)
    <3>1. all \subseteq 1 .. Len(spans) /\ all \subseteq DOMAIN spans
      BY <1>0, AttemptPositions, WindowType
    <3> QED
      BY <1>0, <3>1, ProducersFinite
  <2>4. Cardinality(all) > DuplicateThreshold
    <3>1. /\ Cardinality(ks) <= Cardinality(all)
          /\ Cardinality(ks) \in Nat /\ Cardinality(all) \in Nat
      BY <2>2, <2>3, FS_Subset, FS_CardinalityType
    <3> QED
      BY <2>1, <3>1, RulesAssumption
  <2>5. h \in AllFindings
    BY <2>2, <2>4 DEF AllFindings, DuplicateProcessing
  <2>6. h.check = name /\ h.about = First(all) /\ h.evidence = "sufficient"
    BY FindingFields
  <2>7. h \in Reported
    <3>1. DegradedEvidence(h) = h
      BY <2>6 DEF DegradedEvidence
    <3> QED
      BY <2>5, <3>1 DEF Reported
  <2>8. PICK j : j \in First(all)
    BY <1>0, <2>2, <2>3, FirstExists
  <2>9. /\ j \in AttemptWindow(i) /\ j \in DOMAIN spans /\ i \in DOMAIN spans
        /\ spans[j].start <= spans[i].start
    <3>1. \A x \in all : j \in all /\ spans[j].start <= spans[x].start
      BY <2>8, FirstLeast
    <3>2. all \subseteq AttemptWindow(i)
      BY DEF Succeeded
    <3> HIDE DEF all
    <3> QED
      BY <2>2, <2>3, <2>8, <3>1, <3>2
  <2>10. stream[j].start <= stream[i].start
    BY <1>0, <2>9 DEF WindowShape
  <2> HIDE DEF h, all
  <2> QED
    BY <1>3, <2>1, <2>6, <2>7, <2>8, <2>9, <2>10 DEF DuplicateIn
<1> QED
  BY <1>1, <1>2, <1>3 DEF Upheld

(* What was reported is upheld by the report that says it.                 *)
LEMMA SeenUpholdsItself ==
  ASSUME Windows, NEW gs, NEW f \in gs, Seen(f)
  PROVE  Upheld(f, gs)
<1>0. WindowShape
  BY ShapeOfWindow
<1>1. ASSUME f.check = "missing_consumer_context" PROVE WithoutContextIn(f, gs)
  BY <1>0, <1>1, ConsumersType
     DEF Seen, SeenWithoutContext, WithoutContextIn, WindowShape, Consumers,
         Correlate!Consumers, Correlate!Positions
<1>2. ASSUME f.check = "duplicate_processing" PROVE DuplicateIn(f, gs)
  <2>1. PICK i \in f.about, ks \in SUBSET Attempts : i \in ks /\ Together(ks)
    BY <1>2 DEF Seen, SeenTogether
  <2>2. i \in AttemptWindow(i) /\ i \in DOMAIN spans
    BY <2>1, Attempted DEF Succeeded
  <2>3. stream[i].start \in Int
    BY <1>0, <2>2 DEF WindowShape
  <2>4. stream[i].start <= stream[i].start
    BY <2>3
  <2> QED
    BY <2>1, <2>2, <2>4 DEF DuplicateIn
<1> QED
  BY <1>1, <1>2 DEF Upheld

LEMMA ReportUpholdsItself == Windows /\ ObservedInv => AllUpheld
BY SeenUpholdsItself DEF ObservedInv, AllUpheld

LEMMA InitObserved == Init => ObservedInv
BY DEF Init, ObservedInv

LEMMA ObservedStep ==
  ASSUME Inv, ReferencesInv, ObservedInv, [Next]_vars
  PROVE  ObservedInv'
<1>0. Windows /\ Windows'
  BY WindowsStep DEF Inv, CorrelateInv
<1>1. CASE Judge
  <2>1. /\ findings' = Reported /\ phase = "done" /\ UNCHANGED <<stream, audit, corrVars>>
    BY <1>1 DEF Judge, Reported
  <2>2. Extended
    BY <2>1 DEF Extended, corrVars
  <2>3. \A f \in findings' : Seen(f)
    BY <2>1, ReportedSeen DEF Inv
  <2>4. \A f \in findings' : Seen(f)'
    BY <1>0, <2>2, <2>3, SeenGrows
  <2> QED
    BY <2>4 DEF ObservedInv
<1>2. CASE UNCHANGED <<findings, stream>> /\ Len(spans) <= Len(spans')
  <2>1. Extended
    BY <1>0, <1>2, WindowExtends
  <2>2. \A f \in findings : Seen(f)'
    BY <1>0, <2>1, SeenGrows DEF ObservedInv
  <2> QED
    BY <1>2, <2>2 DEF ObservedInv
<1>3. CASE UNCHANGED vars
  <2>1. Len(spans) \in Nat
    BY <1>0, WindowType
  <2> QED
    BY <1>2, <1>3, <2>1 DEF vars, corrVars
<1> QED
  BY <1>1, <1>2, <1>3, ReportSteps

(* What observed spans prove, later audits of the stream report again: the *)
(* same fault, a finding about the same consumer, or one about an attempt  *)
(* of the same window that starts no later.                                *)
THEOREM ObservedFindingsStand == Spec => ObservedStands
<1> DEFINE Kept ==
      \A f \in findings :
        /\ f.check \in SpanChecks => f \in findings'
        /\ f.check = "missing_consumer_context" => StillWithoutContext(f)
        /\ f.check = "duplicate_processing" => StillDuplicate(f)
<1>1. ASSUME Inv, ReferencesInv, ObservedInv, ObservedInv', [Next]_vars
      PROVE  [Kept]_vars
  <2> SUFFICES ASSUME NEW f \in findings
               PROVE  /\ f.check \in SpanChecks => f \in findings'
                      /\ f.check = "missing_consumer_context" => StillWithoutContext(f)
                      /\ f.check = "duplicate_processing" => StillDuplicate(f)
    OBVIOUS
  <2>0. UNCHANGED stream
    BY <1>1, ReportSteps DEF Judge, vars
  <2>1. CASE Judge
    <3>1. findings' = Reported /\ spans' = spans
      BY <2>1 DEF Judge, Reported, corrVars
    <3>2. Upheld(f, Reported)
      BY <1>1, SeenIsReported DEF Inv, ObservedInv
    <3>3. \A i : AttemptWindow(i)' = AttemptWindow(i)
      BY <3>1 DEF AttemptWindow, AttemptsLike, Attempts, Follows, Repeated, MessageKey,
         Consumers, Correlate!Consumers, Correlate!Positions, Applies, Checks
    <3> QED
      BY <3>1, <3>2, <3>3
         DEF Upheld, WithoutContextIn, DuplicateIn, StillWithoutContext, StillDuplicate
  <2>2. CASE findings' = findings
    <3>1. Windows'
      BY <1>1, WindowsStep DEF Inv, CorrelateInv
    <3>2. AllUpheld'
      BY <1>1, <3>1, ReportUpholdsItself, PTL
    <3> QED
      BY <2>0, <2>2, <3>2
         DEF AllUpheld, Upheld, WithoutContextIn, DuplicateIn, StillWithoutContext,
             StillDuplicate
  <2> QED
    BY <1>1, <2>1, <2>2, ReportSteps DEF vars
<1>2. Inv /\ ReferencesInv /\ [Next]_vars => ReferencesInv'
  BY ReferencesInvStep DEF Inv
<1>3. Inv /\ ReferencesInv /\ ObservedInv /\ [Next]_vars => ObservedInv'
  BY ObservedStep
<1> QED
  BY Invariance, InitReferences, InitObserved, <1>1, <1>2, <1>3, PTL
     DEF Spec, ObservedStands

----------------------------------------------------------------------------
(* A consumer that is an orphan *)

(* A live audit correlates what has arrived, a prefix of an input; what is *)
(* proved of Correlate for any windows holds for these.                    *)
Prefixes == UNION {{SubSeq(w, 1, n) : n \in 0 .. Len(w)} : w \in Inputs}

Corr == INSTANCE CorrelationProofs WITH Inputs <- Prefixes

LEMMA SameNext == Correlate!Next <=> Corr!Next
BY DEF Corr!Positions, Correlate!Positions, Corr!Producers,
   Correlate!Producers, Corr!Consumers, Correlate!Consumers, Corr!c,
   Correlate!c, Corr!Limit, Correlate!Limit, Corr!Saturated,
   Correlate!Saturated, Corr!Delta, Correlate!Delta, Corr!OptionalEqual,
   Correlate!OptionalEqual, Corr!StrongScopeCompatible,
   Correlate!StrongScopeCompatible, Corr!ScopeCompatible,
   Correlate!ScopeCompatible, Corr!Under, Correlate!Under,
   Corr!DestinationCompatible, Correlate!DestinationCompatible,
   Corr!Compatible, Correlate!Compatible, Corr!RouteLookupKey,
   Correlate!RouteLookupKey, Corr!ProducersByRoute,
   Correlate!ProducersByRoute, Corr!ProducersByContext,
   Correlate!ProducersByContext, Corr!ByLink, Correlate!ByLink, Corr!Links,
   Correlate!Links, Corr!Linked, Correlate!Linked, Corr!UnresolvedLinks,
   Correlate!UnresolvedLinks, Corr!ParentOf, Correlate!ParentOf,
   Corr!MessageCandidates, Correlate!MessageCandidates, Corr!Before,
   Correlate!Before, Corr!EndsBefore, Correlate!EndsBefore,
   Corr!SortedRoutes, Correlate!SortedRoutes, Corr!Upcoming,
   Correlate!Upcoming, Corr!NextConsumer, Correlate!NextConsumer,
   Corr!Finish, Correlate!Finish, Corr!Add, Correlate!Add,
   Corr!CountReferences, Correlate!CountReferences, Corr!CorrelateLinks,
   Correlate!CorrelateLinks, Corr!CorrelateParent,
   Correlate!CorrelateParent, Corr!NoContext, Correlate!NoContext,
   Corr!ContextCounted, Correlate!ContextCounted, Corr!CorrelateMessage,
   Correlate!CorrelateMessage, Corr!SearchRoute, Correlate!SearchRoute,
   Corr!LoopOn, Correlate!LoopOn, Corr!LeftDelta, Correlate!LeftDelta,
   Corr!RightDelta, Correlate!RightDelta, Corr!ChooseLeft,
   Correlate!ChooseLeft, Corr!Chosen, Correlate!Chosen, Corr!Distance,
   Correlate!Distance, Corr!Acceptable, Correlate!Acceptable,
   Corr!AdvancePointers, Correlate!AdvancePointers, Corr!OutOfRange,
   Correlate!OutOfRange, Corr!Accept, Correlate!Accept, Corr!PassOver,
   Correlate!PassOver, Corr!CorrelateRoute, Correlate!CorrelateRoute,
   Corr!Next, Correlate!Next, Corr!mergeVars, Correlate!mergeVars,
   Corr!Cardinality, Correlate!Cardinality

LEMMA PrefixesAssumed == Corr!CorrelationAssumption
<1>1. /\ Window \in Nat /\ MaxDuration \in Nat /\ Window < MaxDuration
  BY RulesAssumption DEF Correlate!CorrelationAssumption
<1>2. \A S : Corr!IsFiniteSet(S) <=> Correlate!IsFiniteSet(S)
  BY DEF Corr!IsFiniteSet, Correlate!IsFiniteSet
<1>3. ASSUME NEW p \in Prefixes
      PROVE  /\ Len(p) \in Nat
             /\ \A k \in 1 .. Len(p) :
                  /\ p[k].role \in {"producer", "consumer", "other"}
                  /\ p[k].start \in Int /\ p[k].end \in Int /\ p[k].count \in Int
                  /\ p[k].dest \in Seq(STRING) /\ Corr!IsFiniteSet(DOMAIN p[k].links)
  <2>1. PICK w \in Inputs : \E n \in 0 .. Len(w) : p = SubSeq(w, 1, n)
    BY <1>3 DEF Prefixes
  <2>2. PICK n \in 0 .. Len(w) : p = SubSeq(w, 1, n)
    BY <2>1
  <2>3. w \in Seq(Range(w)) /\ Len(w) \in Nat
    BY StreamType
  <2>4. Len(p) = n /\ n \in Nat /\ \A k \in 1 .. n : p[k] = w[k] /\ k \in 1 .. Len(w)
    BY <2>2, <2>3
  <2> QED
    BY <1>2, <2>4, RulesAssumption DEF Correlate!CorrelationAssumption
<1> QED
  BY <1>1, <1>3 DEF Corr!CorrelationAssumption

(* The invariants of Correlate, and that the search of a route is entered  *)
(* only when no message matched.                                           *)
Searching == phase = "merge" => Corr!MessageCandidates = {}

Walking == Corr!IInv /\ Corr!Walk /\ Searching

LEMMA CorrInit == Corr!Init => Walking
<1>1. Corr!Init => Corr!IInv
  BY Corr!InitInv, PrefixesAssumed
<1> QED
  BY <1>1 DEF Walking, Searching, Corr!Walk, Corr!Init

LEMMA SameCandidates ==
  ASSUME UNCHANGED <<spans, ci>>
  PROVE  Corr!MessageCandidates' = Corr!MessageCandidates
BY DEF Corr!MessageCandidates, Corr!ProducersByRoute, Corr!Producers, Corr!Positions,
   Corr!c, Corr!RouteLookupKey, Corr!Compatible, Corr!DestinationCompatible,
   Corr!ScopeCompatible, Corr!OptionalEqual, Corr!Under, Corr!Delta, Corr!Saturated

LEMMA SearchingStep == Searching /\ [Corr!Next]_(Corr!vars) => Searching'
<1> SUFFICES ASSUME Searching, [Corr!Next]_(Corr!vars), phase' = "merge"
             PROVE  Corr!MessageCandidates' = {}
  BY DEF Searching
<1>1. CASE Corr!SearchRoute
  BY <1>1, SameCandidates DEF Corr!SearchRoute
<1>2. CASE Corr!Accept \/ Corr!PassOver \/ UNCHANGED Corr!vars
  <2>1. UNCHANGED <<spans, ci, phase>>
    BY <1>2 DEF Corr!Accept, Corr!PassOver, Corr!vars
  <2> QED
    BY <2>1, SameCandidates DEF Searching
<1> QED
  BY <1>1, <1>2
     DEF Corr!Next, Corr!NextConsumer, Corr!Finish, Corr!CorrelateLinks,
         Corr!CorrelateParent, Corr!CorrelateMessage, Corr!OutOfRange, Corr!CorrelateRoute

LEMMA CorrStep == Walking /\ [Corr!Next]_(Corr!vars) => Walking'
<1>1. Corr!IInv /\ [Corr!Next]_(Corr!vars) => Corr!IInv'
  BY Corr!InvStep, PrefixesAssumed
<1>2. Corr!IInv /\ Corr!Walk /\ [Corr!Next]_(Corr!vars) => Corr!Walk'
  BY Corr!WalkStep, PrefixesAssumed
<1> QED
  BY <1>1, <1>2, SearchingStep DEF Walking

(* A window begins as Correlate does.                                      *)
LEMMA BeginsAsCorrelate ==
  ASSUME Windows, phase = "consumer", ci = 0, route = <<>>, left = 0, right = 0,
         out = <<>>, correlations = {}, references = Uncounted(spans),
         unresolved = Uncounted(spans)
  PROVE  Corr!Init
<1>1. spans \in Prefixes
  BY DEF Windows, Received, Prefixes
<1>2. Uncounted(spans) = [k \in Corr!Consumers |-> 0]
  BY WindowType DEF Uncounted, Corr!Consumers, Corr!Positions
<1> QED
  BY <1>1, <1>2 DEF Corr!Init

BeginsNow ==
  /\ Windows /\ phase = "consumer" /\ ci = 0 /\ route = <<>> /\ left = 0 /\ right = 0
  /\ out = <<>> /\ correlations = {} /\ references = Uncounted(spans)
  /\ unresolved = Uncounted(spans)

LEMMA BeginsWalking == BeginsNow => Walking
BY BeginsAsCorrelate, CorrInit DEF BeginsNow

LEMMA InitWalking == Init => Walking
BY InitWindows, BeginsWalking DEF Init, BeginsNow

LEMMA WalkingStep == Windows /\ Walking /\ [Next]_vars => Walking'
<1> SUFFICES ASSUME Windows, Walking, [Next]_vars PROVE Walking'
  OBVIOUS
<1>1. CASE CorrelateStep
  BY <1>1, SameNext, CorrStep DEF CorrelateStep
<1>2. CASE Judge \/ UNCHANGED vars
  <2>1. UNCHANGED Corr!vars
    BY <1>2 DEF Judge, vars, corrVars, Corr!vars
  <2> QED
    BY <2>1, CorrStep
<1>3. CASE NextWindow
  <2>1. Windows'
    BY WindowsStep
  <2>2. BeginsNow'
    BY <1>3, <2>1 DEF NextWindow, BeginsNow
  <2>3. BeginsNow' => Walking'
    BY BeginsWalking, PTL
  <2> QED
    BY <2>2, <2>3
<1> QED
  BY <1>1, <1>2, <1>3 DEF Next

(* That producer p could be correlated with consumer k by what the spans   *)
(* say of the message or of the route, and by the time between them.       *)
Apart(p, k) ==
  IF spans[p].end < spans[k].start THEN spans[k].start - spans[p].end
  ELSE spans[p].end - spans[k].start

DestinationsAgree(p, k) ==
  /\ p.dest # <<>> /\ k.dest # <<>>
  /\ IF p.system = "rabbitmq"
     THEN p.dest = k.dest \/ Correlate!Under(k.dest, p.dest) \/ Correlate!Under(p.dest, k.dest)
     ELSE p.dest = k.dest /\ Correlate!OptionalEqual(p.partition, k.partition)

Agree(p, k) ==
  /\ p.system # None /\ p.system = k.system
  /\ DestinationsAgree(p, k)
  /\ \A f \in Strong \cup Weak : Correlate!OptionalEqual(p.scope[f], k.scope[f])

SameMessage(p, k) ==
  /\ k.message # None /\ p.message = k.message
  /\ Correlate!RouteLookupKey(k) # <<>>
  /\ Correlate!RouteLookupKey(p) = Correlate!RouteLookupKey(k)

Could(p, k) ==
  /\ Agree(spans[p], spans[k]) /\ Apart(p, k) <= Window
  /\ spans[p].start <= spans[k].start \/ SameMessage(spans[p], spans[k])

(* For the consumer whose turn it is these are the candidates of Correlate. *)
LEMMA CandidatesAre ==
  ASSUME Windows, Walking, ci \in Consumers, InRange, NEW p \in Producers
  PROVE  /\ Corr!InRange
         /\ Could(p, ci) <=> p \in Corr!MessageCandidates \cup Corr!Eligible
<1>1. /\ WindowShape /\ DOMAIN spans \subseteq DOMAIN stream /\ ci \in DOMAIN spans
      /\ Corr!Producers = Producers /\ Corr!Consumers = Consumers
      /\ Producers \subseteq DOMAIN spans
  <2>1. WindowShape
    BY ShapeOfWindow
  <2>2. DOMAIN spans \subseteq DOMAIN stream
    BY WindowType
  <2> QED
    BY <2>1, <2>2, ConsumersType
       DEF Corr!Producers, Producers, Correlate!Producers, Corr!Consumers, Consumers,
           Correlate!Consumers, Corr!Positions, Correlate!Positions
<1>2. \A q \in Producers : Corr!Gap(q) = Apart(q, ci)
  BY DEF Corr!Gap, Apart, Corr!c
<1>3. MaxDuration \in Nat
  BY RulesAssumption DEF Correlate!CorrelationAssumption
<1>4. Corr!InRange
  <2> SUFFICES ASSUME NEW q \in Producers PROVE Apart(q, ci) < MaxDuration
    BY <1>1, <1>2 DEF Corr!InRange
  <2>1. /\ spans[q] = stream[q] /\ spans[ci] = stream[ci]
        /\ q \in DOMAIN stream /\ ci \in DOMAIN stream
        /\ spans[q].end \in Int /\ spans[ci].start \in Int
    BY <1>1 DEF WindowShape
  <2>2. spans[q].end - spans[ci].start \in (1 - MaxDuration) .. (MaxDuration - 1)
    BY <2>1 DEF InRange
  <2> QED
    BY <1>3, <2>1, <2>2 DEF Apart
<1>5. Corr!Delta(spans[p]) = Apart(p, ci)
  <2>1. Corr!Fixed
    BY DEF Walking, Corr!IInv
  <2> QED
    BY <1>1, <1>2, <1>4, <2>1, Corr!DeltaIsGap, PrefixesAssumed
<1>6. Corr!Compatible(spans[p]) <=> Agree(spans[p], spans[ci])
  BY DEF Corr!Compatible, Corr!DestinationCompatible, Corr!ScopeCompatible,
         Corr!OptionalEqual, Corr!Under, Corr!c, Agree, DestinationsAgree,
         Correlate!OptionalEqual, Correlate!Under
<1>7. p \in Corr!Eligible <=> /\ Agree(spans[p], spans[ci]) /\ Apart(p, ci) <= Window
                              /\ spans[p].start <= spans[ci].start
  BY <1>1, <1>2, <1>6 DEF Corr!Eligible, Corr!c
<1>8. p \in Corr!MessageCandidates <=>
        /\ Agree(spans[p], spans[ci]) /\ Apart(p, ci) <= Window
        /\ SameMessage(spans[p], spans[ci])
  <2>1. \A x : Corr!RouteLookupKey(x) = Correlate!RouteLookupKey(x)
    BY DEF Corr!RouteLookupKey, Correlate!RouteLookupKey
  <2> QED
    BY <1>1, <1>5, <1>6, <2>1
       DEF Corr!MessageCandidates, Corr!ProducersByRoute, Corr!c, SameMessage
<1> QED
  BY <1>4, <1>7, <1>8 DEF Could

(* A consumer that holds no reference and whose turn is over is correlated *)
(* if and only if some producer could be correlated with it.               *)
Settled(k) == k < ci \/ (k = ci /\ phase \in {"consumer", "done"})

Matchable(k) == \E p \in Producers : Could(p, k)

SettledInv ==
  InRange => \A k \in Consumers :
               Settled(k) /\ NoReferences(k) => (k \in ConsumerMatched <=> Matchable(k))

LEMMA SameMatchable ==
  ASSUME UNCHANGED spans
  PROVE  /\ Consumers' = Consumers /\ Producers' = Producers
         /\ \A k : Matchable(k)' <=> Matchable(k)
         /\ \A k : NoReferences(k)' <=> NoReferences(k)
<1>1. Consumers' = Consumers /\ Producers' = Producers
  BY DEF Consumers, Producers, Correlate!Consumers, Correlate!Producers, Correlate!Positions
<1>2. \A p, k : Could(p, k)' <=> Could(p, k)
  BY DEF Could, Agree, DestinationsAgree, SameMessage, Apart, Correlate!Under,
         Correlate!OptionalEqual, Correlate!RouteLookupKey
<1>3. \A k : NoReferences(k)' <=> NoReferences(k)
  BY DEF NoReferences
<1> QED
  BY <1>1, <1>2, <1>3 DEF Matchable

(* The turn of a consumer ends; the others are as they were.               *)
LEMMA SettledTurn ==
  ASSUME CorrelateInv, SettledInv, UNCHANGED <<stream, spans, ci>>, ci \in Consumers,
         phase \in {"evidence", "merge"}, phase' = "consumer", NEW ps, NEW method,
         Correlate!Add(ps, method),
         InRange /\ NoReferences(ci) => (ci \in ConsumerMatched' <=> Matchable(ci))
  PROVE  SettledInv'
<1>1. InRange' <=> InRange
  BY DEF InRange
<1>2. \A k \in Consumers : k # ci => (k \in ConsumerMatched' <=> k \in ConsumerMatched)
  <2>1. correlations' = correlations \cup
          {[producer |-> p, consumer |-> ci, method |-> method] : p \in ps}
    BY DEF Correlate!Add
  <2> QED
    BY <2>1 DEF ConsumerMatched
<1>3. \A k \in Consumers : Settled(k)' => Settled(k) \/ k = ci
  BY DEF Settled
<1> QED
  BY <1>1, <1>2, <1>3, SameMatchable DEF SettledInv

(* A step in which no consumer's turn ends.                                *)
LEMMA SettledKept ==
  ASSUME SettledInv, UNCHANGED <<stream, spans, correlations>>,
         \A k \in Consumers : Settled(k)' => Settled(k)
  PROVE  SettledInv'
<1>1. InRange' <=> InRange
  BY DEF InRange
<1>2. ConsumerMatched' = ConsumerMatched
  BY DEF ConsumerMatched
<1> QED
  BY <1>1, <1>2, SameMatchable DEF SettledInv

(* The search of a route correlates its consumer if it can be correlated.  *)
LEMMA RouteDecides ==
  ASSUME Windows, Walking, CorrelateInv, ci \in Consumers, InRange, Corr!CorrelateRoute
  PROVE  ci \in ConsumerMatched' <=> Matchable(ci)
<1>1. /\ phase = "merge"
      /\ Corr!MessageCandidates = {} /\ Corr!Found = {out[k] : k \in DOMAIN out}
      /\ correlations' = correlations \cup
           {[producer |-> p, consumer |-> ci, method |-> "time_window_heuristic"] :
              p \in Corr!Found}
  BY DEF Corr!CorrelateRoute, Corr!Add, Walking, Searching, Corr!Found
<1>2. ci \notin ConsumerMatched
  <2>1. \A x \in correlations : x.consumer < ci
    BY <1>1 DEF Walking, Corr!IInv, Corr!InTurn
  <2>2. ci \in Nat
    BY ConsumersType
  <2> QED
    BY <2>1, <2>2 DEF ConsumerMatched
<1>3. ci \in ConsumerMatched' <=> Corr!Found # {}
  <2> DEFINE Pair(p) == [producer |-> p, consumer |-> ci, method |-> "time_window_heuristic"]
  <2>1. \A p : Pair(p).consumer = ci
    OBVIOUS
  <2>2. correlations' = correlations \cup {Pair(p) : p \in Corr!Found}
    BY <1>1
  <2> HIDE DEF Pair
  <2>3. ASSUME NEW p \in Corr!Found PROVE ci \in ConsumerMatched'
    <3>1. Pair(p) \in correlations' /\ Pair(p).consumer = ci
      BY <2>1, <2>2
    <3> QED
      BY <3>1 DEF ConsumerMatched
  <2>4. Corr!Found = {} => correlations' = correlations
    BY <2>2
  <2> QED
    BY <1>2, <2>3, <2>4 DEF ConsumerMatched
<1>4. Corr!Producers = Producers
  BY DEF Corr!Producers, Producers, Correlate!Producers, Corr!Positions, Correlate!Positions
<1>5. Matchable(ci) <=> Corr!Eligible # {}
  <2>1. \A p \in Producers : Could(p, ci) <=> p \in Corr!Eligible
    BY <1>1, CandidatesAre
  <2>2. Corr!Eligible \subseteq Producers
    BY <1>4 DEF Corr!Eligible
  <2> QED
    BY <2>1, <2>2 DEF Matchable
<1>6. Corr!Found = {} <=> Corr!Eligible = {}
  <2>1. \/ Producers = {}
        \/ Corr!InRange
    BY CandidatesAre
  <2>2. Corr!InRange
    BY <1>4, <2>1 DEF Corr!InRange
  <2>3. /\ Corr!Found \subseteq Corr!Eligible
        /\ \/ Corr!Cardinality(Corr!Found) = Corr!Limit
           \/ Corr!Found = Corr!Eligible
    BY <2>2, Corr!WalkEnds, PrefixesAssumed DEF Walking
  <2>4. Corr!Cardinality({}) = 0
    BY FS_EmptySet, SameCardinality DEF Corr!Cardinality, Correlate!Cardinality
  <2>5. Corr!Limit # 0
    <3>1. ci \in DOMAIN stream /\ spans[ci] = stream[ci] /\ stream \in Inputs
      BY WindowType, ConsumersType DEF Windows
    <3>2. spans[ci].count \in Int
      BY <3>1, WindowType, RulesAssumption DEF Correlate!CorrelationAssumption
    <3> QED
      BY <3>2 DEF Corr!Limit, Corr!c
  <2> QED
    BY <2>3, <2>4, <2>5
<1> QED
  BY <1>3, <1>5, <1>6

LEMMA SettledStep ==
  ASSUME CorrelateInv, ReferencesInv, Walking, SettledInv, Correlate!Next, UNCHANGED stream
  PROVE  SettledInv'
<1>0. Windows /\ UNCHANGED spans
  BY CorrelateKeepsSpans DEF CorrelateInv
<1>1. CASE Correlate!NextConsumer
  <2>1. /\ ci' \in Consumers /\ phase = "consumer" /\ phase' = "evidence"
        /\ \A k \in Consumers : k > ci => ci' <= k
        /\ UNCHANGED correlations
    BY <1>1 DEF Correlate!NextConsumer, Correlate!Upcoming, Consumers
  <2>2. Consumers \subseteq Nat /\ ci \in Nat
    BY <1>0, ConsumersType DEF ReferencesInv
  <2>3. \A k \in Consumers : Settled(k)' => Settled(k)
    BY <2>1, <2>2 DEF Settled
  <2> QED
    BY <1>0, <2>1, <2>3, SettledKept
<1>2. CASE Correlate!Finish
  <2>1. /\ phase = "consumer" /\ UNCHANGED <<ci, correlations>>
    BY <1>2 DEF Correlate!Finish
  <2>2. \A k \in Consumers : Settled(k)' => Settled(k)
    BY <2>1 DEF Settled
  <2> QED
    BY <1>0, <2>1, <2>2, SettledKept
<1>3. CASE \/ Correlate!SearchRoute \/ Correlate!OutOfRange
           \/ Correlate!Accept \/ Correlate!PassOver
  <2>1. phase' \in {"merge", "panic"} /\ UNCHANGED <<ci, correlations>>
    BY <1>3
       DEF Correlate!SearchRoute, Correlate!OutOfRange, Correlate!Accept,
           Correlate!PassOver, Correlate!LoopOn
  <2>2. \A k \in Consumers : Settled(k)' => Settled(k)
    BY <2>1 DEF Settled
  <2> QED
    BY <1>0, <2>1, <2>2, SettledKept
<1>4. CASE Correlate!CorrelateLinks \/ Correlate!CorrelateParent
  <2>1. PICK ps, method : Correlate!Add(ps, method)
    BY <1>4 DEF Correlate!CorrelateLinks, Correlate!CorrelateParent
  <2>2. phase = "evidence" /\ phase' = "consumer" /\ UNCHANGED ci
    BY <1>4 DEF Correlate!CorrelateLinks, Correlate!CorrelateParent
  <2>3. ~NoReferences(ci)
    BY <1>4
       DEF Correlate!CorrelateLinks, Correlate!CorrelateParent, Correlate!Linked,
           Correlate!Links, Correlate!ParentOf, Correlate!c, NoReferences
  <2>4. ci \in Consumers
    BY <2>2 DEF CorrelateInv, PairsInv
  <2> QED
    BY <1>0, <2>1, <2>2, <2>3, <2>4, SettledTurn
<1>5. CASE Correlate!CorrelateMessage
  <2>1. phase = "evidence" /\ phase' = "consumer" /\ UNCHANGED ci
    BY <1>5 DEF Correlate!CorrelateMessage, Correlate!NoContext
  <2>2. ci \in Consumers
    BY <2>1 DEF CorrelateInv, PairsInv
  <2>3. PICK p \in Correlate!MessageCandidates : Correlate!Add({p}, "messaging_attributes")
    BY <1>5 DEF Correlate!CorrelateMessage
  <2>4. p \in Producers /\ p \in Corr!MessageCandidates
    <3>1. Correlate!MessageCandidates = Corr!MessageCandidates
      BY DEF Corr!MessageCandidates, Correlate!MessageCandidates, Corr!ProducersByRoute,
             Correlate!ProducersByRoute, Corr!Producers, Correlate!Producers,
             Corr!Positions, Correlate!Positions, Corr!c, Correlate!c,
             Corr!RouteLookupKey, Correlate!RouteLookupKey, Corr!Compatible,
             Correlate!Compatible, Corr!DestinationCompatible,
             Correlate!DestinationCompatible, Corr!ScopeCompatible,
             Correlate!ScopeCompatible, Corr!OptionalEqual, Correlate!OptionalEqual,
             Corr!Under, Correlate!Under, Corr!Delta, Correlate!Delta,
             Corr!Saturated, Correlate!Saturated
    <3> QED
      BY <2>3, <3>1, EvidenceType
  <2>5. ci \in ConsumerMatched'
    BY <2>3, <2>2, <2>4, AddedPairs DEF CorrelateInv, ConsumerMatched
  <2>6. InRange => Matchable(ci)
    BY <1>0, <2>2, <2>4, CandidatesAre DEF Matchable
  <2> QED
    BY <1>0, <2>1, <2>2, <2>3, <2>5, <2>6, SettledTurn
<1>6. CASE Correlate!CorrelateRoute
  <2>1. /\ phase = "merge" /\ phase' = "consumer" /\ UNCHANGED ci
        /\ Correlate!Add({out[k] : k \in DOMAIN out}, "time_window_heuristic")
    BY <1>6 DEF Correlate!CorrelateRoute
  <2>2. ci \in Consumers
    BY <2>1 DEF CorrelateInv, PairsInv
  <2>3. Corr!CorrelateRoute
    BY <1>6
       DEF Corr!CorrelateRoute, Correlate!CorrelateRoute, Corr!LoopOn, Correlate!LoopOn,
           Corr!Limit, Correlate!Limit, Corr!c, Correlate!c, Corr!Chosen,
           Correlate!Chosen, Corr!ChooseLeft, Correlate!ChooseLeft, Corr!LeftDelta,
           Correlate!LeftDelta, Corr!RightDelta, Correlate!RightDelta, Corr!Distance,
           Correlate!Distance, Corr!Delta, Correlate!Delta, Corr!Saturated,
           Correlate!Saturated, Corr!Add, Correlate!Add
  <2>4. InRange => (ci \in ConsumerMatched' <=> Matchable(ci))
    BY <1>0, <2>2, <2>3, RouteDecides
  <2> QED
    BY <1>0, <2>1, <2>2, <2>4, SettledTurn
<1> QED
  BY <1>1, <1>2, <1>3, <1>4, <1>5, <1>6 DEF Correlate!Next

LEMMA InitSettled == Init => SettledInv
<1> SUFFICES ASSUME Init, NEW k \in Consumers PROVE ~Settled(k)
  BY DEF SettledInv
<1>1. k \in Nat \ {0} /\ ~(k < 0)
  BY InitWindows, ConsumersType
<1> QED
  BY <1>1 DEF Settled, Init

LEMMA SettledInvStep ==
  CorrelateInv /\ ReferencesInv /\ Walking /\ SettledInv /\ [Next]_vars => SettledInv'
<1> SUFFICES ASSUME CorrelateInv, ReferencesInv, Walking, SettledInv, [Next]_vars
             PROVE  SettledInv'
  OBVIOUS
<1>1. CASE CorrelateStep
  BY <1>1, SettledStep DEF CorrelateStep
<1>2. CASE Judge \/ UNCHANGED vars
  <2>1. UNCHANGED <<stream, spans, correlations, ci, phase>>
    BY <1>2 DEF Judge, vars, corrVars
  <2> QED
    BY <2>1, SettledKept DEF Settled
<1>3. CASE NextWindow
  <2>1. ci' = 0
    BY <1>3 DEF NextWindow
  <2>2. Consumers' \subseteq Nat \ {0}
    <3>1. Windows'
      BY WindowsStep DEF CorrelateInv
    <3>2. WindowShape'
      BY <3>1, ShapeOfWindow, PTL
    <3> QED
      BY <3>2 DEF WindowShape, Consumers, Correlate!Consumers, Correlate!Positions
  <2> QED
    BY <2>1, <2>2 DEF SettledInv, Settled
<1> QED
  BY <1>1, <1>2, <1>3 DEF Next

(* What an orphan rests on: nothing in the window could be correlated with *)
(* it, and when spans arrive in order nothing that comes later could.      *)
Ordered == WellFormed /\ InOrder /\ InRange

PassedBy(k) == \E j \in DOMAIN spans : spans[j].end >= spans[k].end + Window

SeenAlone(f) ==
  f.check = "orphan_consumer" =>
    /\ SelfNamed(f)
    /\ \E k \in Consumers :
         /\ f.about = {k} /\ Applies(f.check, k) /\ NoReferences(k)
         /\ Ordered => ~Matchable(k) /\ (audit.finalized \/ PassedBy(k))

OrphansInv == \A f \in findings : SeenAlone(f)

(* In order, the watermark is the end of the last span.                    *)
LEMMA WatermarkIsLast ==
  ASSUME Windows, InOrder, DOMAIN spans # {}
  PROVE  /\ Len(spans) \in DOMAIN spans
         /\ EventWatermark = spans[Len(spans)].end
         /\ \A j \in DOMAIN spans : spans[j].end <= EventWatermark
<1>1. /\ WindowShape /\ Len(spans) \in DOMAIN spans
      /\ DOMAIN spans \subseteq DOMAIN stream
  BY ShapeOfWindow, WindowType DEF WindowShape
<1> DEFINE ends == {spans[k].end : k \in DOMAIN spans}
           last == spans[Len(spans)].end
<1>2. \A k \in DOMAIN spans : spans[k].end \in Int /\ spans[k].end <= last
  BY <1>1 DEF WindowShape, InOrder
<1>3. last \in ends /\ \A x \in ends : x \in Int /\ last >= x
  BY <1>1, <1>2
<1>4. Max(ends) \in ends /\ \A x \in ends : Max(ends) >= x
  <2> HIDE DEF ends, last
  <2> QED
    BY <1>3 DEF Max
<1>5. Max(ends) = last
  <2> HIDE DEF ends, last
  <2> QED
    BY <1>3, <1>4
<1> QED
  BY <1>1, <1>2, <1>5 DEF EventWatermark

LEMMA ClosedIs ==
  ASSUME Windows, InOrder, NEW k \in DOMAIN spans
  PROVE  WindowClosed(k) <=> audit.finalized \/ PassedBy(k)
<1>1. WindowShape
  BY ShapeOfWindow
<1>2. /\ Len(spans) \in DOMAIN spans
      /\ EventWatermark = spans[Len(spans)].end
      /\ \A j \in DOMAIN spans : spans[j].end <= EventWatermark
  BY WatermarkIsLast
<1>3. Window \in Nat
  BY RulesAssumption DEF Correlate!CorrelationAssumption
<1>4. EventWatermark >= spans[k].end + Window <=> PassedBy(k)
  BY <1>1, <1>2, <1>3 DEF PassedBy, WindowShape
<1> QED
  BY <1>4 DEF WindowClosed

(* Nothing that comes later could be correlated with what was passed by.   *)
LEMMA PassedForEver ==
  ASSUME Windows, Windows', Extended, UNCHANGED stream, Ordered,
         NEW k \in Consumers, PassedBy(k), ~Matchable(k)
  PROVE  ~Matchable(k)' /\ PassedBy(k)'
<1>1. WindowShape /\ WindowShape' /\ Consumers \subseteq DOMAIN spans
  BY ShapeOfWindow, ConsumersType, PTL
<1>2. k \in DOMAIN spans /\ spans'[k] = spans[k]
  BY <1>1 DEF Extended
<1>3. PICK j \in DOMAIN spans : spans[j].end >= spans[k].end + Window
  BY DEF PassedBy
<1>4. PassedBy(k)'
  BY <1>2, <1>3 DEF PassedBy, Extended
<1>5. ASSUME NEW p \in Producers', Could(p, k)' PROVE FALSE
  <2>1. p \in DOMAIN spans'
    BY <1>1, <1>5 DEF WindowShape, Producers, Correlate!Producers, Correlate!Positions
  <2>2. CASE p \in DOMAIN spans
    <3>1. p \in Producers
      BY <1>5, <2>2, SameSpan
    <3>2. Could(p, k)
      BY <1>2, <1>5, <2>2 DEF Extended, Could, Apart
    <3> QED
      BY <3>1, <3>2 DEF Matchable
  <2>3. CASE p \notin DOMAIN spans
    <3>1. j < p
      BY <1>1, <2>1, <2>3 DEF WindowShape
    <3>2. /\ p \in DOMAIN stream /\ j \in DOMAIN stream /\ k \in DOMAIN stream
          /\ spans'[p] = stream[p] /\ spans[j] = stream[j] /\ spans[k] = stream[k]
      <4>1. DOMAIN spans \subseteq DOMAIN stream
        BY WindowType
      <4>2. p \in DOMAIN stream
        <5>1. PICK n \in 0 .. Len(stream) : spans' = Received(n)
          BY DEF Windows, Received
        <5>2. stream \in Inputs
          BY DEF Windows
        <5> QED
          BY <2>1, <5>1, <5>2, PrefixType, StreamType
      <4> QED
        BY <1>1, <1>2, <2>1, <4>1, <4>2 DEF WindowShape
    <3>3. stream[j].end < stream[p].end /\ stream[k].start <= stream[k].end
      BY <3>1, <3>2 DEF Ordered, InOrder, WellFormed
    <3>4. /\ stream[p].end \in Int /\ stream[j].end \in Int
          /\ stream[k].end \in Int /\ stream[k].start \in Int /\ Window \in Nat
      BY <1>1, <1>2, <2>1, <3>2, RulesAssumption
         DEF WindowShape, Correlate!CorrelationAssumption
    <3>5. stream[p].end - stream[k].start > Window /\ ~(stream[p].end < stream[k].start)
      BY <1>3, <3>2, <3>3, <3>4
    <3> QED
      BY <1>2, <1>5, <3>2, <3>4, <3>5 DEF Could, Apart
  <2> QED
    BY <2>2, <2>3
<1> QED
  BY <1>4, <1>5 DEF Matchable

LEMMA OrphanSeen ==
  ASSUME CorrelateInv, ReferencesInv, SettledInv, phase = "done", NEW g \in Reported
  PROVE  SeenAlone(g)
<1> SUFFICES ASSUME g.check = "orphan_consumer"
             PROVE  /\ SelfNamed(g)
                    /\ \E k \in Consumers :
                         /\ g.about = {k} /\ Applies(g.check, k) /\ NoReferences(k)
                         /\ Ordered => ~Matchable(k) /\ (audit.finalized \/ PassedBy(k))
  BY DEF SeenAlone
<1>1. PICK f \in AllFindings : g = DegradedEvidence(f)
  BY DEF Reported
<1>2. Sound(f) /\ Sorted(f) /\ Windows
  BY FindingsSound DEF CorrelateInv
<1>3. /\ g.check = f.check /\ g.kind = f.kind /\ g.about = f.about /\ g.edge = f.edge
  BY <1>1, <1>2, DegradedFields DEF Sound
<1> DEFINE ks == {k \in Consumers \ ConsumerMatched : references[k] = 0 /\ WindowClosed(k)}
<1>4. f \in About("orphan_consumer", ks, AbsenceEvidence)
  BY <1>2, <1>3 DEF Sorted, OrphanConsumer
<1>5. SelfNamed(g)
  BY <1>3, <1>4, AboutFields DEF SelfNamed
<1>6. PICK k \in ks : f.about = {k} /\ Applies("orphan_consumer", k)
  BY <1>4, AboutFields
<1>7. Visited(k) /\ Settled(k)
  <2>1. k <= ci /\ k \in Nat /\ ci \in Nat
    BY <1>2, <1>6, ConsumersType DEF ReferencesInv
  <2> QED
    BY <2>1 DEF Visited, Settled
<1>8. NoReferences(k)
  BY <1>6, <1>7 DEF ReferencesInv
<1>9. ASSUME Ordered PROVE ~Matchable(k) /\ (audit.finalized \/ PassedBy(k))
  <2>1. ~Matchable(k)
    BY <1>6, <1>7, <1>8, <1>9 DEF SettledInv, Ordered
  <2>2. k \in DOMAIN spans
    BY <1>2, <1>6, ConsumersType
  <2>3. audit.finalized \/ PassedBy(k)
    BY <1>2, <1>6, <1>9, <2>2, ClosedIs DEF Ordered
  <2> QED
    BY <2>1, <2>3
<1> QED
  BY <1>3, <1>5, <1>6, <1>8, <1>9

LEMMA OrphanIsReported ==
  ASSUME CorrelateInv, ReferencesInv, SettledInv, phase = "done", Ordered,
         NEW f, SeenAlone(f), f.check = "orphan_consumer"
  PROVE  Concludes(f, Reported)
<1> DEFINE ks == {k \in Consumers \ ConsumerMatched : references[k] = 0 /\ WindowClosed(k)}
<1>1. PICK k \in Consumers :
        /\ f.about = {k} /\ Applies(f.check, k) /\ NoReferences(k)
        /\ ~Matchable(k) /\ (audit.finalized \/ PassedBy(k))
  BY DEF SeenAlone
<1>2. Windows /\ k \in DOMAIN spans
  BY <1>1, ConsumersType DEF CorrelateInv
<1>3. WindowClosed(k)
  BY <1>1, <1>2, ClosedIs DEF Ordered
<1>4. references[k] = 0
  BY <1>1 DEF ReferencesInv
<1>5. k \notin ConsumerMatched
  <2>1. k <= ci /\ k \in Nat /\ ci \in Nat
    BY <1>1, <1>2, ConsumersType DEF ReferencesInv
  <2>2. Settled(k)
    BY <2>1 DEF Settled
  <2> QED
    BY <1>1, <2>2 DEF SettledInv, Ordered
<1>6. k \in ks
  BY <1>1, <1>3, <1>4, <1>5
<1>7. About(f.check, ks, AbsenceEvidence) \subseteq AllFindings
  BY DEF AllFindings, OrphanConsumer
<1> QED
  BY <1>1, <1>6, <1>7, AboutConcludes DEF SeenAlone

LEMMA OrphanKept ==
  ASSUME Windows, Windows', Extended, UNCHANGED <<stream, audit>>,
         spans' = spans \/ ~audit.finalized, NEW f, SeenAlone(f)
  PROVE  SeenAlone(f)'
<1> SUFFICES ASSUME f.check = "orphan_consumer"
             PROVE  /\ SelfNamed(f)
                    /\ \E k \in Consumers' :
                         /\ f.about = {k} /\ Applies(f.check, k)' /\ NoReferences(k)'
                         /\ Ordered' => /\ ~Matchable(k)'
                                        /\ audit'.finalized \/ PassedBy(k)'
  BY DEF SeenAlone, SelfNamed
<1>1. PICK k \in Consumers :
        /\ f.about = {k} /\ Applies(f.check, k) /\ NoReferences(k)
        /\ Ordered => ~Matchable(k) /\ (audit.finalized \/ PassedBy(k))
  BY DEF SeenAlone
<1>2. k \in DOMAIN spans /\ SelfNamed(f)
  BY ConsumersType DEF SeenAlone
<1>3. k \in Consumers' /\ Applies(f.check, k)' /\ NoReferences(k)'
  BY <1>1, <1>2, SameSpan
<1>4. Ordered' <=> Ordered
  BY DEF Ordered, WellFormed, InOrder, InRange
<1>5. ASSUME Ordered PROVE ~Matchable(k)' /\ (audit'.finalized \/ PassedBy(k)')
  <2>1. CASE spans' = spans
    BY <1>1, <1>5, <2>1, SameMatchable DEF PassedBy
  <2>2. CASE ~audit.finalized
    BY <1>1, <1>5, <2>2, PassedForEver
  <2> QED
    BY <2>1, <2>2
<1> QED
  BY <1>1, <1>2, <1>3, <1>4, <1>5

LEMMA OrphansStep ==
  ASSUME Inv, ReferencesInv, SettledInv, OrphansInv, [Next]_vars
  PROVE  OrphansInv'
<1>0. Windows /\ Windows'
  BY WindowsStep DEF Inv, CorrelateInv
<1>1. CASE Judge
  <2>1. /\ findings' = Reported /\ phase = "done"
        /\ UNCHANGED <<stream, audit, spans>>
    BY <1>1 DEF Judge, Reported, corrVars
  <2>2. Extended
    BY <2>1 DEF Extended
  <2>3. \A f \in findings' : SeenAlone(f)
    BY <2>1, OrphanSeen DEF Inv
  <2>4. \A f \in findings' : SeenAlone(f)'
    BY <1>0, <2>1, <2>2, <2>3, OrphanKept
  <2> QED
    BY <2>4 DEF OrphansInv
<1>2. CASE /\ UNCHANGED <<findings, stream, audit>> /\ Len(spans) <= Len(spans')
           /\ spans' = spans \/ ~audit.finalized
  <2>1. Extended
    BY <1>0, <1>2, WindowExtends
  <2>2. \A f \in findings : SeenAlone(f)'
    BY <1>0, <1>2, <2>1, OrphanKept DEF OrphansInv
  <2> QED
    BY <1>2, <2>2 DEF OrphansInv
<1>3. CASE UNCHANGED vars
  <2>1. Len(spans) \in Nat
    BY <1>0, WindowType
  <2> QED
    BY <1>2, <1>3, <2>1 DEF vars, corrVars
<1> QED
  BY <1>1, <1>2, <1>3, ReportSteps

(* When spans arrive in the order of their ends, a consumer reported as an *)
(* orphan is reported by every later audit: the watermark is a safe clock  *)
(* for consumers, whatever the window and the spans.                       *)
THEOREM OrphanFindingsStand == Spec => OrphanConsumerStands
<1> DEFINE Kept ==
      WellFormed /\ InOrder /\ InRange =>
        \A f \in findings : f.check = "orphan_consumer" => Stands(f)
<1>1. Inv /\ ReferencesInv /\ SettledInv /\ OrphansInv /\ [Next]_vars => [Kept]_vars
  <2> SUFFICES ASSUME Inv, ReferencesInv, SettledInv, OrphansInv, [Next]_vars, Ordered,
                      NEW f \in findings, f.check = "orphan_consumer"
               PROVE  Stands(f)
    BY DEF Ordered
  <2>1. CASE Judge
    <3>1. findings' = Reported /\ phase = "done"
      BY <2>1 DEF Judge, Reported
    <3>2. Concludes(f, Reported)
      BY <3>1, OrphanIsReported DEF Inv, OrphansInv
    <3> QED
      BY <3>1, <3>2 DEF Stands, Concludes
  <2>2. CASE findings' = findings
    BY <2>2 DEF Stands
  <2> QED
    BY <2>1, <2>2, ReportSteps DEF vars
<1>2. Inv /\ ReferencesInv /\ [Next]_vars => ReferencesInv'
  BY ReferencesInvStep DEF Inv
<1>3. Inv /\ Walking /\ [Next]_vars => Walking'
  BY WalkingStep DEF Inv, CorrelateInv
<1>4. Inv /\ ReferencesInv /\ Walking /\ SettledInv /\ [Next]_vars => SettledInv'
  BY SettledInvStep DEF Inv
<1>5. Inv /\ ReferencesInv /\ SettledInv /\ OrphansInv /\ [Next]_vars => OrphansInv'
  BY OrphansStep
<1>6. Init => OrphansInv
  BY DEF Init, OrphansInv
<1> QED
  BY Invariance, InitReferences, InitWalking, InitSettled, <1>1, <1>2, <1>3, <1>4, <1>5,
     <1>6, PTL DEF Spec, OrphanConsumerStands
===============================================================================
