--------------------------- MODULE SpanStoreProofs ---------------------------
(***************************************************************************)
(* Proofs about SpanStore, for every set of spans, every hash and size     *)
(* function, every capacity, TTL and bound.                                *)
(***************************************************************************)
EXTENDS SpanStore, FiniteSetTheorems, NaturalsInduction, WellFoundedInduction, TLAPS

(* Counting keeps a family of counters one.                                *)
LEMMA CountType ==
  ASSUME NEW D, NEW counters \in [D -> Nat], NEW names
  PROVE  Count(counters, names) \in [D -> Nat]
  BY DEF Count

(* What moving to the next span of a batch leaves well typed.              *)
LEMMA NextSpanType ==
  ASSUME TypeOK, NEW span \in Spans, NextSpan(span)
  PROVE  /\ now' \in Nat /\ stepBacks' \in Nat /\ exports' \in Nat
         /\ cache' \in [set : BOOLEAN, generation : Nat, spans : Seq(Spans)]
         /\ pc' \in {"unlocked", "evict", "Add", "Snapshot"}
         /\ caller' \in {"Add", "Snapshot"}
         /\ reading' \in Nat
         /\ batch' \in Seq(Spans) /\ kept' \in Seq(Spans) /\ view' \in Seq(Seq(Spans))
         /\ cursor' \in Nat \ {0} /\ keptBytes' \in Int
         /\ gauges' \in [spans : Nat, bytes : Int] /\ offered' \in Nat
  BY DEF TypeOK, NextSpan, envVars

----------------------------------------------------------------------------
(* The index built from a sequence that holds every identity once *)

UniqueIdentities(seq) ==
  \A i, j \in DOMAIN seq : Identified(seq[i]) /\ seq[i].id = seq[j].id => i = j

(* With one occurrence of each identity, the last is the only one.         *)
LEMMA LastPositionUnique ==
  ASSUME NEW seq \in Seq(Spans), UniqueIdentities(seq),
         NEW i \in DOMAIN seq, Identified(seq[i])
  PROVE  LastPosition(seq, seq[i].id) = i
<1>1. /\ seq[i].id = seq[i].id
      /\ \A j \in DOMAIN seq : j > i => seq[j].id # seq[i].id
  BY DEF UniqueIdentities
<1>2. ASSUME NEW k \in DOMAIN seq, seq[k].id = seq[i].id
      PROVE  k = i
  BY <1>2 DEF UniqueIdentities
<1> QED
  BY <1>1, <1>2 DEF LastPosition

(* IndexOf describes such a sequence exactly.                              *)
LEMMA IndexOfFacts ==
  ASSUME NEW seq \in Seq(Spans), UniqueIdentities(seq)
  PROVE  /\ DOMAIN IndexOf(seq) \subseteq {span.id : span \in Spans}
         /\ \A id \in DOMAIN IndexOf(seq) :
              /\ IndexOf(seq)[id] \in [index : Nat, contentHash : Nat]
              /\ IndexOf(seq)[id].index \in DOMAIN seq
              /\ seq[IndexOf(seq)[id].index].id = id
              /\ id # NoIdentity
              /\ IndexOf(seq)[id].contentHash
                   = ContentHash[seq[IndexOf(seq)[id].index]]
         /\ \A i \in DOMAIN seq :
              Identified(seq[i]) =>
                /\ seq[i].id \in DOMAIN IndexOf(seq)
                /\ IndexOf(seq)[seq[i].id].index = i
<1>1. DOMAIN IndexOf(seq) = Identities(seq)
  BY DEF IndexOf
<1>2. ASSUME NEW id \in Identities(seq)
      PROVE  \E i \in DOMAIN seq : Identified(seq[i]) /\ seq[i].id = id
  BY <1>2 DEF Identities, Elements
<1>3. ASSUME NEW i \in DOMAIN seq, Identified(seq[i])
      PROVE  /\ seq[i].id \in Identities(seq)
             /\ IndexOf(seq)[seq[i].id]
                  = [index |-> i, contentHash |-> ContentHash[seq[i]]]
             /\ IndexOf(seq)[seq[i].id].index = i
  <2>1. seq[i].id \in Identities(seq)
    BY <1>3 DEF Identities, Elements
  <2>2. LastPosition(seq, seq[i].id) = i
    BY <1>3, LastPositionUnique
  <2>3. IndexOf(seq)[seq[i].id]
          = [index |-> i, contentHash |-> ContentHash[seq[i]]]
    BY <2>1, <2>2 DEF IndexOf
  <2> QED
    BY <2>1, <2>3
<1>4. \A i \in DOMAIN seq : i \in Nat /\ seq[i] \in Spans
  OBVIOUS
<1>5. \A i \in DOMAIN seq : ContentHash[seq[i]] \in Nat
  BY <1>4, StoreAssumption
<1>6. ASSUME NEW id \in Identities(seq)
      PROVE  /\ id \in {span.id : span \in Spans}
             /\ IndexOf(seq)[id] \in [index : Nat, contentHash : Nat]
             /\ IndexOf(seq)[id].index \in DOMAIN seq
             /\ seq[IndexOf(seq)[id].index].id = id
             /\ id # NoIdentity
             /\ IndexOf(seq)[id].contentHash
                   = ContentHash[seq[IndexOf(seq)[id].index]]
  <2>1. PICK i \in DOMAIN seq : Identified(seq[i]) /\ seq[i].id = id
    BY <1>2, <1>6
  <2>2. IndexOf(seq)[id] = [index |-> i, contentHash |-> ContentHash[seq[i]]]
    BY <2>1, <1>3
  <2> QED
    BY <2>1, <2>2, <1>4, <1>5 DEF Identified
<1>7. DOMAIN IndexOf(seq) \subseteq {span.id : span \in Spans}
  BY <1>1, <1>6
<1>8. \A i \in DOMAIN seq :
        Identified(seq[i]) =>
          /\ seq[i].id \in DOMAIN IndexOf(seq)
          /\ IndexOf(seq)[seq[i].id].index = i
  <2>1. SUFFICES ASSUME NEW i \in DOMAIN seq, Identified(seq[i])
                 PROVE  /\ seq[i].id \in DOMAIN IndexOf(seq)
                        /\ IndexOf(seq)[seq[i].id].index = i
    OBVIOUS
  <2> QED
    BY <1>1, <1>3, <2>1
<1> QED
  BY <1>1, <1>6, <1>7, <1>8

----------------------------------------------------------------------------
(* The inductive invariant *)

(* The eviction loop so far: kept holds the fresh ones of the spans scanned, *)
(* each identity once, and is as long as the scan only if none had expired. *)
LoopInv ==
  pc = "evict" =>
    /\ cursor <= Len(spans) + 1
    /\ Len(kept) <= cursor - 1
    /\ \A j \in DOMAIN kept :
         /\ ~Expired(kept[j], reading)
         /\ \E i \in DOMAIN spans : i < cursor /\ kept[j] = spans[i]
    /\ \A i \in DOMAIN spans :
         i < cursor /\ ~Expired(spans[i], reading)
           => \E j \in DOMAIN kept : kept[j] = spans[i]
    /\ UniqueIdentities(kept)
    /\ Len(kept) = cursor - 1 =>
         \A i \in DOMAIN spans : i < cursor => ~Expired(spans[i], reading)

(* Outside its loop a call's locals are reset. *)
LocalsReset ==
  /\ pc # "evict" => kept = <<>>
  /\ pc \in {"unlocked", "Snapshot"} => cursor = 1

IInv ==
  /\ TypeOK
  /\ IndexConsistent
  /\ CacheCurrent
  /\ WithinCapacity
  /\ RoomIsForFresh
  /\ LoopInv
  /\ LocalsReset

LEMMA UniqueSpans ==
  ASSUME TypeOK, IndexConsistent
  PROVE  UniqueIdentities(spans)
<1>1. ASSUME NEW i \in DOMAIN spans, NEW j \in DOMAIN spans,
             Identified(spans[i]), spans[i].id = spans[j].id
      PROVE  i = j
  <2>1. index[spans[i].id].index = i
    BY <1>1 DEF IndexConsistent
  <2>2. index[spans[j].id].index = j
    BY <1>1 DEF IndexConsistent, Identified
  <2> QED
    BY <1>1, <2>1, <2>2
<1> QED
  BY <1>1 DEF UniqueIdentities

LEMMA InitInv == Init => IInv
<1> SUFFICES ASSUME Init PROVE IInv
  OBVIOUS
<1> USE StoreAssumption DEF Init
<1>1. TypeOK
  BY DEF TypeOK, IndexType, Zeros
<1>2. IndexConsistent /\ CacheCurrent /\ WithinCapacity /\ RoomIsForFresh
  BY DEF IndexConsistent, CacheCurrent, WithinCapacity, RoomIsForFresh
<1>3. LoopInv /\ LocalsReset
  BY DEF LoopInv, LocalsReset
<1> QED
  BY <1>1, <1>2, <1>3 DEF IInv

(* Types *)
LEMMA IndexTypeStep == TypeOK /\ LoopInv /\ [Next]_vars => IndexType'
<1> SUFFICES ASSUME TypeOK, LoopInv, [Next]_vars PROVE IndexType'
  OBVIOUS
<1>0. IndexType
  BY DEF TypeOK
<1>1. CASE EvictEnd /\ SomeDropped
  <2>1. UniqueIdentities(kept) /\ kept \in Seq(Spans)
    BY <1>1 DEF TypeOK, LoopInv, EvictEnd
  <2>2. index' = IndexOf(kept)
    BY <1>1 DEF EvictEnd, IndexAfterEviction
  <2> QED
    BY <2>1, <2>2, IndexOfFacts DEF IndexType
<1>2. ASSUME NEW span \in Spans, Admit(span), Identified(span)
      PROVE  IndexType'
  <2>1. ContentHash[span] \in Nat /\ Len(spans) + 1 \in Nat
    BY StoreAssumption DEF TypeOK
  <2>2. index' = [id \in DOMAIN index \cup {span.id} |->
                    IF id = span.id
                    THEN [index |-> Len(spans) + 1,
                          contentHash |-> ContentHash[span]]
                    ELSE index[id]]
    BY <1>2 DEF Admit
  <2>3. DOMAIN index' \subseteq {s.id : s \in Spans}
    BY <1>0, <2>2 DEF IndexType
  <2>4. ASSUME NEW id \in DOMAIN index'
        PROVE  index'[id] \in [index : Nat, contentHash : Nat]
    BY <1>0, <2>1, <2>2, <2>4 DEF IndexType
  <2> QED
    BY <2>3, <2>4 DEF IndexType
<1>3. CASE UNCHANGED index
  BY <1>0, <1>3 DEF IndexType
<1>4. CASE Next /\ ~AddSpan
  BY <1>1, <1>3, <1>4 DEF Next, Advance, StepBack, AddBegin, SnapshotBegin,
     EvictSpan, EvictEnd, AddReturn, SnapshotReturn, storeVars
<1>5. CASE AddSpan
  BY <1>2, <1>3, <1>5 DEF AddSpan, Admit, RefuseStale, CountDuplicate,
     RefuseConflict, RefuseCapacity, RefuseMemory, Refuse
<1> QED
  BY <1>3, <1>4, <1>5 DEF vars

LEMMA BatchType == Batches \subseteq Seq(Spans)
<1> SUFFICES ASSUME NEW in \in Batches PROVE in \in Seq(Spans)
  OBVIOUS
<1>1. PICK n \in 0 .. MaxBatch : in \in [1 .. n -> Spans]
  BY DEF Batches
<1> QED
  BY <1>1, StoreAssumption

LEMMA EvictEndType == TypeOK /\ LoopInv /\ EvictEnd => TypeOK'
<1> SUFFICES ASSUME TypeOK, LoopInv, EvictEnd PROVE TypeOK'
  OBVIOUS
<1>1. IndexType'
  BY IndexTypeStep DEF Next
<1>2. stats' \in [StatNames -> Nat]
  <2>1. stats \in [StatNames -> Nat] /\ stats.evictions \in Nat
    BY DEF TypeOK, StatNames
  <2>2. SomeDropped => EvictionsCounted \in Nat
    BY <2>1 DEF TypeOK, SomeDropped, EvictionsCounted, Dropped
  <2> QED
    BY <2>1, <2>2 DEF EvictEnd
<1>3. spans' \in Seq(Spans)
  <2>1. spans' = spans \/ spans' = kept
    BY DEF EvictEnd
  <2> QED
    BY <2>1 DEF TypeOK
<1>4. currentBytes' \in Int
  <2>1. currentBytes' = currentBytes \/ currentBytes' = keptBytes
    BY DEF EvictEnd, BytesAfterEviction
  <2> QED
    BY <2>1 DEF TypeOK
<1>5. generation' \in Nat
  <2>1. generation \in Nat
    BY DEF TypeOK
  <2>2. generation' = generation \/ generation' = generation + 1
    BY DEF EvictEnd, GenerationAfterEviction
  <2> QED
    BY <2>1, <2>2
<1>6. gauges' \in [spans : Nat, bytes : Int]
  BY <1>3, <1>4 DEF EvictEnd
<1>7. cursor' = 1 /\ kept' = <<>> /\ keptBytes' = 0 /\ pc' = caller
  BY DEF EvictEnd
<1>8. UNCHANGED <<now, stepBacks, exports, cache, metrics, caller, reading, batch,
                  result, view, admitted, offered>>
  BY DEF EvictEnd, envVars
<1> QED
  BY <1>1, <1>2, <1>3, <1>4, <1>5, <1>6, <1>7, <1>8 DEF TypeOK

LEMMA AddSpanType == TypeOK /\ LoopInv /\ AddSpan => TypeOK'
<1> SUFFICES ASSUME TypeOK, LoopInv, AddSpan PROVE TypeOK'
  OBVIOUS
<1>1. IndexType'
  BY IndexTypeStep DEF Next
<1>2. /\ stats \in [StatNames -> Nat]
      /\ metrics \in [SeriesNames -> Nat]
      /\ result \in [ResultNames -> Nat]
  BY DEF TypeOK
<1>3. PICK span \in Spans :
        \/ RefuseStale(span) \/ CountDuplicate(span) \/ RefuseConflict(span)
        \/ RefuseCapacity(span) \/ RefuseMemory(span) \/ Admit(span)
  BY DEF AddSpan
<1>4. CASE Admit(span)
  <2>1. NextSpan(span) /\ stats' = stats
    BY <1>4 DEF Admit
  <2>2. metrics' \in [SeriesNames -> Nat] /\ result' \in [ResultNames -> Nat]
    BY <1>2, <1>4, CountType DEF Admit
  <2>3. SizeOf[span] \in Int
    BY StoreAssumption
  <2>4. spans' \in Seq(Spans)
    <3>1. spans \in Seq(Spans) /\ spans' = Append(spans, span)
      BY <1>4 DEF Admit, TypeOK
    <3> QED
      BY <3>1
  <2>5. currentBytes' \in Int /\ generation' \in Nat
    <3>1. currentBytes \in Int /\ generation \in Nat
      BY DEF TypeOK
    <3>2. currentBytes' = currentBytes + SizeOf[span] /\ generation' = generation + 1
      BY <1>4 DEF Admit
    <3> QED
      BY <2>3, <3>1, <3>2
  <2>6. admitted' \subseteq Spans
    BY <1>4 DEF Admit, TypeOK
  <2> QED
    BY <1>1, <1>2, <2>1, <2>2, <2>4, <2>5, <2>6, NextSpanType DEF TypeOK
<1>5. CASE ~Admit(span)
  <2>1. NextSpan(span) /\ Refuse
    BY <1>3, <1>5 DEF RefuseStale, CountDuplicate, RefuseConflict, RefuseCapacity,
                      RefuseMemory
  <2>2. /\ stats' \in [StatNames -> Nat]
        /\ metrics' \in [SeriesNames -> Nat]
        /\ result' \in [ResultNames -> Nat]
    <3>1. CASE RefuseStale(span)
      BY <1>2, <3>1, CountType DEF RefuseStale
    <3>2. CASE CountDuplicate(span)
      BY <1>2, <3>2, CountType DEF CountDuplicate
    <3>3. CASE RefuseConflict(span)
      BY <1>2, <3>3, CountType DEF RefuseConflict
    <3>4. CASE RefuseCapacity(span)
      BY <1>2, <3>4, CountType DEF RefuseCapacity
    <3>5. CASE RefuseMemory(span)
      BY <1>2, <3>5, CountType DEF RefuseMemory
    <3> QED
      BY <1>3, <1>5, <3>1, <3>2, <3>3, <3>4, <3>5
  <2>3. UNCHANGED <<spans, index, currentBytes, generation, admitted>>
    BY <2>1 DEF Refuse
  <2> QED
    BY <1>1, <2>1, <2>2, <2>3, NextSpanType DEF TypeOK
<1> QED
  BY <1>4, <1>5

LEMMA SnapshotType ==
  ASSUME TypeOK, SnapshotReturn
  PROVE  cache' \in [set : BOOLEAN, generation : Nat, spans : Seq(Spans)]
<1>1. /\ cache \in [set : BOOLEAN, generation : Nat, spans : Seq(Spans)]
      /\ generation \in Nat /\ spans \in Seq(Spans)
  BY DEF TypeOK
<1>2. \/ cache' = cache
      \/ cache' = [set |-> TRUE, generation |-> generation, spans |-> spans]
  BY DEF SnapshotReturn
<1>3. [set |-> TRUE, generation |-> generation, spans |-> spans]
        \in [set : BOOLEAN, generation : Nat, spans : Seq(Spans)]
  BY <1>1
<1> QED
  BY <1>1, <1>2, <1>3

LEMMA TypeStep == TypeOK /\ LoopInv /\ [Next]_vars => TypeOK'
<1> SUFFICES ASSUME TypeOK, LoopInv, [Next]_vars PROVE TypeOK'
  OBVIOUS
<1>0. IndexType'
  BY IndexTypeStep
<1> USE DEF TypeOK, envVars, storeVars, loopVars, counterVars
<1>1. CASE Advance
  <2>1. now' \in Nat
    BY <1>1 DEF Advance
  <2> QED
    BY <1>0, <1>1, <2>1 DEF Advance
<1>2. CASE StepBack
  <2>1. now' \in Nat /\ stepBacks' \in Nat
    BY <1>2 DEF StepBack
  <2> QED
    BY <1>0, <1>2, <2>1 DEF StepBack
<1>3. CASE \E in \in Batches : AddBegin(in)
  BY <1>0, <1>3, BatchType DEF AddBegin, Enter
<1>4. CASE SnapshotBegin
  BY <1>0, <1>4 DEF SnapshotBegin, Enter
<1>5. CASE EvictSpan
  <2>1. spans[cursor] \in Spans /\ SizeOf[spans[cursor]] \in Int
    BY <1>5, StoreAssumption DEF EvictSpan
  <2>2. kept' \in Seq(Spans) /\ keptBytes' \in Int
    <3>1. CASE Expired(spans[cursor], reading)
      BY <1>5, <3>1 DEF EvictSpan
    <3>2. CASE ~Expired(spans[cursor], reading)
      <4>1. kept' = Append(kept, spans[cursor])
        BY <1>5, <3>2 DEF EvictSpan
      <4> QED
        BY <1>5, <2>1, <3>2, <4>1 DEF EvictSpan
    <3> QED
      BY <3>1, <3>2
  <2>3. /\ cursor' = cursor + 1
        /\ UNCHANGED <<envVars, exports, storeVars, counterVars, pc, caller,
                       reading, batch, result, view, admitted, offered>>
    BY <1>5 DEF EvictSpan
  <2> QED
    BY <1>0, <2>2, <2>3
<1>6. CASE EvictEnd
  BY <1>6, EvictEndType
<1>7. CASE AddSpan
  BY <1>7, AddSpanType
<1>8. CASE AddReturn
  <2>1. result' \in [ResultNames -> Nat]
    BY <1>8 DEF AddReturn, Zeros
  <2> QED
    BY <1>0, <1>8, <2>1 DEF AddReturn, GaugesOnReturn
<1>9. CASE SnapshotReturn
  <2>1. view' \in Seq(Seq(Spans))
    <3>1. spans \in Seq(Spans) /\ cache.spans \in Seq(Spans)
      BY <1>0
    <3>2. <<spans>> \in Seq(Seq(Spans)) /\ <<cache.spans>> \in Seq(Seq(Spans))
      BY <3>1
    <3>3. view' = <<spans>> \/ view' = <<cache.spans>>
      BY <1>9 DEF SnapshotReturn
    <3> QED
      BY <3>2, <3>3
  <2>2. cache' \in [set : BOOLEAN, generation : Nat, spans : Seq(Spans)]
    BY <1>9, SnapshotType
  <2> QED
    BY <1>0, <1>9, <2>1, <2>2 DEF SnapshotReturn
<1>10. CASE UNCHANGED vars
  BY <1>0, <1>10 DEF vars
<1> QED
  BY <1>1, <1>2, <1>3, <1>4, <1>5, <1>6, <1>7, <1>8, <1>9, <1>10 DEF Next

----------------------------------------------------------------------------
(* Only two steps change what is retained: the end of an eviction that     *)
(* dropped something, and an admission.                                    *)
LEMMA StoreChanges ==
  ASSUME [Next]_vars
  PROVE  \/ UNCHANGED <<spans, index, generation>>
         \/ EvictEnd /\ SomeDropped
         \/ \E span \in Spans : Admit(span)
<1>1. CASE AddSpan
  BY <1>1 DEF AddSpan, RefuseStale, CountDuplicate, RefuseConflict,
     RefuseCapacity, RefuseMemory, Refuse
<1>2. CASE ~AddSpan
  BY <1>2 DEF Next, vars, Advance, StepBack, AddBegin, SnapshotBegin, EvictSpan,
     EvictEnd, AddReturn, SnapshotReturn, storeVars
<1> QED
  BY <1>1, <1>2

LEMMA IndexStep == IInv /\ [Next]_vars => IndexConsistent'
<1> SUFFICES ASSUME IInv, [Next]_vars PROVE IndexConsistent'
  OBVIOUS
<1>0. IndexConsistent /\ spans \in Seq(Spans)
  BY DEF IInv, TypeOK
<1>1. CASE EvictEnd /\ SomeDropped
  <2>1. UniqueIdentities(kept) /\ kept \in Seq(Spans)
    BY <1>1 DEF IInv, TypeOK, LoopInv, EvictEnd
  <2>2. index' = IndexOf(kept) /\ spans' = kept
    BY <1>1 DEF EvictEnd, IndexAfterEviction
  <2> QED
    BY <2>1, <2>2, IndexOfFacts DEF IndexConsistent
<1>2. ASSUME NEW span \in Spans, Admit(span), Identified(span)
      PROVE  IndexConsistent'
  <2>1. span.id \notin DOMAIN index
    BY <1>2 DEF Admit, Known
  <2>2. /\ spans' = Append(spans, span)
        /\ index' = [id \in DOMAIN index \cup {span.id} |->
                       IF id = span.id
                       THEN [index |-> Len(spans) + 1,
                             contentHash |-> ContentHash[span]]
                       ELSE index[id]]
    BY <1>2 DEF Admit
  <2>3. /\ DOMAIN spans' = 1 .. Len(spans) + 1
        /\ spans'[Len(spans) + 1] = span
        /\ \A i \in DOMAIN spans : i \in DOMAIN spans' /\ spans'[i] = spans[i]
    BY <1>0, <2>2
  <2>4. ASSUME NEW id \in DOMAIN index'
        PROVE  /\ index'[id].index \in DOMAIN spans'
               /\ spans'[index'[id].index].id = id
               /\ id # NoIdentity
               /\ index'[id].contentHash = ContentHash[spans'[index'[id].index]]
    <3>1. CASE id = span.id
      BY <1>0, <1>2, <2>2, <2>3, <3>1 DEF Identified
    <3>2. CASE id # span.id
      <4>1. id \in DOMAIN index /\ index'[id] = index[id]
        BY <2>2, <3>2
      <4>2. /\ index[id].index \in DOMAIN spans
            /\ spans[index[id].index].id = id
            /\ id # NoIdentity
            /\ index[id].contentHash = ContentHash[spans[index[id].index]]
        BY <1>0, <4>1 DEF IndexConsistent
      <4> QED
        BY <2>3, <4>1, <4>2
    <3> QED
      BY <3>1, <3>2
  <2>5. ASSUME NEW i \in DOMAIN spans', Identified(spans'[i])
        PROVE  spans'[i].id \in DOMAIN index' /\ index'[spans'[i].id].index = i
    <3>1. CASE i = Len(spans) + 1
      BY <2>2, <2>3, <3>1
    <3>2. CASE i # Len(spans) + 1
      <4>1. i \in DOMAIN spans /\ spans'[i] = spans[i]
        BY <1>0, <2>3, <3>2
      <4>2. spans[i].id \in DOMAIN index /\ index[spans[i].id].index = i
        BY <1>0, <2>5, <4>1 DEF IndexConsistent
      <4>3. spans[i].id # span.id
        BY <2>1, <4>2
      <4> QED
        BY <2>2, <4>1, <4>2, <4>3
    <3> QED
      BY <3>1, <3>2
  <2> QED
    BY <2>4, <2>5 DEF IndexConsistent
<1>3. ASSUME NEW span \in Spans, Admit(span), ~Identified(span)
      PROVE  IndexConsistent'
  <2>1. spans' = Append(spans, span) /\ index' = index
    BY <1>3 DEF Admit
  <2>2. /\ DOMAIN spans' = 1 .. Len(spans) + 1
        /\ spans'[Len(spans) + 1] = span
        /\ \A i \in DOMAIN spans : i \in DOMAIN spans' /\ spans'[i] = spans[i]
    BY <1>0, <2>1
  <2>3. ASSUME NEW id \in DOMAIN index'
        PROVE  /\ index'[id].index \in DOMAIN spans'
               /\ spans'[index'[id].index].id = id
               /\ id # NoIdentity
               /\ index'[id].contentHash = ContentHash[spans'[index'[id].index]]
    BY <1>0, <2>1, <2>2 DEF IndexConsistent
  <2>4. ASSUME NEW i \in DOMAIN spans', Identified(spans'[i])
        PROVE  spans'[i].id \in DOMAIN index' /\ index'[spans'[i].id].index = i
    <3>1. i \in DOMAIN spans /\ spans'[i] = spans[i]
      BY <1>0, <1>3, <2>2, <2>4
    <3> QED
      BY <1>0, <2>1, <2>4, <3>1 DEF IndexConsistent
  <2> QED
    BY <2>3, <2>4 DEF IndexConsistent
<1>4. CASE UNCHANGED <<spans, index>>
  BY <1>0, <1>4 DEF IndexConsistent
<1> QED
  BY <1>1, <1>2, <1>3, <1>4, StoreChanges

LEMMA CacheStep == IInv /\ [Next]_vars => CacheCurrent'
<1> SUFFICES ASSUME IInv, [Next]_vars PROVE CacheCurrent'
  OBVIOUS
<1>0. /\ CacheCurrent /\ generation \in Nat
      /\ cache.generation \in Nat
  BY DEF IInv, TypeOK
<1>1. CASE SnapshotReturn
  BY <1>0, <1>1 DEF SnapshotReturn, CacheCurrent
<1>2. CASE UNCHANGED cache
  <2>1. CASE UNCHANGED <<spans, generation>>
    BY <1>0, <1>2, <2>1 DEF CacheCurrent
  <2>2. CASE generation' = generation + 1
    BY <1>0, <1>2, <2>2 DEF CacheCurrent
  <2> QED
    BY <2>1, <2>2, StoreChanges DEF EvictEnd, GenerationAfterEviction, Admit
<1>3. CASE ~SnapshotReturn
  BY <1>2, <1>3 DEF Next, vars, Advance, StepBack, AddBegin, SnapshotBegin,
     EvictSpan, EvictEnd, AddReturn, AddSpan, NextSpan, RefuseStale,
     CountDuplicate, RefuseConflict, RefuseCapacity, RefuseMemory, Admit, storeVars
<1> QED
  BY <1>1, <1>3

LEMMA CapacityStep == IInv /\ [Next]_vars => WithinCapacity'
<1> SUFFICES ASSUME IInv, [Next]_vars PROVE WithinCapacity'
  OBVIOUS
<1>0. /\ WithinCapacity /\ spans \in Seq(Spans) /\ kept \in Seq(Spans)
      /\ MaxSpans \in Nat
  BY StoreAssumption DEF IInv, TypeOK
<1>1. CASE EvictEnd /\ SomeDropped
  BY <1>0, <1>1 DEF EvictEnd, SomeDropped, Dropped, WithinCapacity
<1>2. ASSUME NEW span \in Spans, Admit(span)
      PROVE  WithinCapacity'
  BY <1>0, <1>2 DEF Admit, Full, WithinCapacity
<1>3. CASE UNCHANGED spans
  BY <1>0, <1>3 DEF WithinCapacity
<1> QED
  BY <1>1, <1>2, <1>3, StoreChanges

(* Where the next control point can be reached from.                       *)
LEMMA Control ==
  ASSUME caller \in {"Add", "Snapshot"}, [Next]_vars
  PROVE  /\ pc' = "evict" => \/ pc = "unlocked" /\ UNCHANGED <<spans, cursor, kept>>
                             \/ EvictSpan
                             \/ /\ pc = "evict"
                                /\ UNCHANGED <<spans, cursor, kept, reading>>
         /\ pc' \in {"Add", "Snapshot"} =>
              \/ EvictEnd
              \/ pc = pc' /\ UNCHANGED <<spans, reading>>
              \/ pc = pc' /\ UNCHANGED reading /\ \E span \in Spans : Admit(span)
         /\ pc' # "evict" => \/ kept' = <<>>
                             \/ pc # "evict" /\ UNCHANGED kept
         /\ pc' \in {"unlocked", "Snapshot"} =>
              \/ cursor' = 1
              \/ pc \in {"unlocked", "Snapshot"} /\ UNCHANGED cursor
<1>1. CASE AddSpan
  <2>1. PICK span \in Spans :
          /\ NextSpan(span)
          /\ Refuse \/ Admit(span)
    BY <1>1 DEF AddSpan, RefuseStale, CountDuplicate, RefuseConflict,
       RefuseCapacity, RefuseMemory, Admit
  <2> QED
    BY <2>1 DEF NextSpan, Refuse
<1>2. CASE Advance \/ StepBack \/ UNCHANGED vars
  BY <1>2 DEF Advance, StepBack, vars, storeVars, loopVars
<1>3. CASE SnapshotBegin \/ \E in \in Batches : AddBegin(in)
  BY <1>3 DEF SnapshotBegin, AddBegin, Enter, storeVars, loopVars
<1>4. CASE EvictSpan
  BY <1>4 DEF EvictSpan
<1>5. CASE EvictEnd
  BY <1>5 DEF EvictEnd
<1>6. CASE AddReturn
  BY <1>6 DEF AddReturn
<1>7. CASE SnapshotReturn
  BY <1>7 DEF SnapshotReturn, loopVars
<1> QED
  BY <1>1, <1>2, <1>3, <1>4, <1>5, <1>6, <1>7 DEF Next

LEMMA LocalsStep == IInv /\ [Next]_vars => LocalsReset'
  BY Control DEF IInv, LocalsReset, TypeOK

(* When the eviction loop has ended, what will be retained is what was     *)
(* fresh: nothing fresh is dropped and nothing expired stays.              *)
LEMMA LoopResult ==
  ASSUME IInv, EvictEnd
  PROVE  /\ \A i \in DOMAIN spans' : /\ ~Expired(spans'[i], reading)
                                     /\ spans'[i] \in Elements(spans)
         /\ \A i \in DOMAIN spans :
              ~Expired(spans[i], reading) => spans[i] \in Elements(spans')
<1>0. /\ spans \in Seq(Spans) /\ kept \in Seq(Spans) /\ cursor \in Nat \ {0}
      /\ pc = "evict" /\ cursor \notin DOMAIN spans
  BY DEF IInv, TypeOK, EvictEnd
<1>1. /\ cursor <= Len(spans) + 1
      /\ Len(kept) <= cursor - 1
      /\ \A j \in DOMAIN kept :
           /\ ~Expired(kept[j], reading)
           /\ \E i \in DOMAIN spans : i < cursor /\ kept[j] = spans[i]
      /\ \A i \in DOMAIN spans :
           i < cursor /\ ~Expired(spans[i], reading)
             => \E j \in DOMAIN kept : kept[j] = spans[i]
      /\ Len(kept) = cursor - 1 =>
           \A i \in DOMAIN spans : i < cursor => ~Expired(spans[i], reading)
  BY <1>0 DEF IInv, LoopInv
<1>2. cursor = Len(spans) + 1
  BY <1>0, <1>1
<1>3. \A i \in DOMAIN spans : i < cursor
  BY <1>0, <1>2
<1>4. CASE SomeDropped
  <2>1. spans' = kept
    BY <1>4 DEF EvictEnd
  <2> QED
    BY <1>1, <1>3, <2>1 DEF Elements
<1>5. CASE ~SomeDropped
  <2>1. spans' = spans
    BY <1>5 DEF EvictEnd
  <2>2. Len(kept) = cursor - 1
    BY <1>0, <1>1, <1>2, <1>5 DEF SomeDropped, Dropped
  <2> QED
    BY <1>1, <1>3, <2>1, <2>2 DEF Elements
<1> QED
  BY <1>4, <1>5

LEMMA FreshStep == IInv /\ [Next]_vars => RoomIsForFresh'
<1> SUFFICES ASSUME IInv, [Next]_vars, pc' \in {"Add", "Snapshot"}
             PROVE  \A i \in DOMAIN spans' : ~Expired(spans'[i], reading')
  BY DEF RoomIsForFresh
<1>1. CASE EvictEnd
  <2>1. reading' = reading
    BY <1>1 DEF EvictEnd
  <2> QED
    BY <1>1, <2>1, LoopResult
<1>2. CASE pc = pc' /\ UNCHANGED <<spans, reading>>
  BY <1>2 DEF IInv, RoomIsForFresh
<1>3. ASSUME NEW span \in Spans, Admit(span), pc = pc', UNCHANGED reading
      PROVE  \A i \in DOMAIN spans' : ~Expired(spans'[i], reading')
  <2>1. spans \in Seq(Spans) /\ \A i \in DOMAIN spans : ~Expired(spans[i], reading)
    BY <1>3 DEF IInv, TypeOK, RoomIsForFresh
  <2>2. spans' = Append(spans, span) /\ ~Expired(span, reading)
    BY <1>3 DEF Admit, Stale
  <2> QED
    BY <1>3, <2>1, <2>2
<1> QED
  BY <1>1, <1>2, <1>3, Control DEF IInv, TypeOK

LEMMA LoopStep == IInv /\ [Next]_vars => LoopInv'
<1> SUFFICES ASSUME IInv, [Next]_vars, pc' = "evict" PROVE LoopInv'
  BY DEF LoopInv
<1>0. /\ spans \in Seq(Spans) /\ kept \in Seq(Spans) /\ cursor \in Nat \ {0}
      /\ UniqueIdentities(spans)
  BY UniqueSpans DEF IInv, TypeOK
<1>1. CASE pc = "unlocked" /\ UNCHANGED <<spans, cursor, kept>>
  <2>1. cursor' = 1 /\ kept' = <<>> /\ spans' \in Seq(Spans)
    BY <1>0, <1>1 DEF IInv, LocalsReset
  <2> QED
    BY <2>1 DEF LoopInv, UniqueIdentities
<1>2. CASE pc = "evict" /\ UNCHANGED <<spans, cursor, kept, reading>>
  BY <1>2 DEF IInv, LoopInv, UniqueIdentities
<1>3. CASE EvictSpan
  <2>1. /\ pc = "evict" /\ cursor \in DOMAIN spans /\ cursor' = cursor + 1
        /\ spans' = spans /\ reading' = reading
    BY <1>3 DEF EvictSpan, storeVars
  <2>2. /\ Len(kept) <= cursor - 1
        /\ \A j \in DOMAIN kept :
             /\ ~Expired(kept[j], reading)
             /\ \E i \in DOMAIN spans : i < cursor /\ kept[j] = spans[i]
        /\ \A i \in DOMAIN spans :
             i < cursor /\ ~Expired(spans[i], reading)
               => \E j \in DOMAIN kept : kept[j] = spans[i]
        /\ UniqueIdentities(kept)
        /\ Len(kept) = cursor - 1 =>
             \A i \in DOMAIN spans : i < cursor => ~Expired(spans[i], reading)
    BY <2>1 DEF IInv, LoopInv
  <2>3. \A i \in DOMAIN spans : i < cursor + 1 <=> i < cursor \/ i = cursor
    BY <1>0
  <2>4. CASE Expired(spans[cursor], reading)
    <3>1. kept' = kept
      BY <1>3, <2>4 DEF EvictSpan
    <3>2. Len(kept) <= cursor /\ Len(kept) # cursor /\ cursor + 1 <= Len(spans) + 1
      BY <1>0, <2>1, <2>2
    <3> QED
      BY <1>0, <2>1, <2>2, <2>3, <2>4, <3>1, <3>2 DEF LoopInv, UniqueIdentities
  <2>5. CASE ~Expired(spans[cursor], reading)
    <3>1. kept' = Append(kept, spans[cursor])
      BY <1>3, <2>5 DEF EvictSpan
    <3>2. /\ Len(kept') = Len(kept) + 1
          /\ DOMAIN kept' = 1 .. Len(kept) + 1
          /\ kept'[Len(kept) + 1] = spans[cursor]
          /\ \A j \in DOMAIN kept : j \in DOMAIN kept' /\ kept'[j] = kept[j]
          /\ \A j \in DOMAIN kept' : j # Len(kept) + 1 => j \in DOMAIN kept
      BY <1>0, <2>1, <3>1
    <3>3. cursor' <= Len(spans') + 1 /\ Len(kept') <= cursor' - 1
      BY <1>0, <2>1, <2>2, <3>2
    <3>4. ASSUME NEW j \in DOMAIN kept'
          PROVE  /\ ~Expired(kept'[j], reading')
                 /\ \E i \in DOMAIN spans' : i < cursor' /\ kept'[j] = spans'[i]
      BY <2>1, <2>2, <2>3, <2>5, <3>2
    <3>5. ASSUME NEW i \in DOMAIN spans', i < cursor', ~Expired(spans'[i], reading')
          PROVE  \E j \in DOMAIN kept' : kept'[j] = spans'[i]
      <4>1. CASE i = cursor
        <5>1. Len(kept) + 1 \in DOMAIN kept'
          BY <1>0, <3>2
        <5> QED
          BY <2>1, <3>2, <4>1, <5>1
      <4>2. CASE i < cursor
        <5>1. PICK j \in DOMAIN kept : kept[j] = spans[i]
          BY <2>1, <2>2, <3>5, <4>2
        <5> QED
          BY <2>1, <3>2, <5>1
      <4> QED
        BY <2>1, <2>3, <3>5, <4>1, <4>2
    <3>6. UniqueIdentities(kept')
      <4>1. ASSUME NEW j \in DOMAIN kept, Identified(spans[cursor])
            PROVE  kept[j].id # spans[cursor].id
        <5>1. PICK i \in DOMAIN spans : i < cursor /\ kept[j] = spans[i]
          BY <2>2
        <5>2. i # cursor
          BY <1>0, <5>1
        <5> QED
          BY <1>0, <2>1, <4>1, <5>1, <5>2 DEF UniqueIdentities
      <4>2. ASSUME NEW j \in DOMAIN kept', NEW k \in DOMAIN kept',
                   Identified(kept'[j]), kept'[j].id = kept'[k].id
            PROVE  j = k
        <5>1. CASE j \in DOMAIN kept /\ k \in DOMAIN kept
          BY <2>2, <3>2, <4>2, <5>1 DEF UniqueIdentities
        <5>2. CASE j \in DOMAIN kept /\ k = Len(kept) + 1
          BY <3>2, <4>1, <4>2, <5>2 DEF Identified
        <5>3. CASE j = Len(kept) + 1 /\ k \in DOMAIN kept
          BY <3>2, <4>1, <4>2, <5>3
        <5> QED
          BY <3>2, <5>1, <5>2, <5>3
      <4> QED
        BY <4>2 DEF UniqueIdentities
    <3>7. ASSUME Len(kept') = cursor' - 1
          PROVE  \A i \in DOMAIN spans' : i < cursor' => ~Expired(spans'[i], reading')
      <4>1. Len(kept) = cursor - 1
        BY <1>0, <2>1, <3>2, <3>7
      <4> QED
        BY <2>1, <2>2, <2>3, <2>5, <4>1
    <3> QED
      BY <3>3, <3>4, <3>5, <3>6, <3>7 DEF LoopInv
  <2> QED
    BY <2>4, <2>5
<1> QED
  BY <1>1, <1>2, <1>3, Control DEF IInv, TypeOK

----------------------------------------------------------------------------
LEMMA InvStep == IInv /\ [Next]_vars => IInv'
<1>1. IInv /\ [Next]_vars => TypeOK'
  BY TypeStep DEF IInv
<1> QED
  BY <1>1, IndexStep, CacheStep, CapacityStep, FreshStep, LoopStep, LocalsStep
  DEF IInv

(* Every reachable state satisfies the inductive invariant.                *)
THEOREM Invariance == Spec => []IInv
  BY InitInv, InvStep, PTL DEF Spec

(* The store's variables keep their types.                                 *)
THEOREM TypeCorrect == Spec => []TypeOK
  BY Invariance, PTL DEF IInv

(* The identity index always describes the span slice: admission compares  *)
(* an export with the span it repeats and with no other.                   *)
THEOREM IndexAgrees == Spec => []IndexConsistent
  BY Invariance, PTL DEF IInv

(* The snapshot cache is never served stale.                               *)
THEOREM CacheIsCurrent == Spec => []CacheCurrent
  BY Invariance, PTL DEF IInv

(* The store's capacity is never exceeded.                                 *)
THEOREM CapacityHolds == Spec => []WithinCapacity
  BY Invariance, PTL DEF IInv

(* No expired span holds room, or is shown, once a call has evicted.       *)
THEOREM FreshOnly == Spec => []RoomIsForFresh
  BY Invariance, PTL DEF IInv

(* All four together: what each call of the store relies on, it keeps.     *)
THEOREM StaysConsistent == Spec => []Consistent
  BY IndexAgrees, CacheIsCurrent, CapacityHolds, FreshOnly, PTL DEF Consistent

----------------------------------------------------------------------------
(* The store implements the abstract window *)

LEMMA ElementsBound ==
  ASSUME NEW S, NEW seq \in Seq(S)
  PROVE  Cardinality(Elements(seq)) <= Len(seq)
<1> DEFINE f == [i \in 1 .. Len(seq) |-> seq[i]]
<1>0. Elements(seq) = {seq[i] : i \in 1 .. Len(seq)}
  BY DEF Elements
<1>1. f \in Surjection(1 .. Len(seq), Elements(seq))
  BY <1>0 DEF Surjection
<1>2. ExistsSurjection(1 .. Len(seq), Elements(seq))
  BY <1>1 DEF ExistsSurjection
<1> QED
  BY <1>2, FS_SurjCardinalityBound

LEMMA ElementsFinite ==
  ASSUME NEW S, NEW seq \in Seq(S)
  PROVE  IsFiniteSet(Elements(seq))
<1> DEFINE f == [i \in 1 .. Len(seq) |-> seq[i]]
<1>0. Elements(seq) = {seq[i] : i \in 1 .. Len(seq)}
  BY DEF Elements
<1>1. f \in Surjection(1 .. Len(seq), Elements(seq))
  BY <1>0 DEF Surjection
<1>2. IsFiniteSet(1 .. Len(seq))
  BY FS_Interval
<1> QED
  BY <1>1, <1>2, FS_Surjection

LEMMA ElementsOfAppend ==
  ASSUME NEW S, NEW seq \in Seq(S), NEW e \in S
  PROVE  Elements(Append(seq, e)) = Elements(seq) \cup {e}
<1>1. /\ DOMAIN Append(seq, e) = 1 .. Len(seq) + 1
      /\ Append(seq, e)[Len(seq) + 1] = e
      /\ \A i \in 1 .. Len(seq) : Append(seq, e)[i] = seq[i]
  OBVIOUS
<1>2. DOMAIN seq = 1 .. Len(seq) /\ Len(seq) \in Nat
  OBVIOUS
<1> QED
  BY <1>1, <1>2 DEF Elements

LEMMA WindowInit == Init => Window!Init
<1>1. Elements(<<>>) = {}
  BY DEF Elements
<1> QED
  BY <1>1 DEF Init, Window!Init

LEMMA WindowExpire == IInv /\ EvictEnd => Window!Expire
<1> SUFFICES ASSUME IInv, EvictEnd PROVE Window!Expire
  OBVIOUS
<1>1. \A span : Expired(span, reading) <=> Window!Expired(span, reading)
  BY DEF Expired, Window!Expired
<1>2. Elements(spans') = {span \in Elements(spans) : ~Window!Expired(span, reading)}
  <2>1. ASSUME NEW span \in Elements(spans')
        PROVE  span \in Elements(spans) /\ ~Expired(span, reading)
    BY <2>1, LoopResult DEF Elements
  <2>2. ASSUME NEW span \in Elements(spans), ~Expired(span, reading)
        PROVE  span \in Elements(spans')
    BY <2>2, LoopResult DEF Elements
  <2> QED
    BY <1>1, <2>1, <2>2
<1>3. UNCHANGED <<now, stepBacks, reading, view, admitted>>
  BY DEF EvictEnd, envVars
<1> QED
  BY <1>2, <1>3 DEF Window!Expire

LEMMA WindowAdmit ==
  ASSUME IInv, NEW span \in Spans, Admit(span)
  PROVE  Window!Admit(span)
<1>0. /\ spans \in Seq(Spans) /\ pc = "Add" /\ MaxSpans \in Nat
  BY StoreAssumption DEF IInv, TypeOK, Admit, NextSpan
<1>1. \A s : Expired(s, reading) <=> Window!Expired(s, reading)
  BY DEF Expired, Window!Expired
<1>2. Identified(span) <=> Window!Identified(span)
  BY DEF Identified, Window!Identified
<1>3. Window!AllFresh
  BY <1>0, <1>1 DEF IInv, RoomIsForFresh, Window!AllFresh, Elements
<1>4. ~Window!Expired(span, reading)
  BY <1>1 DEF Admit, Stale
<1>5. ASSUME Identified(span), NEW other \in Elements(spans)
      PROVE  other.id # span.id
  <2>1. PICK i \in DOMAIN spans : other = spans[i]
    BY DEF Elements
  <2>2. span.id \notin DOMAIN index
    BY <1>5 DEF Admit, Known
  <2>3. Identified(spans[i]) => spans[i].id \in DOMAIN index
    BY DEF IInv, IndexConsistent
  <2> QED
    BY <1>5, <2>1, <2>2, <2>3 DEF Identified
<1>6. Cardinality(Elements(spans)) < MaxSpans
  <2>1. Cardinality(Elements(spans)) <= Len(spans)
    BY <1>0, ElementsBound
  <2>2. Len(spans) < MaxSpans
    BY <1>0 DEF Admit, Full
  <2>3. Cardinality(Elements(spans)) \in Nat
    <3>1. IsFiniteSet(Elements(spans))
      BY <1>0, ElementsFinite
    <3> QED
      BY <3>1, FS_CardinalityType
  <2> QED
    BY <1>0, <2>1, <2>2, <2>3
<1>7. Elements(spans') = Elements(spans) \cup {span}
  BY <1>0, ElementsOfAppend DEF Admit
<1>8. Window!Identified(span) => \A other \in Elements(spans) : other.id # span.id
  BY <1>2, <1>5
<1>9. /\ admitted' = IF Window!Identified(span) THEN admitted \cup {span} ELSE admitted
      /\ UNCHANGED <<now, stepBacks, reading, view>>
  BY <1>2 DEF Admit, NextSpan, envVars
<1>10. Window!Cardinality(Elements(spans)) = Cardinality(Elements(spans))
  BY DEF Window!Cardinality, Cardinality
<1> QED
  BY <1>3, <1>4, <1>6, <1>7, <1>8, <1>9, <1>10 DEF Window!Admit

LEMMA WindowObserve == IInv /\ SnapshotReturn => Window!Observe
<1> SUFFICES ASSUME IInv, SnapshotReturn PROVE Window!Observe
  OBVIOUS
<1>1. \A s : Expired(s, reading) <=> Window!Expired(s, reading)
  BY DEF Expired, Window!Expired
<1>2. Window!AllFresh
  BY <1>1 DEF IInv, RoomIsForFresh, SnapshotReturn, Window!AllFresh, Elements
<1>3. {Elements(seen) : seen \in Elements(view')} = {Elements(spans)}
  <2>1. view' = <<spans>>
    BY DEF SnapshotReturn, CacheHit, IInv, CacheCurrent
  <2>2. Elements(<<spans>>) = {spans}
    BY DEF Elements
  <2> QED
    BY <2>1, <2>2
<1>4. UNCHANGED <<now, stepBacks, reading, spans, admitted>>
  BY DEF SnapshotReturn, envVars
<1> QED
  BY <1>2, <1>3, <1>4 DEF Window!Observe

LEMMA WindowStep == IInv /\ [Next]_vars => [Window!Next]_(Window!vars)
<1> SUFFICES ASSUME IInv, [Next]_vars PROVE [Window!Next]_(Window!vars)
  OBVIOUS
<1> USE DEF storeVars, envVars, loopVars
<1>1. CASE Advance
  BY <1>1 DEF Advance, Window!Next, Window!Advance
<1>2. CASE StepBack
  BY <1>2 DEF StepBack, Window!Next, Window!StepBack
<1>3. CASE SnapshotBegin \/ \E in \in Batches : AddBegin(in)
  <2>1. {Elements(seen) : seen \in Elements(<<>>)} = {}
    BY DEF Elements
  <2> QED
    BY <1>3, <2>1 DEF SnapshotBegin, AddBegin, Enter, Window!Next, Window!ReadClock
<1>4. CASE EvictEnd
  BY <1>4, WindowExpire DEF Window!Next
<1>5. CASE AddSpan
  <2>1. PICK span \in Spans :
          /\ NextSpan(span)
          /\ Refuse \/ Admit(span)
    BY <1>5 DEF AddSpan, RefuseStale, CountDuplicate, RefuseConflict,
       RefuseCapacity, RefuseMemory, Admit
  <2>2. CASE Admit(span)
    BY <2>2, WindowAdmit DEF Window!Next
  <2>3. CASE Refuse
    BY <2>1, <2>3 DEF NextSpan, Refuse, Window!vars
  <2> QED
    BY <2>1, <2>2, <2>3
<1>6. CASE SnapshotReturn
  BY <1>6, WindowObserve DEF Window!Next
<1>7. CASE EvictSpan \/ AddReturn \/ UNCHANGED vars
  BY <1>7 DEF EvictSpan, AddReturn, vars, Window!vars
<1> QED
  BY <1>1, <1>2, <1>3, <1>4, <1>5, <1>6, <1>7 DEF Next

(* The store, with its mutex, index, hashes and cache, does only what the  *)
(* abstract window allows.                                                 *)
THEOREM Implementation == Spec => ImplementsWindow
  BY Invariance, WindowInit, WindowStep, PTL
  DEF Spec, ImplementsWindow, Window!Spec

----------------------------------------------------------------------------
(* An evicted span does not return *)

(* While the clock was never set back, every identified span ever admitted *)
(* is still retained or had expired at the store's last clock reading.     *)
AdmittedInv ==
  stepBacks = 0 =>
    /\ reading <= now
    /\ \A span \in admitted : span \in Elements(spans) \/ Expired(span, reading)

LEMMA ExpiredStays ==
  ASSUME NEW span \in Spans, NEW t \in Int, NEW u \in Int, t <= u, Expired(span, t)
  PROVE  Expired(span, u)
  BY StoreAssumption DEF Expired

LEMMA AdmittedStep == IInv /\ AdmittedInv /\ [Next]_vars => AdmittedInv'
<1> SUFFICES ASSUME IInv, AdmittedInv, [Next]_vars, stepBacks' = 0
             PROVE  /\ reading' <= now'
                    /\ \A span \in admitted' :
                         span \in Elements(spans') \/ Expired(span, reading')
  BY DEF AdmittedInv
<1>0. /\ now \in Nat /\ stepBacks \in Nat /\ reading \in Nat
      /\ admitted \subseteq Spans /\ spans \in Seq(Spans)
  BY DEF IInv, TypeOK
<1>1. CASE Advance
  BY <1>0, <1>1 DEF AdmittedInv, Advance, storeVars
<1>2. CASE StepBack
  BY <1>0, <1>2 DEF StepBack
<1>3. CASE SnapshotBegin \/ \E in \in Batches : AddBegin(in)
  <2>1. /\ reading' = now
        /\ UNCHANGED <<now, stepBacks, spans, admitted>>
    BY <1>3 DEF SnapshotBegin, AddBegin, Enter, storeVars, envVars
  <2>2. reading <= now
    BY <2>1 DEF AdmittedInv
  <2> QED
    BY <1>0, <2>1, <2>2, ExpiredStays DEF AdmittedInv
<1>4. CASE EvictEnd
  <2>1. UNCHANGED <<now, stepBacks, reading, admitted>>
    BY <1>4 DEF EvictEnd, envVars
  <2>2. \A span \in Elements(spans) :
          ~Expired(span, reading) => span \in Elements(spans')
    BY <1>4, LoopResult DEF Elements
  <2> QED
    BY <2>1, <2>2 DEF AdmittedInv
<1>5. CASE AddSpan
  <2>1. PICK span \in Spans :
          /\ NextSpan(span)
          /\ Refuse \/ Admit(span)
    BY <1>5 DEF AddSpan, RefuseStale, CountDuplicate, RefuseConflict,
       RefuseCapacity, RefuseMemory, Admit
  <2>2. UNCHANGED <<now, stepBacks, reading>>
    BY <2>1 DEF NextSpan, envVars
  <2>3. CASE Admit(span)
    <3>1. Elements(spans') = Elements(spans) \cup {span}
      BY <1>0, <2>3, ElementsOfAppend DEF Admit
    <3>2. admitted' \subseteq admitted \cup {span}
      BY <2>3 DEF Admit
    <3> QED
      BY <2>2, <3>1, <3>2 DEF AdmittedInv
  <2>4. CASE Refuse
    BY <2>2, <2>4 DEF Refuse, AdmittedInv
  <2> QED
    BY <2>1, <2>3, <2>4
<1>6. CASE EvictSpan \/ AddReturn \/ SnapshotReturn \/ UNCHANGED vars
  BY <1>6 DEF EvictSpan, AddReturn, SnapshotReturn, vars, storeVars, envVars,
              AdmittedInv
<1> QED
  BY <1>1, <1>2, <1>3, <1>4, <1>5, <1>6 DEF Next

LEMMA EntersOnlyOnce ==
  ASSUME IInv, AdmittedInv, [Next]_vars, stepBacks = 0,
         NEW span \in Elements(spans') \ Elements(spans), Identified(span)
  PROVE  span \notin admitted
<1>1. CASE EvictEnd
  BY <1>1, LoopResult DEF Elements
<1>2. ASSUME NEW s \in Spans, Admit(s)
      PROVE  span \notin admitted
  <2>0. spans \in Seq(Spans) /\ spans' = Append(spans, s)
    BY <1>2 DEF Admit, IInv, TypeOK
  <2>1. Elements(spans') = Elements(spans) \cup {s}
    BY <1>2, <2>0, ElementsOfAppend
  <2>2. span = s /\ ~Expired(span, reading)
    BY <1>2, <2>1 DEF Admit, Stale
  <2> QED
    BY <2>2 DEF AdmittedInv
<1>3. CASE UNCHANGED spans
  BY <1>3
<1> QED
  BY <1>1, <1>2, <1>3, StoreChanges

(* While the wall clock was never set back, an identified span that was    *)
(* evicted is never retained again.                                        *)
THEOREM RetryAfterEviction == Spec => NeverReadmitted
<1> DEFINE Enters ==
      stepBacks = 0 =>
        \A span \in Elements(spans)' \ Elements(spans) :
          Window!Identified(span) => span \notin admitted
<1>1. Init => AdmittedInv
  BY DEF Init, AdmittedInv
<1>2. IInv /\ AdmittedInv /\ [Next]_vars => [Enters]_(Window!vars)
  BY EntersOnlyOnce DEF Identified, Window!Identified
<1> HIDE DEF Enters
<1>3. Spec => [][Enters]_(Window!vars)
  BY Invariance, AdmittedStep, <1>1, <1>2, PTL DEF Spec
<1> QED
  BY <1>3, PTL DEF Enters, NeverReadmitted, Window!NeverReadmitted
----------------------------------------------------------------------------
(* The gauges *)

(* An eviction sets the gauges, and a snapshot changes nothing after it.   *)
GaugesInv ==
  pc \in {"unlocked", "Snapshot"} =>
    gauges.spans = Len(spans) /\ gauges.bytes = currentBytes

LEMMA GaugesStep == IInv /\ GaugesInv /\ [Next]_vars => GaugesInv'
<1> SUFFICES ASSUME IInv, GaugesInv, [Next]_vars PROVE GaugesInv'
  OBVIOUS
<1> USE DEF GaugesInv
<1>1. CASE EvictEnd
  BY <1>1 DEF EvictEnd
<1>2. CASE AddReturn
  BY <1>2 DEF AddReturn, GaugesOnReturn, storeVars
<1>3. CASE AddSpan
  BY <1>3 DEF AddSpan, NextSpan, RefuseStale, CountDuplicate, RefuseConflict,
     RefuseCapacity, RefuseMemory, Admit
<1>4. CASE Advance \/ StepBack \/ EvictSpan \/ SnapshotReturn \/ UNCHANGED vars
  BY <1>4 DEF Advance, StepBack, EvictSpan, SnapshotReturn, vars, storeVars, counterVars
<1>5. CASE SnapshotBegin \/ \E in \in Batches : AddBegin(in)
  BY <1>5 DEF SnapshotBegin, AddBegin, Enter
<1> QED
  BY <1>1, <1>2, <1>3, <1>4, <1>5 DEF Next

(* While no call is inside, a scrape of the state gauges shows the store.  *)
THEOREM GaugesHold == Spec => []GaugesAgree
<1>1. Init => GaugesInv
  BY DEF Init, GaugesInv
<1>2. GaugesInv => GaugesAgree
  BY DEF GaugesInv, GaugesAgree
<1> QED
  BY Invariance, GaugesStep, <1>1, <1>2, PTL DEF Spec

----------------------------------------------------------------------------
(* The ledger *)

(* A field of a counter goes up by one when it is named.                   *)
LEMMA CountedStats ==
  ASSUME NEW was \in [StatNames -> Nat], NEW names
  PROVE  /\ Count(was, names).rejected = IF "rejected" \in names THEN was.rejected + 1 ELSE was.rejected
         /\ Count(was, names).duplicates = IF "duplicates" \in names THEN was.duplicates + 1 ELSE was.duplicates
         /\ Count(was, names).conflicting = IF "conflicting" \in names THEN was.conflicting + 1 ELSE was.conflicting
         /\ Count(was, names).evictions = IF "evictions" \in names THEN was.evictions + 1 ELSE was.evictions
  BY DEF Count, StatNames

LEMMA CountedSeries ==
  ASSUME NEW was \in [SeriesNames -> Nat], NEW names
  PROVE  /\ Count(was, names).audited = IF "audited" \in names THEN was.audited + 1 ELSE was.audited
         /\ Count(was, names).duplicates = IF "duplicates" \in names THEN was.duplicates + 1 ELSE was.duplicates
         /\ Count(was, names).stale = IF "stale" \in names THEN was.stale + 1 ELSE was.stale
         /\ Count(was, names).capacity = IF "capacity" \in names THEN was.capacity + 1 ELSE was.capacity
         /\ Count(was, names).memory = IF "memory" \in names THEN was.memory + 1 ELSE was.memory
         /\ Count(was, names).conflicting = IF "conflicting" \in names THEN was.conflicting + 1 ELSE was.conflicting
  BY DEF Count, SeriesNames

LEMMA CountedResult ==
  ASSUME NEW was \in [ResultNames -> Nat], NEW names
  PROVE  /\ Count(was, names).accepted = IF "accepted" \in names THEN was.accepted + 1 ELSE was.accepted
         /\ Count(was, names).rejected = IF "rejected" \in names THEN was.rejected + 1 ELSE was.rejected
         /\ Count(was, names).duplicates = IF "duplicates" \in names THEN was.duplicates + 1 ELSE was.duplicates
         /\ Count(was, names).conflicting = IF "conflicting" \in names THEN was.conflicting + 1 ELSE was.conflicting
         /\ Count(was, names).memory = IF "memory" \in names THEN was.memory + 1 ELSE was.memory
  BY DEF Count, ResultNames

(* A span leaves the pending ones and enters one of six counts: the total  *)
(* stays.  And one rejection more is one more of one of four.              *)
LEMMA MovedFromPending ==
  ASSUME Pending \in Nat \ {0}, metrics.audited \in Nat, metrics.duplicates \in Nat,
         metrics.stale \in Nat, metrics.capacity \in Nat, metrics.memory \in Nat,
         metrics.conflicting \in Nat, NEW total,
         total = Pending + metrics.audited + metrics.duplicates + metrics.stale
                   + metrics.capacity + metrics.memory + metrics.conflicting
  PROVE  /\ (Pending - 1) + (metrics.audited + 1) + metrics.duplicates + metrics.stale
              + metrics.capacity + metrics.memory + metrics.conflicting = total
         /\ (Pending - 1) + metrics.audited + (metrics.duplicates + 1) + metrics.stale
              + metrics.capacity + metrics.memory + metrics.conflicting = total
         /\ (Pending - 1) + metrics.audited + metrics.duplicates + (metrics.stale + 1)
              + metrics.capacity + metrics.memory + metrics.conflicting = total
         /\ (Pending - 1) + metrics.audited + metrics.duplicates + metrics.stale
              + (metrics.capacity + 1) + metrics.memory + metrics.conflicting = total
         /\ (Pending - 1) + metrics.audited + metrics.duplicates + metrics.stale
              + metrics.capacity + (metrics.memory + 1) + metrics.conflicting = total
         /\ (Pending - 1) + metrics.audited + metrics.duplicates + metrics.stale
              + metrics.capacity + metrics.memory + (metrics.conflicting + 1) = total
<1>1. (Pending - 1) + (metrics.audited + 1) + metrics.duplicates + metrics.stale
              + metrics.capacity + metrics.memory + metrics.conflicting = total
  OBVIOUS
<1>2. (Pending - 1) + metrics.audited + (metrics.duplicates + 1) + metrics.stale
              + metrics.capacity + metrics.memory + metrics.conflicting = total
  OBVIOUS
<1>3. (Pending - 1) + metrics.audited + metrics.duplicates + (metrics.stale + 1)
              + metrics.capacity + metrics.memory + metrics.conflicting = total
  OBVIOUS
<1>4. (Pending - 1) + metrics.audited + metrics.duplicates + metrics.stale
              + (metrics.capacity + 1) + metrics.memory + metrics.conflicting = total
  OBVIOUS
<1>5. (Pending - 1) + metrics.audited + metrics.duplicates + metrics.stale
              + metrics.capacity + (metrics.memory + 1) + metrics.conflicting = total
  OBVIOUS
<1>6. (Pending - 1) + metrics.audited + metrics.duplicates + metrics.stale
              + metrics.capacity + metrics.memory + (metrics.conflicting + 1) = total
  <2> DEFINE rest == metrics.audited + metrics.duplicates + metrics.stale
                       + metrics.capacity + metrics.memory
  <2>1. rest \in Nat /\ total = Pending + rest + metrics.conflicting
    OBVIOUS
  <2>2. (Pending - 1) + metrics.audited + metrics.duplicates + metrics.stale
          + metrics.capacity + metrics.memory + (metrics.conflicting + 1)
        = (Pending - 1) + rest + (metrics.conflicting + 1)
    OBVIOUS
  <2>3. (Pending - 1) + rest + (metrics.conflicting + 1) = Pending + rest + metrics.conflicting
    <3> HIDE DEF rest
    <3> QED
      BY <2>1
  <2> QED
    BY <2>1, <2>2, <2>3
<1> QED
  BY <1>1, <1>2, <1>3, <1>4, <1>5, <1>6

LEMMA OneMoreRejected ==
  ASSUME metrics.stale \in Nat, metrics.capacity \in Nat, metrics.memory \in Nat,
         metrics.conflicting \in Nat, NEW total,
         total = metrics.stale + metrics.capacity + metrics.memory + metrics.conflicting
  PROVE  /\ (metrics.stale + 1) + metrics.capacity + metrics.memory + metrics.conflicting = total + 1
         /\ metrics.stale + (metrics.capacity + 1) + metrics.memory + metrics.conflicting = total + 1
         /\ metrics.stale + metrics.capacity + (metrics.memory + 1) + metrics.conflicting = total + 1
         /\ metrics.stale + metrics.capacity + metrics.memory + (metrics.conflicting + 1) = total + 1
<1>1. (metrics.stale + 1) + metrics.capacity + metrics.memory + metrics.conflicting = total + 1
  OBVIOUS
<1>2. metrics.stale + (metrics.capacity + 1) + metrics.memory + metrics.conflicting = total + 1
  OBVIOUS
<1>3. metrics.stale + metrics.capacity + (metrics.memory + 1) + metrics.conflicting = total + 1
  OBVIOUS
<1>4. metrics.stale + metrics.capacity + metrics.memory + (metrics.conflicting + 1) = total + 1
  OBVIOUS
<1> QED
  BY <1>1, <1>2, <1>3, <1>4

LedgerInv ==
  /\ Ledger
  /\ pc = "Add" => cursor <= Len(batch) + 1

(* What a step that touches no counter keeps of the ledger.                *)
LEMMA LedgerKept ==
  ASSUME Ledger, UNCHANGED <<stats, metrics, spans>>, offered' - Pending' = offered - Pending,
         offered \in Nat, offered' \in Nat, Pending \in Nat, Pending' \in Nat,
         metrics \in [SeriesNames -> Nat]
  PROVE  Ledger'
<1> DEFINE Total == metrics.audited + metrics.duplicates + metrics.stale
                    + metrics.capacity + metrics.memory + metrics.conflicting
<1>1. /\ metrics.audited \in Nat /\ metrics.duplicates \in Nat /\ metrics.stale \in Nat
      /\ metrics.capacity \in Nat /\ metrics.memory \in Nat /\ metrics.conflicting \in Nat
  BY DEF SeriesNames
<1>2. Total \in Nat
  BY <1>1
<1>3. offered = Pending + Total
  <2>1. offered = Pending + metrics.audited + metrics.duplicates + metrics.stale
                  + metrics.capacity + metrics.memory + metrics.conflicting
    BY DEF Ledger
  <2>2. Pending + metrics.audited + metrics.duplicates + metrics.stale
          + metrics.capacity + metrics.memory + metrics.conflicting = Pending + Total
    BY <1>1
  <2> QED
    BY <2>1, <2>2
<1>4. offered' = Pending' + Total
  <2> HIDE DEF Total
  <2>1. PICK n, q \in Nat : n = offered' /\ q = Pending'
    OBVIOUS
  <2>2. n - q = offered - Pending
    BY <2>1, Zenon
  <2>3. n = q + Total
    BY <1>2, <1>3, <2>2
  <2> QED
    BY <2>1, <2>3, Zenon
<1>5. offered' = Pending' + metrics'.audited + metrics'.duplicates + metrics'.stale
                  + metrics'.capacity + metrics'.memory + metrics'.conflicting
  BY <1>1, <1>4
<1> QED
  BY <1>5 DEF Ledger

LEMMA LedgerStep == IInv /\ LedgerInv /\ [Next]_vars => LedgerInv'
<1> SUFFICES ASSUME IInv, LedgerInv, [Next]_vars PROVE LedgerInv'
  OBVIOUS
<1>0. /\ stats \in [StatNames -> Nat] /\ metrics \in [SeriesNames -> Nat]
      /\ spans \in Seq(Spans) /\ kept \in Seq(Spans) /\ batch \in Seq(Spans)
      /\ cursor \in Nat \ {0} /\ offered \in Nat
      /\ caller \in {"Add", "Snapshot"}
      /\ Ledger
  BY DEF IInv, TypeOK, LedgerInv
<1>a. Pending \in Nat
  BY <1>0 DEF Pending, LedgerInv
<1>1. CASE EvictEnd
  <2>0. /\ cursor' = 1 /\ batch' = batch /\ pc' = caller /\ pc = "evict"
        /\ caller' = caller /\ offered' = offered /\ metrics' = metrics
    BY <1>1 DEF EvictEnd
  <2>a. Pending' = Pending
    BY <1>0, <2>0 DEF Pending
  <2>b. (pc = "Add" => cursor <= Len(batch) + 1)'
    BY <1>0, <2>0
  <2>1. CASE SomeDropped
    <3>1. stats' = [stats EXCEPT !.evictions = stats.evictions + (Len(spans) - Len(kept))]
      BY <1>1, <2>1 DEF EvictEnd, EvictionsCounted, Dropped
    <3>2. /\ stats'.rejected = stats.rejected /\ stats'.conflicting = stats.conflicting
          /\ stats'.duplicates = stats.duplicates
          /\ stats'.evictions = stats.evictions + (Len(spans) - Len(kept))
      BY <1>0, <3>1 DEF StatNames
    <3>3. spans' = kept
      BY <1>1, <2>1 DEF EvictEnd
    <3>4. stats.evictions \in Nat /\ metrics.stale \in Nat /\ metrics.audited \in Nat
      BY <1>0 DEF StatNames, SeriesNames
    <3>5. metrics'.audited = Len(spans') + (stats'.evictions - metrics'.stale)
      BY <1>0, <2>0, <3>2, <3>3, <3>4 DEF Ledger
    <3>6. Ledger'
      BY <1>0, <2>0, <2>a, <3>2, <3>5 DEF Ledger
    <3> QED
      BY <2>b, <3>6 DEF LedgerInv
  <2>2. CASE ~SomeDropped
    <3>1. UNCHANGED <<stats, spans>>
      BY <1>1, <2>2 DEF EvictEnd
    <3>2. Ledger'
      BY <1>0, <1>a, <2>0, <2>a, <3>1, LedgerKept
    <3> QED
      BY <2>b, <3>2 DEF LedgerInv
  <2> QED
    BY <2>1, <2>2
<1>2. CASE AddSpan
  <2>0. /\ stats.rejected \in Nat /\ stats.conflicting \in Nat /\ stats.evictions \in Nat
        /\ stats.duplicates \in Nat
        /\ metrics.audited \in Nat /\ metrics.stale \in Nat /\ metrics.capacity \in Nat
        /\ metrics.memory \in Nat /\ metrics.conflicting \in Nat
        /\ metrics.duplicates \in Nat
        /\ Len(spans) \in Nat
    BY <1>0 DEF StatNames, SeriesNames
  <2>1. PICK span \in Spans :
          \/ RefuseStale(span) \/ CountDuplicate(span) \/ RefuseConflict(span)
          \/ RefuseCapacity(span) \/ RefuseMemory(span) \/ Admit(span)
    BY <1>2 DEF AddSpan
  <2>a. /\ pc = "Add" /\ pc' = "Add" /\ cursor \in DOMAIN batch /\ cursor' = cursor + 1
        /\ batch' = batch /\ offered' = offered
    BY <2>1 DEF NextSpan, RefuseStale, CountDuplicate, RefuseConflict,
       RefuseCapacity, RefuseMemory, Admit
  <2>b. /\ Pending \in Nat \ {0} /\ Pending' = Pending - 1
        /\ (pc = "Add" => cursor <= Len(batch) + 1)'
    BY <1>0, <2>a DEF Pending
  <2>c. /\ offered = Pending + metrics.audited + metrics.duplicates + metrics.stale
                       + metrics.capacity + metrics.memory + metrics.conflicting
        /\ stats.rejected =
             metrics.stale + metrics.capacity + metrics.memory + metrics.conflicting
        /\ stats.conflicting = metrics.conflicting
        /\ stats.duplicates = metrics.duplicates
        /\ metrics.audited = Len(spans) + (stats.evictions - metrics.stale)
    BY <1>0 DEF Ledger
  <2>2. CASE RefuseStale(span)
    <3>1. Len(spans') = Len(spans)
      BY <2>2 DEF RefuseStale, Refuse
    <3>2. /\ stats'.rejected = stats.rejected + 1
          /\ stats'.conflicting = stats.conflicting
          /\ stats'.duplicates = stats.duplicates
          /\ stats'.evictions = stats.evictions + 1
      BY <1>0, <2>2, CountedStats DEF RefuseStale
    <3>3. /\ metrics'.audited = metrics.audited
          /\ metrics'.duplicates = metrics.duplicates
          /\ metrics'.stale = metrics.stale + 1
          /\ metrics'.capacity = metrics.capacity
          /\ metrics'.memory = metrics.memory
          /\ metrics'.conflicting = metrics.conflicting
      BY <1>0, <2>2, CountedSeries DEF RefuseStale
    <3>4. offered' = Pending' + metrics'.audited + metrics'.duplicates + metrics'.stale
                      + metrics'.capacity + metrics'.memory + metrics'.conflicting
      <4>1. (Pending - 1) + metrics.audited + metrics.duplicates + (metrics.stale + 1)
              + metrics.capacity + metrics.memory + metrics.conflicting
            = offered
        BY <2>0, <2>b, <2>c, MovedFromPending
      <4> QED
        BY <2>a, <2>b, <2>c, <3>3, <4>1
    <3>5. stats'.rejected =
            metrics'.stale + metrics'.capacity + metrics'.memory + metrics'.conflicting
      <4>1. (metrics.stale + 1) + metrics.capacity + metrics.memory + metrics.conflicting = stats.rejected + 1
        BY <2>0, <2>c, OneMoreRejected
      <4> QED
        BY <2>c, <3>2, <3>3, <4>1
    <3>6. /\ stats'.conflicting = metrics'.conflicting
          /\ stats'.duplicates = metrics'.duplicates
      BY <2>c, <3>2, <3>3
    <3>7. metrics'.audited = Len(spans') + (stats'.evictions - metrics'.stale)
      <4>1. stats'.evictions - metrics'.stale = stats.evictions - metrics.stale
        <5>1. stats'.evictions = stats.evictions + 1
          BY <3>2
        <5>2. metrics'.stale = metrics.stale + 1
          BY <3>3
        <5>3. stats.evictions \in Nat /\ metrics.stale \in Nat
          BY <2>0
        <5> QED
          BY <5>1, <5>2, <5>3
      <4> QED
        BY <2>c, <3>1, <3>3, <4>1
    <3> QED
      BY <2>b, <3>4, <3>5, <3>6, <3>7 DEF Ledger, LedgerInv
  <2>3. CASE CountDuplicate(span)
    <3>1. Len(spans') = Len(spans)
      BY <2>3 DEF CountDuplicate, Refuse
    <3>2. /\ stats'.rejected = stats.rejected
          /\ stats'.conflicting = stats.conflicting
          /\ stats'.duplicates = stats.duplicates + 1
          /\ stats'.evictions = stats.evictions
      BY <1>0, <2>3, CountedStats DEF CountDuplicate
    <3>3. /\ metrics'.audited = metrics.audited
          /\ metrics'.duplicates = metrics.duplicates + 1
          /\ metrics'.stale = metrics.stale
          /\ metrics'.capacity = metrics.capacity
          /\ metrics'.memory = metrics.memory
          /\ metrics'.conflicting = metrics.conflicting
      BY <1>0, <2>3, CountedSeries DEF CountDuplicate
    <3>4. offered' = Pending' + metrics'.audited + metrics'.duplicates + metrics'.stale
                      + metrics'.capacity + metrics'.memory + metrics'.conflicting
      <4>1. (Pending - 1) + metrics.audited + (metrics.duplicates + 1) + metrics.stale
              + metrics.capacity + metrics.memory + metrics.conflicting
            = offered
        BY <2>0, <2>b, <2>c, MovedFromPending
      <4> QED
        BY <2>a, <2>b, <2>c, <3>3, <4>1
    <3>5. stats'.rejected =
            metrics'.stale + metrics'.capacity + metrics'.memory + metrics'.conflicting
      BY <2>c, <3>2, <3>3
    <3>6. /\ stats'.conflicting = metrics'.conflicting
          /\ stats'.duplicates = metrics'.duplicates
      BY <2>c, <3>2, <3>3
    <3>7. metrics'.audited = Len(spans') + (stats'.evictions - metrics'.stale)
      BY <2>0, <2>c, <3>1, <3>2, <3>3
    <3> QED
      BY <2>b, <3>4, <3>5, <3>6, <3>7 DEF Ledger, LedgerInv
  <2>4. CASE RefuseConflict(span)
    <3>1. Len(spans') = Len(spans)
      BY <2>4 DEF RefuseConflict, Refuse
    <3>2. /\ stats'.rejected = stats.rejected + 1
          /\ stats'.conflicting = stats.conflicting + 1
          /\ stats'.duplicates = stats.duplicates
          /\ stats'.evictions = stats.evictions
      BY <1>0, <2>4, CountedStats DEF RefuseConflict
    <3>3. /\ metrics'.audited = metrics.audited
          /\ metrics'.duplicates = metrics.duplicates
          /\ metrics'.stale = metrics.stale
          /\ metrics'.capacity = metrics.capacity
          /\ metrics'.memory = metrics.memory
          /\ metrics'.conflicting = metrics.conflicting + 1
      BY <1>0, <2>4, CountedSeries DEF RefuseConflict
    <3>4. offered' = Pending' + metrics'.audited + metrics'.duplicates + metrics'.stale
                      + metrics'.capacity + metrics'.memory + metrics'.conflicting
      <4>1. (Pending - 1) + metrics.audited + metrics.duplicates + metrics.stale
              + metrics.capacity + metrics.memory + (metrics.conflicting + 1)
            = offered
        BY <2>0, <2>b, <2>c, MovedFromPending
      <4> QED
        BY <2>a, <2>b, <2>c, <3>3, <4>1
    <3>5. stats'.rejected =
            metrics'.stale + metrics'.capacity + metrics'.memory + metrics'.conflicting
      <4>1. metrics.stale + metrics.capacity + metrics.memory + (metrics.conflicting + 1) = stats.rejected + 1
        BY <2>0, <2>c, OneMoreRejected
      <4> QED
        BY <2>c, <3>2, <3>3, <4>1
    <3>6. /\ stats'.conflicting = metrics'.conflicting
          /\ stats'.duplicates = metrics'.duplicates
      BY <2>c, <3>2, <3>3
    <3>7. metrics'.audited = Len(spans') + (stats'.evictions - metrics'.stale)
      BY <2>0, <2>c, <3>1, <3>2, <3>3
    <3> QED
      BY <2>b, <3>4, <3>5, <3>6, <3>7 DEF Ledger, LedgerInv
  <2>5. CASE RefuseCapacity(span)
    <3>1. Len(spans') = Len(spans)
      BY <2>5 DEF RefuseCapacity, Refuse
    <3>2. /\ stats'.rejected = stats.rejected + 1
          /\ stats'.conflicting = stats.conflicting
          /\ stats'.duplicates = stats.duplicates
          /\ stats'.evictions = stats.evictions
      BY <1>0, <2>5, CountedStats DEF RefuseCapacity
    <3>3. /\ metrics'.audited = metrics.audited
          /\ metrics'.duplicates = metrics.duplicates
          /\ metrics'.stale = metrics.stale
          /\ metrics'.capacity = metrics.capacity + 1
          /\ metrics'.memory = metrics.memory
          /\ metrics'.conflicting = metrics.conflicting
      BY <1>0, <2>5, CountedSeries DEF RefuseCapacity
    <3>4. offered' = Pending' + metrics'.audited + metrics'.duplicates + metrics'.stale
                      + metrics'.capacity + metrics'.memory + metrics'.conflicting
      <4>1. (Pending - 1) + metrics.audited + metrics.duplicates + metrics.stale
              + (metrics.capacity + 1) + metrics.memory + metrics.conflicting
            = offered
        BY <2>0, <2>b, <2>c, MovedFromPending
      <4> QED
        BY <2>a, <2>b, <2>c, <3>3, <4>1
    <3>5. stats'.rejected =
            metrics'.stale + metrics'.capacity + metrics'.memory + metrics'.conflicting
      <4>1. metrics.stale + (metrics.capacity + 1) + metrics.memory + metrics.conflicting = stats.rejected + 1
        BY <2>0, <2>c, OneMoreRejected
      <4> QED
        BY <2>c, <3>2, <3>3, <4>1
    <3>6. /\ stats'.conflicting = metrics'.conflicting
          /\ stats'.duplicates = metrics'.duplicates
      BY <2>c, <3>2, <3>3
    <3>7. metrics'.audited = Len(spans') + (stats'.evictions - metrics'.stale)
      BY <2>0, <2>c, <3>1, <3>2, <3>3
    <3> QED
      BY <2>b, <3>4, <3>5, <3>6, <3>7 DEF Ledger, LedgerInv
  <2>6. CASE RefuseMemory(span)
    <3>1. Len(spans') = Len(spans)
      BY <2>6 DEF RefuseMemory, Refuse
    <3>2. /\ stats'.rejected = stats.rejected + 1
          /\ stats'.conflicting = stats.conflicting
          /\ stats'.duplicates = stats.duplicates
          /\ stats'.evictions = stats.evictions
      BY <1>0, <2>6, CountedStats DEF RefuseMemory
    <3>3. /\ metrics'.audited = metrics.audited
          /\ metrics'.duplicates = metrics.duplicates
          /\ metrics'.stale = metrics.stale
          /\ metrics'.capacity = metrics.capacity
          /\ metrics'.memory = metrics.memory + 1
          /\ metrics'.conflicting = metrics.conflicting
      BY <1>0, <2>6, CountedSeries DEF RefuseMemory
    <3>4. offered' = Pending' + metrics'.audited + metrics'.duplicates + metrics'.stale
                      + metrics'.capacity + metrics'.memory + metrics'.conflicting
      <4>1. (Pending - 1) + metrics.audited + metrics.duplicates + metrics.stale
              + metrics.capacity + (metrics.memory + 1) + metrics.conflicting
            = offered
        BY <2>0, <2>b, <2>c, MovedFromPending
      <4> QED
        BY <2>a, <2>b, <2>c, <3>3, <4>1
    <3>5. stats'.rejected =
            metrics'.stale + metrics'.capacity + metrics'.memory + metrics'.conflicting
      <4>1. metrics.stale + metrics.capacity + (metrics.memory + 1) + metrics.conflicting = stats.rejected + 1
        BY <2>0, <2>c, OneMoreRejected
      <4> QED
        BY <2>c, <3>2, <3>3, <4>1
    <3>6. /\ stats'.conflicting = metrics'.conflicting
          /\ stats'.duplicates = metrics'.duplicates
      BY <2>c, <3>2, <3>3
    <3>7. metrics'.audited = Len(spans') + (stats'.evictions - metrics'.stale)
      BY <2>0, <2>c, <3>1, <3>2, <3>3
    <3> QED
      BY <2>b, <3>4, <3>5, <3>6, <3>7 DEF Ledger, LedgerInv
  <2>7. CASE Admit(span)
    <3>1. Len(spans') = Len(spans) + 1
      BY <1>0, <2>7 DEF Admit
    <3>2. /\ stats'.rejected = stats.rejected
          /\ stats'.conflicting = stats.conflicting
          /\ stats'.duplicates = stats.duplicates
          /\ stats'.evictions = stats.evictions
      BY <2>7 DEF Admit
    <3>3. /\ metrics'.audited = metrics.audited + 1
          /\ metrics'.duplicates = metrics.duplicates
          /\ metrics'.stale = metrics.stale
          /\ metrics'.capacity = metrics.capacity
          /\ metrics'.memory = metrics.memory
          /\ metrics'.conflicting = metrics.conflicting
      BY <1>0, <2>7, CountedSeries DEF Admit
    <3>4. offered' = Pending' + metrics'.audited + metrics'.duplicates + metrics'.stale
                      + metrics'.capacity + metrics'.memory + metrics'.conflicting
      <4>1. (Pending - 1) + (metrics.audited + 1) + metrics.duplicates + metrics.stale
              + metrics.capacity + metrics.memory + metrics.conflicting
            = offered
        BY <2>0, <2>b, <2>c, MovedFromPending
      <4> QED
        BY <2>a, <2>b, <2>c, <3>3, <4>1
    <3>5. stats'.rejected =
            metrics'.stale + metrics'.capacity + metrics'.memory + metrics'.conflicting
      BY <2>c, <3>2, <3>3
    <3>6. /\ stats'.conflicting = metrics'.conflicting
          /\ stats'.duplicates = metrics'.duplicates
      BY <2>c, <3>2, <3>3
    <3>7. metrics'.audited = Len(spans') + (stats'.evictions - metrics'.stale)
      <4>1. stats'.evictions = stats.evictions
        BY <3>2
      <4>2. metrics'.audited = metrics.audited + 1 /\ metrics'.stale = metrics.stale
        BY <3>3
      <4>3. metrics.audited = Len(spans) + (stats.evictions - metrics.stale)
        BY <2>c
      <4>4. stats.evictions \in Nat /\ metrics.stale \in Nat /\ Len(spans) \in Nat
        BY <2>0
      <4> QED
        BY <3>1, <4>1, <4>2, <4>3, <4>4
    <3> QED
      BY <2>b, <3>4, <3>5, <3>6, <3>7 DEF Ledger, LedgerInv
  <2> QED
    BY <2>1, <2>2, <2>3, <2>4, <2>5, <2>6, <2>7
<1>3. ASSUME NEW in \in Batches, AddBegin(in)
      PROVE  LedgerInv'
  <2>1. /\ pc = "unlocked" /\ pc' = "evict" /\ caller' = "Add" /\ batch' = in
        /\ offered' = offered + Len(in) /\ UNCHANGED <<stats, metrics, spans>>
    BY <1>3 DEF AddBegin, Enter, storeVars, counterVars
  <2>2. in \in Seq(Spans)
    BY BatchType
  <2>3. Pending = 0 /\ Pending' = Len(in) /\ Len(in) \in Nat
    BY <2>1, <2>2 DEF Pending
  <2>4. Ledger'
    BY <1>0, <2>1, <2>3, LedgerKept
  <2> QED
    BY <2>1, <2>4 DEF LedgerInv
<1>4. CASE AddReturn
  <2>1. /\ pc = "Add" /\ cursor \notin DOMAIN batch /\ pc' = "unlocked"
        /\ offered' = offered /\ UNCHANGED <<stats, metrics, spans>>
    BY <1>4 DEF AddReturn, storeVars
  <2>2. Pending = 0 /\ Pending' = 0
    BY <1>0, <2>1 DEF Pending, LedgerInv
  <2>3. Ledger'
    BY <1>0, <2>1, <2>2, LedgerKept
  <2> QED
    BY <2>1, <2>3 DEF LedgerInv
<1>5. CASE SnapshotBegin \/ SnapshotReturn
  <2>1. /\ pc # "Add" /\ pc' # "Add" /\ Pending = 0 /\ Pending' = 0
        /\ offered' = offered /\ UNCHANGED <<stats, metrics, spans>>
    BY <1>5 DEF SnapshotBegin, SnapshotReturn, Enter, storeVars, counterVars, Pending
  <2>2. Ledger'
    BY <1>0, <2>1, LedgerKept
  <2> QED
    BY <2>1, <2>2 DEF LedgerInv
<1>6. CASE EvictSpan
  <2>1. /\ pc = "evict" /\ pc' = pc /\ Pending' = Pending
        /\ offered' = offered /\ UNCHANGED <<stats, metrics, spans>>
    BY <1>6 DEF EvictSpan, storeVars, counterVars, Pending
  <2>2. Ledger'
    BY <1>0, <1>a, <2>1, LedgerKept
  <2> QED
    BY <2>1, <2>2 DEF LedgerInv
<1>7. CASE Advance \/ StepBack \/ UNCHANGED vars
  <2>1. /\ UNCHANGED <<pc, caller, cursor, batch, offered, stats, metrics, spans>>
    BY <1>7 DEF Advance, StepBack, vars, storeVars, counterVars, loopVars
  <2>2. Pending' = Pending
    BY <2>1 DEF Pending
  <2>3. Ledger'
    BY <1>0, <1>a, <2>1, <2>2, LedgerKept
  <2> QED
    BY <2>1, <2>3 DEF LedgerInv
<1> QED
  BY <1>1, <1>2, <1>3, <1>4, <1>5, <1>6, <1>7 DEF Next

(* Nothing is lost unaccounted: every span handed to Add is audited, a     *)
(* duplicate or rejected for one reason, once its loop has reached it, and *)
(* what was audited is retained or was evicted.                            *)
THEOREM LedgerBalances == Spec => []Ledger
<1>1. Init => LedgerInv
  BY DEF Init, LedgerInv, Ledger, Pending, Zeros, StatNames, SeriesNames
<1>2. LedgerInv => Ledger
  BY DEF LedgerInv
<1> QED
  BY Invariance, LedgerStep, <1>1, <1>2, PTL DEF Spec

----------------------------------------------------------------------------
(* The answer to an exporter *)

AnswerInv ==
  /\ AnswerMatchesStore
  /\ pc # "Add" => result = Zeros(ResultNames)

(* The entry of a known span with the same content stands for a copy that  *)
(* is retained.                                                            *)
LEMMA DuplicateIsRetained ==
  ASSUME IInv, NEW span \in Spans, CountDuplicate(span)
  PROVE  span \in Elements(spans)
<1>1. span.id \in DOMAIN index /\ spans[index[span.id].index] = span
  BY DEF CountDuplicate, Known, SameContent
<1>2. index[span.id].index \in DOMAIN spans
  BY <1>1 DEF IInv, IndexConsistent
<1> QED
  BY <1>1, <1>2 DEF Elements

LEMMA AnswerStep == IInv /\ AnswerInv /\ [Next]_vars => AnswerInv'
<1> SUFFICES ASSUME IInv, AnswerInv, [Next]_vars PROVE AnswerInv'
  OBVIOUS
<1>0. /\ result \in [ResultNames -> Nat] /\ cursor \in Nat \ {0}
      /\ spans \in Seq(Spans)
  BY DEF IInv, TypeOK
<1>1. CASE EvictEnd
  <2>1. cursor' = 1 /\ result' = Zeros(ResultNames)
    BY <1>1 DEF EvictEnd, AnswerInv
  <2> QED
    BY <2>1 DEF AnswerInv, AnswerMatchesStore, Zeros, ResultNames
<1>2. CASE AddReturn
  BY <1>2 DEF AddReturn, AnswerInv, AnswerMatchesStore
<1>3. CASE AddSpan
  <2>1. PICK span \in Spans :
          \/ RefuseStale(span) \/ CountDuplicate(span) \/ RefuseConflict(span)
          \/ RefuseCapacity(span) \/ RefuseMemory(span) \/ Admit(span)
    BY <1>3 DEF AddSpan
  <2>2. /\ pc = "Add" /\ pc' = pc /\ cursor' = cursor + 1 /\ batch' = batch
        /\ span = batch[cursor]
    BY <2>1 DEF NextSpan, RefuseStale, CountDuplicate, RefuseConflict,
       RefuseCapacity, RefuseMemory, Admit
  <2>3. /\ result.accepted + result.rejected + result.duplicates = cursor - 1
        /\ result.conflicting + result.memory <= result.rejected
        /\ result.rejected = 0 =>
             \A i \in 1 .. cursor - 1 : batch[i] \in Elements(spans)
    BY <2>2 DEF AnswerInv, AnswerMatchesStore
  <2>4. Elements(spans) \subseteq Elements(spans')
    <3>1. CASE Admit(span)
      <4>1. Elements(spans') = Elements(spans) \cup {span}
        BY <1>0, <3>1, ElementsOfAppend DEF Admit
      <4> QED
        BY <4>1
    <3>2. CASE ~Admit(span)
      BY <2>1, <3>2 DEF RefuseStale, CountDuplicate, RefuseConflict,
         RefuseCapacity, RefuseMemory, Refuse
    <3> QED
      BY <3>1, <3>2
  <2>5. /\ result'.accepted + result'.rejected + result'.duplicates = cursor
        /\ result'.conflicting + result'.memory <= result'.rejected
        /\ result'.rejected = 0 => result.rejected = 0 /\ span \in Elements(spans')
    <3>0. /\ result.accepted \in Nat /\ result.rejected \in Nat
          /\ result.duplicates \in Nat /\ result.conflicting \in Nat
          /\ result.memory \in Nat
      BY <1>0 DEF ResultNames
    <3>7. cursor \in Nat
      BY <1>0
    <3>1. CASE RefuseStale(span)
      <4>1. /\ result'.accepted = result.accepted
            /\ result'.rejected = result.rejected + 1
            /\ result'.duplicates = result.duplicates
            /\ result'.conflicting = result.conflicting
            /\ result'.memory = result.memory
        BY <1>0, <3>1, CountedResult DEF RefuseStale
      <4> QED
        BY <2>3, <3>0, <3>7, <4>1
    <3>2. CASE CountDuplicate(span)
      <4>1. /\ result'.accepted = result.accepted
            /\ result'.rejected = result.rejected
            /\ result'.duplicates = result.duplicates + 1
            /\ result'.conflicting = result.conflicting
            /\ result'.memory = result.memory
        BY <1>0, <3>2, CountedResult DEF CountDuplicate
      <4>2. span \in Elements(spans')
        BY <2>4, <3>2, DuplicateIsRetained
      <4> QED
        BY <2>3, <3>0, <3>7, <4>1, <4>2
    <3>3. CASE RefuseConflict(span)
      <4>1. /\ result'.accepted = result.accepted
            /\ result'.rejected = result.rejected + 1
            /\ result'.duplicates = result.duplicates
            /\ result'.conflicting = result.conflicting + 1
            /\ result'.memory = result.memory
        BY <1>0, <3>3, CountedResult DEF RefuseConflict
      <4> QED
        BY <2>3, <3>0, <3>7, <4>1
    <3>4. CASE RefuseCapacity(span)
      <4>1. /\ result'.accepted = result.accepted
            /\ result'.rejected = result.rejected + 1
            /\ result'.duplicates = result.duplicates
            /\ result'.conflicting = result.conflicting
            /\ result'.memory = result.memory
        BY <1>0, <3>4, CountedResult DEF RefuseCapacity
      <4> QED
        BY <2>3, <3>0, <3>7, <4>1
    <3>5. CASE RefuseMemory(span)
      <4>1. /\ result'.accepted = result.accepted
            /\ result'.rejected = result.rejected + 1
            /\ result'.duplicates = result.duplicates
            /\ result'.conflicting = result.conflicting
            /\ result'.memory = result.memory + 1
        BY <1>0, <3>5, CountedResult DEF RefuseMemory
      <4> QED
        BY <2>3, <3>0, <3>7, <4>1
    <3>6. CASE Admit(span)
      <4>1. /\ result'.accepted = result.accepted + 1
            /\ result'.rejected = result.rejected
            /\ result'.duplicates = result.duplicates
            /\ result'.conflicting = result.conflicting
            /\ result'.memory = result.memory
        BY <1>0, <3>6, CountedResult DEF Admit
      <4>2. span \in Elements(spans')
        <5>1. Elements(spans') = Elements(spans) \cup {span}
          BY <1>0, <3>6, ElementsOfAppend DEF Admit
        <5> QED
          BY <5>1
      <4> QED
        BY <2>3, <3>0, <3>7, <4>1, <4>2
    <3> QED
      BY <2>1, <3>1, <3>2, <3>3, <3>4, <3>5, <3>6
  <2>6. ASSUME result'.rejected = 0, NEW i \in 1 .. cursor' - 1
        PROVE  batch'[i] \in Elements(spans')
    <3>1. CASE i = cursor
      BY <2>2, <2>5, <2>6, <3>1
    <3>2. CASE i # cursor
      <4>1. i \in 1 .. cursor - 1
        BY <1>0, <2>2, <3>2
      <4> QED
        BY <2>2, <2>3, <2>4, <2>5, <2>6, <4>1
    <3> QED
      BY <3>1, <3>2
  <2>7. cursor' - 1 = cursor
    BY <1>0, <2>2
  <2> QED
    BY <2>2, <2>5, <2>6, <2>7 DEF AnswerInv, AnswerMatchesStore
<1>4. CASE UNCHANGED <<pc, result, cursor, batch, spans>>
  BY <1>4 DEF AnswerInv, AnswerMatchesStore
<1>5. CASE pc # "Add" /\ pc' # "Add" /\ UNCHANGED result
  BY <1>5 DEF AnswerInv, AnswerMatchesStore
<1>6. CASE Advance \/ StepBack \/ UNCHANGED vars
  BY <1>4, <1>6 DEF Advance, StepBack, vars, storeVars, loopVars
<1>7. CASE EvictSpan \/ SnapshotReturn \/ SnapshotBegin \/ \E in \in Batches : AddBegin(in)
  BY <1>5, <1>7 DEF EvictSpan, SnapshotReturn, SnapshotBegin, AddBegin, Enter
<1> QED
  BY <1>1, <1>2, <1>3, <1>6, <1>7 DEF Next

(* Each span of a batch is answered once, and an answer without a          *)
(* rejection means that all of them are retained.                          *)
THEOREM AnswerHolds == Spec => []AnswerMatchesStore
<1>1. Init => AnswerInv
  BY DEF Init, AnswerInv, AnswerMatchesStore
<1>2. AnswerInv => AnswerMatchesStore
  BY DEF AnswerInv
<1> QED
  BY Invariance, AnswerStep, <1>1, <1>2, PTL DEF Spec
----------------------------------------------------------------------------
(* The byte account *)

(* Induction on the natural numbers, for a set of numbers in place of a    *)
(* predicate: < on Nat is well founded, so a number outside such a set     *)
(* would have a least one below it.                                        *)
Below == {p \in Nat \X Nat : p[1] < p[2]}

LEMMA BelowWellFounded == IsWellFoundedOn(Below, Nat)
<1>1. Below = OpToRel(<, Nat)
  BY DEF Below, OpToRel
<1> QED
  BY <1>1, NatLessThanWellFounded

LEMMA LeastNumber ==
  ASSUME NEW S, S \subseteq Nat, S # {}
  PROVE  \E x \in S : \A y \in S : x <= y
<1>1. PICK x \in S : \A y \in S : <<y, x>> \notin Below
  BY BelowWellFounded, WFMin
<1>2. ASSUME NEW y \in S
      PROVE  x <= y
  <2>1. <<y, x>> \in Nat \X Nat /\ <<y, x>> \notin Below
    BY <1>1, <1>2
  <2>2. ~(<<y, x>>[1] < <<y, x>>[2])
    BY <2>1, Zenon DEF Below
  <2> QED
    BY <2>2
<1> QED
  BY <1>2

LEMMA SetInduction ==
  ASSUME NEW S, 0 \in S, \A n \in Nat : n \in S => n + 1 \in S
  PROVE  Nat \subseteq S
<1>1. SUFFICES ASSUME Nat \ S # {} PROVE FALSE
  OBVIOUS
<1>2. PICK x \in Nat \ S : \A y \in Nat \ S : x <= y
  BY <1>1, LeastNumber
<1>3. x - 1 \in Nat /\ x - 1 \notin S
  BY <1>2
<1> QED
  BY <1>2, <1>3

(* The function TotalSize defines: the sums of the sizes of the prefixes.  *)
UpTo(seq) ==
  CHOOSE f : f = [i \in 0 .. Len(seq) |-> IF i = 0 THEN 0 ELSE f[i - 1] + SizeOf[seq[i]]]

LEMMA TotalIsUpTo == ASSUME NEW seq PROVE TotalSize(seq) = UpTo(seq)[Len(seq)]
  BY DEF TotalSize, UpTo

(* f sums the sizes of the first n spans of seq. *)
SumsTo(f, seq, n) ==
  /\ f \in [0 .. n -> Nat]
  /\ f[0] = 0
  /\ \A i \in 1 .. n : f[i] = f[i - 1] + SizeOf[seq[i]]

LEMMA SumsExist ==
  ASSUME NEW seq \in Seq(Spans)
  PROVE  \E f : SumsTo(f, seq, Len(seq))
<1> DEFINE S == {n \in Nat : n <= Len(seq) => \E f : SumsTo(f, seq, n)}
<1>1. 0 \in S
  <2>1. SumsTo([i \in 0 .. 0 |-> 0], seq, 0)
    BY DEF SumsTo
  <2> QED
    BY <2>1
<1>2. ASSUME NEW n \in Nat, n \in S
      PROVE  n + 1 \in S
  <2>1. SUFFICES ASSUME n + 1 <= Len(seq)
                 PROVE  \E f : SumsTo(f, seq, n + 1)
    OBVIOUS
  <2>2. PICK f : SumsTo(f, seq, n)
    BY <1>2, <2>1
  <2> DEFINE g == [i \in 0 .. n + 1 |-> IF i = n + 1 THEN f[n] + SizeOf[seq[n + 1]] ELSE f[i]]
  <2>3. SizeOf[seq[n + 1]] \in Nat
    BY <2>1, StoreAssumption
  <2>4. /\ f \in [0 .. n -> Nat] /\ f[0] = 0
        /\ \A i \in 1 .. n : f[i] = f[i - 1] + SizeOf[seq[i]]
    BY <2>2 DEF SumsTo
  <2>5. g \in [0 .. n + 1 -> Nat]
    BY <2>3, <2>4
  <2>6. ASSUME NEW i \in 1 .. n + 1
        PROVE  g[i] = g[i - 1] + SizeOf[seq[i]]
    <3>1. CASE i = n + 1
      BY <2>4, <3>1
    <3>2. CASE i # n + 1
      <4>1. i \in 1 .. n /\ i \in 0 .. n + 1 /\ i - 1 \in 0 .. n + 1 /\ i - 1 # n + 1
        BY <3>2
      <4> QED
        BY <2>4, <3>2, <4>1
    <3> QED
      BY <3>1, <3>2
  <2>7. g[0] = 0
    BY <2>4
  <2> HIDE DEF g
  <2> QED
    BY <2>5, <2>6, <2>7 DEF SumsTo
<1>3. Nat \subseteq S
  <2> HIDE DEF S
  <2> QED
    BY <1>1, <1>2, SetInduction
<1>4. Len(seq) \in S
  BY <1>3
<1> QED
  BY <1>4

LEMMA UpToSums ==
  ASSUME NEW seq \in Seq(Spans)
  PROVE  SumsTo(UpTo(seq), seq, Len(seq))
<1> DEFINE Eq(f) ==
      f = [i \in 0 .. Len(seq) |-> IF i = 0 THEN 0 ELSE f[i - 1] + SizeOf[seq[i]]]
<1>1. PICK f : SumsTo(f, seq, Len(seq))
  BY SumsExist
<1>2. Eq(f)
  <2>1. f \in [0 .. Len(seq) -> Nat] /\ f[0] = 0
        /\ \A i \in 1 .. Len(seq) : f[i] = f[i - 1] + SizeOf[seq[i]]
    BY <1>1 DEF SumsTo
  <2>2. ASSUME NEW i \in 0 .. Len(seq)
        PROVE  f[i] = IF i = 0 THEN 0 ELSE f[i - 1] + SizeOf[seq[i]]
    BY <2>1
  <2> QED
    BY <2>1, <2>2
<1>3. Eq(UpTo(seq))
  BY <1>2 DEF UpTo
<1> DEFINE g == UpTo(seq)
<1>4. /\ g[0] = 0
      /\ \A i \in 1 .. Len(seq) : g[i] = g[i - 1] + SizeOf[seq[i]]
  <2> HIDE DEF g
  <2>1. g = [i \in 0 .. Len(seq) |-> IF i = 0 THEN 0 ELSE g[i - 1] + SizeOf[seq[i]]]
    BY <1>3 DEF g
  <2>2. ASSUME NEW i \in 0 .. Len(seq)
        PROVE  g[i] = IF i = 0 THEN 0 ELSE g[i - 1] + SizeOf[seq[i]]
    BY <2>1
  <2>3. 0 \in 0 .. Len(seq) /\ \A i \in 1 .. Len(seq) : i \in 0 .. Len(seq) /\ i # 0
    OBVIOUS
  <2> QED
    BY <2>2, <2>3
<1> DEFINE S == {n \in Nat : n <= Len(seq) => g[n] \in Nat}
<1> HIDE DEF g
<1>5. 0 \in S
  BY <1>4
<1>6. ASSUME NEW n \in Nat, n \in S
      PROVE  n + 1 \in S
  <2>1. SUFFICES ASSUME n + 1 <= Len(seq) PROVE g[n + 1] \in Nat
    OBVIOUS
  <2>2. SizeOf[seq[n + 1]] \in Nat
    BY <2>1, StoreAssumption
  <2> QED
    BY <1>4, <1>6, <2>1, <2>2
<1>7. Nat \subseteq S
  <2> HIDE DEF S
  <2> QED
    BY <1>5, <1>6, SetInduction
<1>8. \A i \in 0 .. Len(seq) : g[i] \in Nat
  BY <1>7
<1>9. g \in [0 .. Len(seq) -> Nat]
  <2>1. g = [i \in 0 .. Len(seq) |-> IF i = 0 THEN 0 ELSE g[i - 1] + SizeOf[seq[i]]]
    BY <1>3 DEF g
  <2>2. g = [i \in 0 .. Len(seq) |-> g[i]]
    BY <2>1
  <2> QED
    BY <1>8, <2>2
<1> QED
  BY <1>4, <1>9 DEF SumsTo, g

LEMMA TotalSizeType ==
  ASSUME NEW seq \in Seq(Spans)
  PROVE  TotalSize(seq) \in Nat
<1>1. UpTo(seq)[Len(seq)] \in Nat
  BY UpToSums DEF SumsTo
<1> QED
  BY <1>1, TotalIsUpTo

LEMMA TotalSizeEmpty == TotalSize(<<>>) = 0
<1>1. <<>> \in Seq(Spans) /\ Len(<<>>) = 0
  OBVIOUS
<1>2. SumsTo(UpTo(<<>>), <<>>, Len(<<>>))
  BY <1>1, UpToSums
<1>3. UpTo(<<>>)[0] = 0
  BY <1>2 DEF SumsTo
<1>4. TotalSize(<<>>) = UpTo(<<>>)[Len(<<>>)]
  BY TotalIsUpTo
<1> QED
  BY <1>1, <1>3, <1>4

(* One span more adds its size. *)
LEMMA TotalSizeAppend ==
  ASSUME NEW seq \in Seq(Spans), NEW span \in Spans
  PROVE  TotalSize(Append(seq, span)) = TotalSize(seq) + SizeOf[span]
<1> DEFINE longer == Append(seq, span)
           f == UpTo(seq)
           g == UpTo(longer)
<1>1. /\ longer \in Seq(Spans) /\ Len(longer) = Len(seq) + 1
      /\ longer[Len(seq) + 1] = span
      /\ \A i \in 1 .. Len(seq) : longer[i] = seq[i]
  OBVIOUS
<1>2. /\ f[0] = 0
      /\ \A i \in 1 .. Len(seq) : f[i] = f[i - 1] + SizeOf[seq[i]]
  BY UpToSums DEF SumsTo
<1>3. /\ g[0] = 0
      /\ \A i \in 1 .. Len(longer) : g[i] = g[i - 1] + SizeOf[longer[i]]
  BY <1>1, UpToSums DEF SumsTo
<1> DEFINE S == {n \in Nat : n <= Len(seq) => g[n] = f[n]}
<1> HIDE DEF longer, f, g
<1>4. 0 \in S
  BY <1>2, <1>3
<1>5. ASSUME NEW n \in Nat, n \in S
      PROVE  n + 1 \in S
  <2>1. SUFFICES ASSUME n + 1 <= Len(seq) PROVE g[n + 1] = f[n + 1]
    OBVIOUS
  <2>2. n + 1 \in 1 .. Len(seq) /\ n + 1 \in 1 .. Len(longer) /\ n + 1 - 1 = n
    BY <1>1, <2>1
  <2> QED
    BY <1>1, <1>2, <1>3, <1>5, <2>1, <2>2
<1>6. Nat \subseteq S
  <2> HIDE DEF S
  <2> QED
    BY <1>4, <1>5, SetInduction
<1>7. g[Len(seq)] = f[Len(seq)]
  BY <1>6
<1>8. g[Len(longer)] = g[Len(seq)] + SizeOf[span]
  <2>1. Len(longer) \in 1 .. Len(longer) /\ Len(longer) - 1 = Len(seq)
    BY <1>1
  <2> QED
    BY <1>1, <1>3, <2>1
<1> QED
  BY <1>7, <1>8, TotalIsUpTo DEF longer, f, g

(* The loop keeps no more bytes than it has scanned. *)
BytesInv ==
  /\ BytesAccounted
  /\ keptBytes = TotalSize(kept)
  /\ pc = "evict" => keptBytes <= UpTo(spans)[cursor - 1]

LEMMA BytesStep == IInv /\ BytesInv /\ [Next]_vars => BytesInv'
<1> SUFFICES ASSUME IInv, BytesInv, [Next]_vars PROVE BytesInv'
  OBVIOUS
<1>0. /\ spans \in Seq(Spans) /\ kept \in Seq(Spans) /\ cursor \in Nat \ {0}
      /\ MaxBytes \in Int /\ SizeOf \in [Spans -> Nat]
      /\ currentBytes = TotalSize(spans) /\ keptBytes = TotalSize(kept)
      /\ MaxBytes > 0 => currentBytes <= MaxBytes
  BY StoreAssumption DEF IInv, TypeOK, BytesInv, BytesAccounted
<1>1. CASE EvictSpan
  <2>1. /\ pc = "evict" /\ cursor \in DOMAIN spans /\ cursor' = cursor + 1
        /\ spans' = spans /\ currentBytes' = currentBytes
    BY <1>1 DEF EvictSpan, storeVars
  <2>2. /\ UpTo(spans)[cursor] = UpTo(spans)[cursor - 1] + SizeOf[spans[cursor]]
        /\ UpTo(spans)[cursor] \in Nat /\ UpTo(spans)[cursor - 1] \in Nat
        /\ SizeOf[spans[cursor]] \in Nat
    <3>1. /\ UpTo(spans) \in [0 .. Len(spans) -> Nat]
          /\ \A i \in 1 .. Len(spans) :
               UpTo(spans)[i] = UpTo(spans)[i - 1] + SizeOf[spans[i]]
      BY <1>0, UpToSums DEF SumsTo
    <3>2. /\ cursor \in 1 .. Len(spans) /\ cursor \in 0 .. Len(spans)
          /\ cursor - 1 \in 0 .. Len(spans)
      BY <1>0, <2>1
    <3>3. SizeOf[spans[cursor]] \in Nat
      BY <1>0, <2>1
    <3> QED
      BY <3>1, <3>2, <3>3
  <2>3. keptBytes <= UpTo(spans)[cursor - 1] /\ keptBytes \in Nat
    BY <1>0, <2>1, TotalSizeType DEF BytesInv
  <2>4. keptBytes' = TotalSize(kept') /\ keptBytes' <= UpTo(spans)[cursor]
    <3>1. CASE Expired(spans[cursor], reading)
      <4>1. UNCHANGED <<kept, keptBytes>>
        BY <1>1, <3>1 DEF EvictSpan
      <4> QED
        BY <1>0, <2>2, <2>3, <4>1
    <3>2. CASE ~Expired(spans[cursor], reading)
      <4>1. /\ kept' = Append(kept, spans[cursor])
            /\ keptBytes' = keptBytes + SizeOf[spans[cursor]]
        BY <1>1, <3>2 DEF EvictSpan
      <4>2. TotalSize(kept') = TotalSize(kept) + SizeOf[spans[cursor]]
        BY <1>0, <2>1, <4>1, TotalSizeAppend
      <4> QED
        BY <1>0, <2>2, <2>3, <4>1, <4>2
    <3> QED
      BY <3>1, <3>2
  <2>5. cursor' - 1 = cursor
    BY <1>0, <2>1
  <2> QED
    BY <1>0, <2>1, <2>4, <2>5 DEF BytesInv, BytesAccounted
<1>2. CASE EvictEnd
  <2>1. /\ pc' \in {"Add", "Snapshot"} /\ kept' = <<>> /\ keptBytes' = 0
    BY <1>2 DEF EvictEnd, IInv, TypeOK
  <2>2. keptBytes' = TotalSize(kept')
    BY <2>1, TotalSizeEmpty
  <2>3. keptBytes <= currentBytes
    <3>1. pc = "evict" /\ cursor - 1 = Len(spans)
      <4>1. pc = "evict" /\ cursor <= Len(spans) + 1 /\ cursor \notin DOMAIN spans
        BY <1>2 DEF EvictEnd, IInv, LoopInv
      <4> QED
        BY <1>0, <4>1
    <3> QED
      BY <1>0, <3>1, TotalIsUpTo DEF BytesInv
  <2>4. BytesAccounted'
    <3>1. CASE SomeDropped
      <4>1. spans' = kept /\ currentBytes' = keptBytes
        BY <1>2, <3>1 DEF EvictEnd, BytesAfterEviction
      <4>2. keptBytes \in Nat /\ currentBytes \in Nat
        BY <1>0, TotalSizeType
      <4> QED
        BY <1>0, <2>3, <4>1, <4>2 DEF BytesAccounted
    <3>2. CASE ~SomeDropped
      BY <1>0, <1>2, <3>2 DEF EvictEnd, BytesAccounted
    <3> QED
      BY <3>1, <3>2
  <2> QED
    BY <2>1, <2>2, <2>4 DEF BytesInv
<1>3. ASSUME NEW span \in Spans, Admit(span)
      PROVE  BytesInv'
  <2>1. /\ spans' = Append(spans, span) /\ currentBytes' = currentBytes + SizeOf[span]
        /\ UNCHANGED <<kept, keptBytes>> /\ pc' = "Add" /\ ~OverBudget(span)
    BY <1>3 DEF Admit, NextSpan
  <2>2. TotalSize(spans') = TotalSize(spans) + SizeOf[span]
    BY <1>0, <2>1, TotalSizeAppend
  <2>3. currentBytes \in Nat /\ SizeOf[span] \in Nat
    BY <1>0, TotalSizeType
  <2> QED
    BY <1>0, <2>1, <2>2, <2>3 DEF BytesInv, BytesAccounted, OverBudget
<1>4. CASE UNCHANGED <<spans, currentBytes, kept, keptBytes, cursor, pc>>
  BY <1>4 DEF BytesInv, BytesAccounted
<1>5. CASE AddReturn
  <2>1. /\ UNCHANGED <<spans, currentBytes>> /\ kept' = <<>> /\ keptBytes' = 0
        /\ pc' = "unlocked"
    BY <1>5 DEF AddReturn, storeVars
  <2> QED
    BY <1>0, <2>1, TotalSizeEmpty DEF BytesInv, BytesAccounted
<1>6. CASE UNCHANGED <<spans, currentBytes, kept, keptBytes>> /\ pc' # "evict"
  BY <1>6 DEF BytesInv, BytesAccounted
<1>7. CASE UNCHANGED <<spans, currentBytes, kept, keptBytes, cursor>> /\ pc = "unlocked"
  <2>1. cursor = 1 /\ kept = <<>>
    BY <1>7 DEF IInv, LocalsReset
  <2>2. UpTo(spans)[0] = 0
    BY <1>0, UpToSums DEF SumsTo
  <2>3. keptBytes = 0
    BY <1>0, <2>1, TotalSizeEmpty
  <2>4. spans' = spans /\ cursor' - 1 = 0 /\ keptBytes' = 0
    BY <1>7, <2>1, <2>3
  <2>5. keptBytes' <= UpTo(spans')[cursor' - 1]
    BY <2>2, <2>4
  <2>6. BytesAccounted' /\ keptBytes' = TotalSize(kept')
    BY <1>7 DEF BytesInv, BytesAccounted
  <2> QED
    BY <2>5, <2>6 DEF BytesInv
<1>8. CASE AddSpan
  <2>1. PICK span \in Spans :
          \/ RefuseStale(span) \/ CountDuplicate(span) \/ RefuseConflict(span)
          \/ RefuseCapacity(span) \/ RefuseMemory(span) \/ Admit(span)
    BY <1>8 DEF AddSpan
  <2>2. CASE Admit(span)
    BY <1>3, <2>2
  <2>3. CASE ~Admit(span)
    <3>1. UNCHANGED <<spans, currentBytes, kept, keptBytes>> /\ pc' = "Add"
      BY <2>1, <2>3 DEF NextSpan, RefuseStale, CountDuplicate, RefuseConflict,
         RefuseCapacity, RefuseMemory, Refuse
    <3> QED
      BY <1>6, <3>1
  <2> QED
    BY <2>2, <2>3
<1>9. CASE Advance \/ StepBack \/ UNCHANGED vars
  BY <1>4, <1>9 DEF Advance, StepBack, vars, storeVars, loopVars
<1>10. CASE SnapshotReturn
  BY <1>6, <1>10 DEF SnapshotReturn, loopVars
<1>11. CASE SnapshotBegin \/ \E in \in Batches : AddBegin(in)
  BY <1>7, <1>11 DEF SnapshotBegin, AddBegin, Enter, storeVars, loopVars
<1> QED
  BY <1>1, <1>2, <1>5, <1>8, <1>9, <1>10, <1>11 DEF Next

(* The byte account is the sum of the sizes of what is retained, and       *)
(* within the limit, after any number of admissions and evictions.         *)
THEOREM BytesHold == Spec => []BytesAccounted
<1>1. Init => BytesInv
  <2> SUFFICES ASSUME Init PROVE BytesInv
    OBVIOUS
  <2>1. spans = <<>> /\ kept = <<>> /\ currentBytes = 0 /\ keptBytes = 0 /\ pc = "unlocked"
    BY DEF Init
  <2> QED
    BY <2>1, TotalSizeEmpty, StoreAssumption DEF BytesInv, BytesAccounted
<1>2. BytesInv => BytesAccounted
  BY DEF BytesInv
<1> QED
  BY Invariance, BytesStep, <1>1, <1>2, PTL DEF Spec
=============================================================================
