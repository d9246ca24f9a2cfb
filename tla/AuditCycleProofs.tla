---------------------------- MODULE AuditCycleProofs ----------------------------
(***************************************************************************)
(* Proofs about AuditCycle, for any spans, configurations, exporters and   *)
(* reloaders.                                                              *)
(*                                                                         *)
(* What a report says of its coverage follows from the counters it was     *)
(* given, and those were read after its snapshot.  So the invariant says,  *)
(* of each moment of an audit, what the counters would tell if they were   *)
(* read then, and what those that were read do tell.                       *)
(***************************************************************************)
EXTENDS AuditCycle, FiniteSetTheorems, TLAPS

Raw(S) == {span.raw : span \in S}

(* As long as nothing was counted as lost, the store has all it answered.  *)
NothingLost == ~Degraded(stats) => answered \subseteq Raw(window)

(* From the snapshot until the counters are read *)
SnapshotCovers ==
  auditing \in {"snapshot", "judged"} /\ ~Degraded(stats) =>
    expected \subseteq Raw(snapshot)

(* From then until the report is published *)
CountersCover ==
  auditing \in {"counted", "enriched"} =>
    /\ ~Degraded(counted) => expected \subseteq Raw(snapshot)
    /\ Degraded(counted) => Degraded(stats)

(* What the snapshot holds is retained, or its eviction counted. *)
SnapshotHeld ==
  auditing # "select" => snapshot \subseteq window \/ Degraded(stats)

(* What was reported as degraded is still counted, or still held. *)
StillCounted ==
  last # NoReport /\ last.status = "degraded" =>
    /\ Degraded(stats) \/ Incomplete(window)
    /\ auditing \in {"snapshot", "judged"} => Degraded(stats) \/ Incomplete(snapshot)
    /\ auditing \in {"counted", "enriched"} => Degraded(counted) \/ Incomplete(snapshot)

IInv ==
  /\ TypeOK /\ NothingLost /\ SnapshotCovers /\ CountersCover
  /\ SnapshotHeld /\ StillCounted /\ UndegradedIsComplete

----------------------------------------------------------------------------
(* The store keeps what is fresh, and counts what it drops.                *)
LEMMA FreshFacts ==
  ASSUME TypeOK
  PROVE  /\ Fresh \subseteq window /\ IsFiniteSet(Fresh) /\ Fresh \subseteq Stored
         /\ Evicted \in Nat
         /\ Evicted = 0 => Fresh = window
<1>1. Fresh \subseteq window /\ Fresh \subseteq Stored
  BY DEF Fresh, TypeOK
<1>2. IsFiniteSet(Fresh)
  BY <1>1, FS_Subset DEF TypeOK
<1>3. IsFiniteSet(window \ Fresh)
  BY FS_Subset DEF TypeOK
<1>4. Evicted \in Nat /\ (Evicted = 0 => window \ Fresh = {})
  BY <1>3, FS_CardinalityType, FS_EmptySet DEF Evicted
<1> QED
  BY <1>1, <1>2, <1>4

LEMMA InitInv == Init => IInv
<1> SUFFICES ASSUME Init PROVE IInv
  OBVIOUS
<1>1. TypeOK
  BY CycleAssumption, FS_EmptySet DEF Init, TypeOK, NoStats, Counts
<1> QED
  BY <1>1 DEF Init, IInv, NothingLost, SnapshotCovers, CountersCover, SnapshotHeld,
     StillCounted, UndegradedIsComplete

(* A call of Add counts what it evicts, and either counts another loss or  *)
(* has the span of its export in the window.                               *)
LEMMA AddFacts ==
  ASSUME TypeOK, NEW e \in Exporters, AddSpan(e)
  PROVE  \E span \in Stored :
           /\ Answer(e, span)
           /\ window' \subseteq Fresh \cup {span} /\ Fresh \subseteq window'
           /\ stats' \in Counts
           /\ Degraded(stats) \/ Evicted # 0 => Degraded(stats)'
           /\ ~Degraded(stats)' => span \in window'
<1>1. PICK span \in Stored :
        \/ RefuseStale(e, span)
        \/ CountDuplicate(e, span)
        \/ RefuseConflict(e, span)
        \/ RefuseCapacity(e, span)
        \/ RefuseMemory(e, span)
        \/ Admit(e, span)
  BY DEF AddSpan
<1>2. /\ stats \in Counts /\ Evicted \in Nat
      /\ stats.rejected \in Nat /\ stats.duplicates \in Nat
      /\ stats.conflicting \in Nat /\ stats.evictions \in Nat
  BY FreshFacts DEF TypeOK, Counts
<1>3. Answer(e, span)
  BY <1>1 DEF RefuseStale, CountDuplicate, RefuseConflict, RefuseCapacity,
     RefuseMemory, Admit
<1>4. CASE RefuseStale(e, span)
  <2>1. stats' = [stats EXCEPT !.rejected = @ + 1, !.evictions = @ + Evicted + 1]
    BY <1>4 DEF RefuseStale
  <2>2. stats' = [rejected |-> stats.rejected + 1,
                    duplicates |-> stats.duplicates,
                    conflicting |-> stats.conflicting,
                    evictions |-> stats.evictions + Evicted + 1]
    BY <1>2, <2>1 DEF Counts
  <2>3. stats' \in Counts
    BY <1>2, <2>2 DEF Counts
  <2>4. Degraded(stats)'
    BY <1>2, <2>2 DEF Degraded
  <2> QED
    BY <1>3, <1>4, <2>3, <2>4 DEF RefuseStale
<1>5. CASE CountDuplicate(e, span)
  <2>1. stats' = [stats EXCEPT !.duplicates = @ + 1, !.evictions = @ + Evicted]
    BY <1>5 DEF CountDuplicate
  <2>2. stats' = [rejected |-> stats.rejected,
                    duplicates |-> stats.duplicates + 1,
                    conflicting |-> stats.conflicting,
                    evictions |-> stats.evictions + Evicted]
    BY <1>2, <2>1 DEF Counts
  <2>3. stats' \in Counts
    BY <1>2, <2>2 DEF Counts
  <2>4. Degraded(stats) \/ Evicted # 0 => Degraded(stats)'
    BY <1>2, <2>2 DEF Degraded
  <2> QED
    BY <1>3, <1>5, <2>3, <2>4 DEF CountDuplicate, SameIdentity
<1>6. CASE RefuseConflict(e, span)
  <2>1. stats' = [stats EXCEPT !.rejected = @ + 1, !.conflicting = @ + 1,
                                !.evictions = @ + Evicted]
    BY <1>6 DEF RefuseConflict
  <2>2. stats' = [rejected |-> stats.rejected + 1,
                    duplicates |-> stats.duplicates,
                    conflicting |-> stats.conflicting + 1,
                    evictions |-> stats.evictions + Evicted]
    BY <1>2, <2>1 DEF Counts
  <2>3. stats' \in Counts
    BY <1>2, <2>2 DEF Counts
  <2>4. Degraded(stats)'
    BY <1>2, <2>2 DEF Degraded
  <2> QED
    BY <1>3, <1>6, <2>3, <2>4 DEF RefuseConflict
<1>7. CASE RefuseCapacity(e, span) \/ RefuseMemory(e, span)
  <2>1. stats' = [stats EXCEPT !.rejected = @ + 1, !.evictions = @ + Evicted]
    BY <1>7 DEF RefuseCapacity, RefuseMemory
  <2>2. stats' = [rejected |-> stats.rejected + 1,
                    duplicates |-> stats.duplicates,
                    conflicting |-> stats.conflicting,
                    evictions |-> stats.evictions + Evicted]
    BY <1>2, <2>1 DEF Counts
  <2>3. stats' \in Counts
    BY <1>2, <2>2 DEF Counts
  <2>4. Degraded(stats)'
    BY <1>2, <2>2 DEF Degraded
  <2> QED
    BY <1>3, <1>7, <2>3, <2>4 DEF RefuseCapacity, RefuseMemory
<1>8. CASE Admit(e, span)
  <2>1. stats' = [stats EXCEPT !.evictions = @ + Evicted]
    BY <1>8 DEF Admit
  <2>2. stats' = [rejected |-> stats.rejected,
                    duplicates |-> stats.duplicates,
                    conflicting |-> stats.conflicting,
                    evictions |-> stats.evictions + Evicted]
    BY <1>2, <2>1 DEF Counts
  <2>3. stats' \in Counts
    BY <1>2, <2>2 DEF Counts
  <2>4. Degraded(stats) \/ Evicted # 0 => Degraded(stats)'
    BY <1>2, <2>2 DEF Degraded
  <2> QED
    BY <1>3, <1>8, <2>3, <2>4 DEF Admit, SameIdentity
<1> QED
  BY <1>1, <1>4, <1>5, <1>6, <1>7, <1>8

LEMMA AddStep == IInv /\ (\E e \in Exporters : AddSpan(e)) => IInv'
<1> SUFFICES ASSUME IInv, NEW e \in Exporters, AddSpan(e) PROVE IInv'
  OBVIOUS
<1>1. PICK span \in Stored :
        /\ Answer(e, span)
        /\ window' \subseteq Fresh \cup {span} /\ Fresh \subseteq window'
        /\ stats' \in Counts
        /\ Degraded(stats) \/ Evicted # 0 => Degraded(stats)'
        /\ ~Degraded(stats)' => span \in window'
  BY AddFacts DEF IInv
<1>2. /\ exporting' = [exporting EXCEPT ![e] = NoSpan]
      /\ answered' = answered \cup {span.raw}
      /\ span.raw \in RawSpans
      /\ UNCHANGED <<now, file, writes, cfg, installs, reloading, reloads, exports,
                     auditing, snapshot, expected, engine, counted, retained, last>>
  BY <1>1 DEF Answer, envVars, cfgVars, auditVars, Stored
<1>3. /\ Fresh \subseteq window /\ IsFiniteSet(Fresh) /\ Fresh \subseteq Stored
      /\ Evicted = 0 => Fresh = window
  BY FreshFacts DEF IInv
<1>4. IsFiniteSet(window') /\ window' \subseteq Stored
  <2>1. IsFiniteSet(Fresh \cup {span})
    BY <1>3, FS_AddElement
  <2> QED
    BY <1>1, <1>3, <2>1, FS_Subset
<1>5. TypeOK'
  BY <1>1, <1>2, <1>4 DEF IInv, TypeOK
<1>6. NothingLost'
  BY <1>1, <1>2, <1>3 DEF IInv, NothingLost, Raw
<1>7. SnapshotCovers' /\ SnapshotHeld' /\ StillCounted'
  <2>1. window \subseteq window' \/ Degraded(stats)'
    BY <1>1, <1>3
  <2>2. Degraded(stats) => Degraded(stats)'
    BY <1>1
  <2>3. SnapshotCovers'
    BY <1>2, <2>2 DEF IInv, SnapshotCovers, Raw
  <2>4. SnapshotHeld'
    BY <1>2, <2>1, <2>2 DEF IInv, SnapshotHeld
  <2>5. StillCounted'
    BY <1>2, <2>1, <2>2 DEF IInv, StillCounted, Incomplete, Degraded
  <2> QED
    BY <2>3, <2>4, <2>5
<1>8. CountersCover' /\ UndegradedIsComplete'
  BY <1>1, <1>2 DEF IInv, CountersCover, UndegradedIsComplete, Raw, Degraded
<1> QED
  BY <1>5, <1>6, <1>7, <1>8 DEF IInv

----------------------------------------------------------------------------
(* The audit: each of its steps hands on what the invariant says of it.    *)
LEMMA TakeSnapshotStep == IInv /\ TakeSnapshot => IInv'
<1> SUFFICES ASSUME IInv, TakeSnapshot PROVE IInv'
  OBVIOUS
<1>1. /\ auditing = "select" /\ auditing' = "snapshot"
      /\ window' = Fresh /\ snapshot' = Fresh /\ expected' = answered
      /\ UNCHANGED <<now, file, writes, cfg, installs, reloading, reloads,
                     exporting, exports, answered, engine, counted, retained, last>>
  BY DEF TakeSnapshot, SnapshotTaken, envVars, cfgVars, exportVars
<1>2. /\ Fresh \subseteq window /\ IsFiniteSet(Fresh) /\ Fresh \subseteq Stored
      /\ Evicted \in Nat /\ (Evicted = 0 => Fresh = window)
  BY FreshFacts DEF IInv
<1>3. /\ stats \in Counts
      /\ stats.rejected \in Nat /\ stats.duplicates \in Nat
      /\ stats.conflicting \in Nat /\ stats.evictions \in Nat
  BY DEF IInv, TypeOK, Counts
<1>4. stats' = [rejected |-> stats.rejected, duplicates |-> stats.duplicates,
                conflicting |-> stats.conflicting,
                evictions |-> stats.evictions + Evicted]
  <2>1. stats' = [stats EXCEPT !.evictions = @ + Evicted]
    BY DEF TakeSnapshot
  <2> QED
    BY <1>2, <1>3, <2>1 DEF Counts
<1>5. stats' \in Counts
  BY <1>2, <1>3, <1>4 DEF Counts
<1>6. Degraded(stats) \/ Evicted # 0 => Degraded(stats)'
  BY <1>2, <1>3, <1>4 DEF Degraded
<1>7. TypeOK'
  BY <1>1, <1>2, <1>5 DEF IInv, TypeOK
<1>8. NothingLost' /\ SnapshotCovers'
  BY <1>1, <1>2, <1>6 DEF IInv, NothingLost, SnapshotCovers, Raw
<1>9. CountersCover' /\ UndegradedIsComplete' /\ SnapshotHeld'
  BY <1>1, <1>6 DEF IInv, CountersCover, UndegradedIsComplete, SnapshotHeld
<1>10. StillCounted'
  <2>1. window = Fresh \/ Degraded(stats)'
    BY <1>2, <1>6
  <2> QED
    BY <1>1, <1>6, <2>1 DEF IInv, StillCounted, Incomplete
<1> QED
  BY <1>7, <1>8, <1>9, <1>10 DEF IInv

LEMMA CopyEngineStep == IInv /\ CopyEngine => IInv'
<1> SUFFICES ASSUME IInv, CopyEngine PROVE IInv'
  OBVIOUS
<1>1. /\ auditing = "snapshot" /\ auditing' = "judged"
      /\ engine' = [cfg |-> cfg, install |-> installs]
      /\ UNCHANGED <<now, file, writes, cfg, installs, reloading, reloads,
                     exporting, exports, answered, window, stats, snapshot,
                     expected, counted, retained, last>>
  BY DEF CopyEngine, EngineCopied, envVars, cfgVars, exportVars
<1>2. TypeOK'
  BY <1>1 DEF IInv, TypeOK
<1>3. NothingLost' /\ SnapshotCovers' /\ CountersCover'
  BY <1>1 DEF IInv, NothingLost, SnapshotCovers, CountersCover, Raw, Degraded
<1>4. SnapshotHeld' /\ StillCounted' /\ UndegradedIsComplete'
  BY <1>1 DEF IInv, SnapshotHeld, StillCounted, UndegradedIsComplete, Degraded, Incomplete
<1> QED
  BY <1>2, <1>3, <1>4 DEF IInv

LEMMA ReadStatsStep == IInv /\ ReadStats => IInv'
<1> SUFFICES ASSUME IInv, ReadStats PROVE IInv'
  OBVIOUS
<1>1. /\ auditing = "judged" /\ auditing' = "counted" /\ counted' = stats
      /\ UNCHANGED <<now, file, writes, cfg, installs, reloading, reloads,
                     exporting, exports, answered, window, stats, snapshot,
                     expected, engine, retained, last>>
  BY DEF ReadStats, envVars, cfgVars, exportVars
<1>2. TypeOK'
  BY <1>1 DEF IInv, TypeOK
<1>3. NothingLost' /\ SnapshotCovers' /\ CountersCover'
  BY <1>1 DEF IInv, NothingLost, SnapshotCovers, CountersCover, Raw, Degraded
<1>4. SnapshotHeld' /\ StillCounted' /\ UndegradedIsComplete'
  BY <1>1 DEF IInv, SnapshotHeld, StillCounted, UndegradedIsComplete, Degraded, Incomplete
<1> QED
  BY <1>2, <1>3, <1>4 DEF IInv

LEMMA ReadLengthStep == IInv /\ ReadLength => IInv'
<1> SUFFICES ASSUME IInv, ReadLength PROVE IInv'
  OBVIOUS
<1>1. /\ auditing = "counted" /\ auditing' = "enriched"
      /\ retained' = Cardinality(window)
      /\ UNCHANGED <<now, file, writes, cfg, installs, reloading, reloads,
                     exporting, exports, answered, window, stats, snapshot,
                     expected, engine, counted, last>>
  BY DEF ReadLength, Length, envVars, cfgVars, exportVars
<1>2. Cardinality(window) \in Nat
  BY FS_CardinalityType DEF IInv, TypeOK
<1>3. TypeOK'
  BY <1>1, <1>2 DEF IInv, TypeOK
<1>4. NothingLost' /\ SnapshotCovers' /\ CountersCover'
  BY <1>1 DEF IInv, NothingLost, SnapshotCovers, CountersCover, Raw, Degraded
<1>5. SnapshotHeld' /\ StillCounted' /\ UndegradedIsComplete'
  BY <1>1 DEF IInv, SnapshotHeld, StillCounted, UndegradedIsComplete, Degraded, Incomplete
<1> QED
  BY <1>3, <1>4, <1>5 DEF IInv

LEMMA PublishStep == IInv /\ Publish => IInv'
<1> SUFFICES ASSUME IInv, Publish PROVE IInv'
  OBVIOUS
<1> DEFINE status == IF Degraded(counted) \/ Incomplete(snapshot) THEN "degraded" ELSE "unknown"
<1>1. /\ auditing = "enriched" /\ auditing' = "select"
      /\ last' = [spans |-> snapshot, expected |-> expected, cfg |-> engine.cfg,
                  install |-> engine.install, stats |-> counted,
                  retained |-> retained, status |-> status]
      /\ snapshot' = {} /\ expected' = {} /\ counted' = NoStats /\ retained' = 0
      /\ UNCHANGED <<now, file, writes, cfg, installs, reloading, reloads,
                     exporting, exports, answered, window, stats, engine>>
  BY DEF Publish, envVars, cfgVars, exportVars
<1>2. NoStats \in Counts
  BY DEF NoStats, Counts
<1>3. engine.cfg \in Configs /\ engine.install \in Nat
  BY DEF IInv, TypeOK
<1>4. status \in {"unknown", "degraded"} /\ (status = "degraded" <=> Degraded(counted) \/ Incomplete(snapshot))
  OBVIOUS
<1>5. last' \in Reports
  <2> HIDE DEF status
  <2> QED
    BY <1>1, <1>3, <1>4 DEF IInv, TypeOK, Reports
<1>6. TypeOK'
  BY <1>1, <1>2, <1>5 DEF IInv, TypeOK
<1>7. /\ last'.status = status
      /\ last'.spans = snapshot /\ last'.expected = expected
  BY <1>1
<1>8. NothingLost' /\ SnapshotCovers' /\ CountersCover'
  BY <1>1 DEF IInv, NothingLost, SnapshotCovers, CountersCover, Raw, Degraded
<1>9. SnapshotHeld' /\ StillCounted'
  <2>1. Degraded(counted) \/ Incomplete(snapshot) => Degraded(stats) \/ Incomplete(window)
    BY <1>1 DEF IInv, CountersCover, SnapshotHeld, Incomplete
  <2>2. (Degraded(stats) \/ Incomplete(window)) => (Degraded(stats) \/ Incomplete(window))'
    BY <1>1 DEF Degraded, Incomplete
  <2> QED
    BY <1>1, <1>4, <1>7, <2>1, <2>2 DEF SnapshotHeld, StillCounted
<1>10. UndegradedIsComplete'
  BY <1>1, <1>4, <1>7 DEF IInv, UndegradedIsComplete, CountersCover, Raw
<1> QED
  BY <1>6, <1>8, <1>9, <1>10 DEF IInv

----------------------------------------------------------------------------
(* The environment, the reloads and an export's first step touch nothing   *)
(* that the invariant says more of than its type.                          *)
LEMMA OtherStep ==
  ASSUME IInv,
         \/ Advance
         \/ \E content \in Configs \cup {BadFile} : WriteFile(content)
         \/ \E e \in Exporters, raw \in RawSpans : ReadRedaction(e, raw)
         \/ \E k \in Reloaders : LoadFile(k)
         \/ \E k \in Reloaders : Install(k)
  PROVE  IInv'
<1>1. UNCHANGED <<answered, window, stats, auditVars, last>>
  BY DEF Advance, WriteFile, ReadRedaction, LoadFile, Install, exportVars
<1>2. TypeOK'
  <2>1. CASE Advance
    BY <2>1 DEF IInv, TypeOK, Advance, cfgVars, exportVars, auditVars
  <2>2. ASSUME NEW content \in Configs \cup {BadFile}, WriteFile(content)
        PROVE  TypeOK'
    BY <2>2 DEF IInv, TypeOK, WriteFile, cfgVars, exportVars, auditVars
  <2>3. ASSUME NEW e \in Exporters, NEW raw \in RawSpans, ReadRedaction(e, raw)
        PROVE  TypeOK'
    <3>1. Redacted(raw, cfg) \in Stored
      <4> DEFINE hidden == raw.sensitive /\ cfg.redact
      <4>1. hidden \in BOOLEAN
        OBVIOUS
      <4>2. Redacted(raw, cfg) = [raw |-> raw, redacted |-> hidden]
        BY DEF Redacted
      <4> HIDE DEF hidden
      <4> QED
        BY <4>1, <4>2 DEF Stored
    <3> QED
      BY <2>3, <3>1 DEF IInv, TypeOK, ReadRedaction, envVars, cfgVars, auditVars
  <2>4. ASSUME NEW k \in Reloaders, LoadFile(k)
        PROVE  TypeOK'
    BY <2>4 DEF IInv, TypeOK, LoadFile, envVars, exportVars, auditVars
  <2>5. ASSUME NEW k \in Reloaders, Install(k)
        PROVE  TypeOK'
    BY <2>5 DEF IInv, TypeOK, Install, envVars, exportVars, auditVars
  <2> QED
    BY <2>1, <2>2, <2>3, <2>4, <2>5
<1>3. NothingLost' /\ SnapshotCovers' /\ CountersCover'
  BY <1>1 DEF IInv, NothingLost, SnapshotCovers, CountersCover, Raw, Degraded, auditVars
<1>4. SnapshotHeld' /\ StillCounted' /\ UndegradedIsComplete'
  BY <1>1 DEF IInv, SnapshotHeld, StillCounted, UndegradedIsComplete, Degraded, Incomplete, auditVars
<1> QED
  BY <1>2, <1>3, <1>4 DEF IInv

LEMMA NextInv == IInv /\ [Next]_vars => IInv'
<1> SUFFICES ASSUME IInv, [Next]_vars PROVE IInv'
  OBVIOUS
<1>1. CASE \E e \in Exporters : AddSpan(e)
  BY <1>1, AddStep
<1>2. CASE AuditStep
  BY <1>2, TakeSnapshotStep, CopyEngineStep, ReadStatsStep, ReadLengthStep, PublishStep
     DEF AuditStep
<1>3. CASE UNCHANGED vars
  BY <1>3 DEF vars, IInv, TypeOK, NothingLost, SnapshotCovers, CountersCover,
     SnapshotHeld, StillCounted, UndegradedIsComplete, Raw, Degraded, Incomplete
<1> QED
  BY <1>1, <1>2, <1>3, OtherStep DEF Next

THEOREM Invariance == Spec => []IInv
BY InitInv, NextInv, PTL DEF Spec

(* The receiver's state takes only the values TypeOK names.                *)
THEOREM TypeCorrect == Spec => []TypeOK
<1>1. IInv => TypeOK
  BY DEF IInv
<1> QED
  BY <1>1, Invariance, PTL

(* A report that does not call its coverage degraded has all that had been *)
(* answered when its snapshot was taken: UndegradedIsComplete.             *)
THEOREM Completeness == Spec => []UndegradedIsComplete
<1>1. IInv => UndegradedIsComplete
  BY DEF IInv
<1> QED
  BY <1>1, Invariance, PTL

(* Once a report calls its coverage degraded, each later one does:         *)
(* DegradedForLife.  Only Publish writes s.last, and the counters it goes  *)
(* by were read no earlier than those of the report before, and after a    *)
(* snapshot that lacks a span with dropped attributes only by an eviction. *)
THEOREM DegradedStays == Spec => DegradedForLife
<1>1. IInv /\ [Next]_vars =>
        [last # NoReport /\ last.status = "degraded" => last'.status = "degraded"]_vars
  <2> SUFFICES ASSUME IInv, Next, last # NoReport, last.status = "degraded"
               PROVE  last'.status = "degraded"
    OBVIOUS
  <2>1. CASE Publish
    <3>1. Degraded(counted) \/ Incomplete(snapshot)
      BY <2>1 DEF IInv, StillCounted, Publish
    <3> QED
      BY <2>1, <3>1 DEF Publish
  <2>2. CASE ~Publish
    <3>1. last' = last
      BY <2>2 DEF Next, AuditStep, Advance, WriteFile, ReadRedaction, AddSpan, Answer,
         RefuseStale, CountDuplicate, RefuseConflict, RefuseCapacity, RefuseMemory, Admit,
         TakeSnapshot, CopyEngine, ReadStats, ReadLength, LoadFile, Install
    <3> QED
      BY <3>1
  <2> QED
    BY <2>1, <2>2
<1> QED
  BY <1>1, Invariance, PTL DEF Spec, DegradedForLife
===============================================================================
