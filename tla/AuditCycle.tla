------------------------------ MODULE AuditCycle ------------------------------
(***************************************************************************)
(* The running receiver around its span store: exporters, the auditor and  *)
(* the reloaders of internal/server/server.go, step by step where they     *)
(* release a lock.                                                         *)
(*                                                                         *)
(* An export reads the redaction list under s.mu, releases it, and adds    *)
(* the redacted span to the store.  An audit takes a snapshot, copies the  *)
(* engine, judges the snapshot, reads the store's statistics and its       *)
(* length in two more critical sections, and publishes the report.  A      *)
(* reload reads the file outside any lock and then swaps the configuration.*)
(*                                                                         *)
(* Store.Add and Store.Snapshot are atomic here: SpanStore shows that      *)
(* under their mutex they act on the window as one step.  An export        *)
(* carries one span; what a batch adds is SpanStore's subject.             *)
(***************************************************************************)
EXTENDS Integers, FiniteSets

CONSTANTS
  RawSpans,     \* what applications emit: records id, end, sensitive, dropped
  Configs,      \* valid configurations: records redact, window, rev
  FirstConfig,  \* the configuration the process was started with
  BadFile,      \* content of the rules file that config.Load refuses
  Exporters, Reloaders,
  TTL, MaxSpans,
  NoSpan, NoReport,
  MaxExports, MaxWrites, MaxReloads, MaxTime  \* bounds on the environment

ASSUME CycleAssumption ==
  /\ \A r, q \in RawSpans : r.id = q.id => r = q
  /\ FirstConfig \in Configs
  /\ FirstConfig.window <= TTL   \* checked by serveCmd, main.go line 129
  /\ TTL \in Nat \ {0} /\ MaxSpans \in Nat \ {0}

VARIABLES
  now,
  file,                    \* content of the rules file
  cfg, installs,           \* s.cfg and s.engine; how often they were swapped
  exporting,               \* per exporter: the redacted span it is about to add
  exports, answered,       \* exports begun; raw spans whose export was answered
  window, stats,           \* the store
  auditing, snapshot, expected, engine, counted, retained,  \* the audit inside
  last,                    \* s.last
  reloading, reloads, writes

envVars == <<now, file, writes>>
cfgVars == <<cfg, installs, reloading, reloads>>
exportVars == <<exporting, exports, answered>>
auditVars == <<auditing, snapshot, expected, engine, counted, retained>>
vars == <<now, file, cfg, installs, exporting, exports, answered, window, stats,
          auditing, snapshot, expected, engine, counted, retained, last,
          reloading, reloads, writes>>

----------------------------------------------------------------------------
(* What the store keeps of a raw span under a configuration. *)
Redacted(raw, c) == [raw |-> raw, redacted |-> raw.sensitive /\ c.redact]

Stored == {[raw |-> r, redacted |-> b] : r \in RawSpans, b \in BOOLEAN}

Expired(span) == span.raw.end < now - TTL

Fresh == {span \in window : ~Expired(span)}

SameIdentity(span) == {other \in Fresh : other.raw.id = span.raw.id}

NoStats == [rejected |-> 0, duplicates |-> 0, conflicting |-> 0, evictions |-> 0]

Evicted == Cardinality(window \ Fresh)

MutantDegraded(st) == st.rejected > 0 \/ st.conflicting > 0
MutantDegradedSinceLast(st) == last # NoReport /\ st # last.stats
(* enrichCoverage: what makes the coverage of a live report degraded *)
Degraded(st) == st.rejected > 0 \/ st.conflicting > 0 \/ st.evictions > 0

(* baseCoverage: the engine has called it degraded already if a span says  *)
(* that its attributes or links were dropped.                              *)
Incomplete(spans) == \E span \in spans : span.raw.dropped

----------------------------------------------------------------------------
Init ==
  /\ now = 0
  /\ file = FirstConfig /\ writes = 0
  /\ cfg = FirstConfig /\ installs = 0
  /\ exporting = [e \in Exporters |-> NoSpan] /\ exports = 0 /\ answered = {}
  /\ window = {} /\ stats = NoStats
  /\ auditing = "select" /\ snapshot = {} /\ expected = {}
  /\ engine = [cfg |-> FirstConfig, install |-> 0]
  /\ counted = NoStats /\ retained = 0
  /\ last = NoReport
  /\ reloading = [k \in Reloaders |-> BadFile] /\ reloads = 0

(* The environment: the clock, and whoever edits the rules file *)
Advance ==
  /\ now < MaxTime
  /\ now' = now + 1
  /\ UNCHANGED <<file, writes, cfgVars, exportVars, window, stats, auditVars, last>>

WriteFile(content) ==
  /\ writes < MaxWrites
  /\ file' = content
  /\ writes' = writes + 1
  /\ UNCHANGED <<now, cfgVars, exportVars, window, stats, auditVars, last>>

----------------------------------------------------------------------------
(* Export, httpExport: read the redaction list under s.mu and apply it (a  *)
(* request that cannot be decoded is answered before, and leaves no trace) *)
ReadRedaction(e, raw) ==
  /\ exports < MaxExports
  /\ exporting[e] = NoSpan
  /\ exporting' = [exporting EXCEPT ![e] = Redacted(raw, cfg)]
  /\ exports' = exports + 1
  /\ UNCHANGED <<envVars, cfgVars, answered, window, stats, auditVars, last>>

(* ... then store.Add, on the state the store has by then.                 *)
Answer(e, span) ==
  /\ exporting[e] = span
  /\ span # NoSpan
  /\ exporting' = [exporting EXCEPT ![e] = NoSpan]
  /\ answered' = answered \cup {span.raw}
  /\ UNCHANGED <<envVars, cfgVars, exports, auditVars, last>>

RefuseStale(e, span) ==
  /\ Answer(e, span)
  /\ Expired(span)
  /\ window' = Fresh
  /\ stats' = [stats EXCEPT !.rejected = @ + 1, !.evictions = @ + Evicted + 1]

CountDuplicate(e, span) ==
  /\ Answer(e, span)
  /\ ~Expired(span) /\ span \in SameIdentity(span)
  /\ window' = Fresh
  /\ stats' = [stats EXCEPT !.duplicates = @ + 1, !.evictions = @ + Evicted]

RefuseConflict(e, span) ==
  /\ Answer(e, span)
  /\ ~Expired(span) /\ SameIdentity(span) # {} /\ span \notin SameIdentity(span)
  /\ window' = Fresh
  /\ stats' = [stats EXCEPT !.rejected = @ + 1, !.conflicting = @ + 1,
                            !.evictions = @ + Evicted]

RefuseCapacity(e, span) ==
  /\ Answer(e, span)
  /\ ~Expired(span) /\ SameIdentity(span) = {} /\ Cardinality(Fresh) >= MaxSpans
  /\ window' = Fresh
  /\ stats' = [stats EXCEPT !.rejected = @ + 1, !.evictions = @ + Evicted]

(* Whether a span fits is left open: sizes are the subject of SpanStore.    *)
RefuseMemory(e, span) ==
  /\ Answer(e, span)
  /\ ~Expired(span) /\ SameIdentity(span) = {} /\ Cardinality(Fresh) < MaxSpans
  /\ window' = Fresh
  /\ stats' = [stats EXCEPT !.rejected = @ + 1, !.evictions = @ + Evicted]

Admit(e, span) ==
  /\ Answer(e, span)
  /\ ~Expired(span) /\ SameIdentity(span) = {} /\ Cardinality(Fresh) < MaxSpans
  /\ window' = Fresh \cup {span}
  /\ stats' = [stats EXCEPT !.evictions = @ + Evicted]

AddSpan(e) ==
  \E span \in Stored :
    \/ RefuseStale(e, span)
    \/ CountDuplicate(e, span)
    \/ RefuseConflict(e, span)
    \/ RefuseCapacity(e, span)
    \/ RefuseMemory(e, span)
    \/ Admit(e, span)

----------------------------------------------------------------------------
(* audit, entered from a tick of the audit interval *)

MutantSnapshotTaken == IF last # NoReport THEN last.spans ELSE Fresh
SnapshotTaken == Fresh

TakeSnapshot ==
  /\ auditing = "select"
  /\ auditing' = "snapshot"
  /\ window' = Fresh
  /\ stats' = [stats EXCEPT !.evictions = @ + Evicted]
  /\ snapshot' = SnapshotTaken
  /\ expected' = answered
  /\ UNCHANGED <<envVars, cfgVars, exportVars, engine, counted, retained, last>>

MutantEngineCopied == engine
EngineCopied == [cfg |-> cfg, install |-> installs]

(* The engine copied here judges the snapshot; AuditWindow changes nothing. *)
CopyEngine ==
  /\ auditing = "snapshot"
  /\ auditing' = "judged"
  /\ engine' = EngineCopied
  /\ UNCHANGED <<envVars, cfgVars, exportVars, window, stats, snapshot, expected,
                 counted, retained, last>>

(* enrichCoverage: s.store.Stats() *)
ReadStats ==
  /\ auditing = "judged"
  /\ auditing' = "counted"
  /\ counted' = stats
  /\ UNCHANGED <<envVars, cfgVars, exportVars, window, stats, snapshot, expected,
                 engine, retained, last>>

MutantLength == Cardinality(window) - 1
Length == Cardinality(window)

(* enrichCoverage: s.store.Len() *)
ReadLength ==
  /\ auditing = "counted"
  /\ auditing' = "enriched"
  /\ retained' = Length
  /\ UNCHANGED <<envVars, cfgVars, exportVars, window, stats, snapshot, expected,
                 engine, counted, last>>

(* The end of audit: s.last under s.mu.  Metrics.Observe is module Metrics. *)
Publish ==
  /\ auditing = "enriched"
  /\ auditing' = "select"
  /\ last' = [spans |-> snapshot, expected |-> expected, cfg |-> engine.cfg,
              install |-> engine.install, stats |-> counted, retained |-> retained,
              status |-> IF Degraded(counted) \/ Incomplete(snapshot)
                         THEN "degraded" ELSE "unknown"]
  /\ snapshot' = {} /\ expected' = {} /\ counted' = NoStats /\ retained' = 0
  /\ UNCHANGED <<envVars, cfgVars, exportVars, window, stats, engine>>

----------------------------------------------------------------------------
(* ReloadConfig, on the SIGHUP goroutine or in POST /admin/reload *)

LoadFile(k) ==
  /\ reloads < MaxReloads
  /\ reloading[k] = BadFile
  /\ reloads' = reloads + 1
  /\ reloading' = [reloading EXCEPT ![k] = file]  \* a bad file ends the reload
  /\ UNCHANGED <<envVars, cfg, installs, exportVars, window, stats, auditVars, last>>

Install(k) ==
  /\ reloading[k] # BadFile
  /\ cfg' = reloading[k]
  /\ installs' = installs + 1
  /\ reloading' = [reloading EXCEPT ![k] = BadFile]
  /\ UNCHANGED <<envVars, reloads, exportVars, window, stats, auditVars, last>>

----------------------------------------------------------------------------
AuditStep == TakeSnapshot \/ CopyEngine \/ ReadStats \/ ReadLength \/ Publish

Next ==
  \/ Advance
  \/ \E content \in Configs \cup {BadFile} : WriteFile(content)
  \/ \E e \in Exporters, raw \in RawSpans : ReadRedaction(e, raw)
  \/ \E e \in Exporters : AddSpan(e)
  \/ AuditStep
  \/ \E k \in Reloaders : LoadFile(k)
  \/ \E k \in Reloaders : Install(k)

(* The ticker fires for as long as the service runs and audit blocks on     *)
(* nothing; a reload that has read the file goes on to install it, and an   *)
(* export that has read the redaction list goes on to the store.            *)
Fairness ==
  /\ WF_vars(AuditStep)
  /\ \A k \in Reloaders : WF_vars(Install(k))
  /\ \A e \in Exporters : WF_vars(AddSpan(e))

Spec == Init /\ [][Next]_vars /\ Fairness

----------------------------------------------------------------------------
(* Properties *)

Counts == [rejected : Nat, duplicates : Nat, conflicting : Nat, evictions : Nat]

Reports == [spans : SUBSET Stored, expected : SUBSET RawSpans, cfg : Configs,
            install : Nat, stats : Counts, retained : Nat,
            status : {"unknown", "degraded"}]

(* The values the receiver's state can take. *)
TypeOK ==
  /\ now \in Nat /\ writes \in Nat /\ reloads \in Nat /\ exports \in Nat
  /\ file \in Configs \cup {BadFile}
  /\ cfg \in Configs /\ installs \in Nat
  /\ exporting \in [Exporters -> Stored \cup {NoSpan}]
  /\ answered \subseteq RawSpans
  /\ window \subseteq Stored /\ IsFiniteSet(window) /\ stats \in Counts
  /\ auditing \in {"select", "snapshot", "judged", "counted", "enriched"}
  /\ snapshot \subseteq Stored /\ expected \subseteq RawSpans
  /\ engine \in [cfg : Configs, install : Nat]
  /\ counted \in Counts /\ retained \in Nat
  /\ last # NoReport => last \in Reports
  /\ reloading \in [Reloaders -> Configs \cup {BadFile}]

(* A report that does not call its coverage degraded has lost nothing: all *)
(* spans whose export had been answered when its snapshot was taken are in *)
(* it.  The statistics are read after the snapshot, in a lock of their     *)
(* own; read before it they would miss what the snapshot itself evicts.    *)
UndegradedIsComplete ==
  last # NoReport /\ last.status # "degraded" =>
    last.expected \subseteq {span.raw : span \in last.spans}

(* Degraded coverage is for life.  enrichCoverage reads counters that only *)
(* grow, so after the first rejection or eviction no later report is       *)
(* undegraded, whatever window it covers.  A report degraded only because  *)
(* of a span with dropped attributes or links (baseCoverage) is followed   *)
(* by no other: the span leaves the snapshots by an eviction alone, and    *)
(* the counters of that report are read after the snapshot without it.     *)
DegradedForLife ==
  [][last # NoReport /\ last.status = "degraded" => last'.status = "degraded"]_vars

(* Whatever is retained and stays retained is eventually reported.         *)
EventuallyReported ==
  \A span \in Stored :
    span \in window ~> \/ last # NoReport /\ span \in last.spans
                       \/ span \notin window

(* A reload takes effect: once configurations stop being installed, all    *)
(* reports from some time on are judged with the one installed last.       *)
ReloadTakesEffect == <>[](last # NoReport /\ last.install = installs)

(* docs/ARCHITECTURE.md line 52, of exports: "Identical {trace_id,         *)
(* span_id} exports are deduplicated ... Conflicting content for the same  *)
(* identity is rejected and counted."  An application's span has one       *)
(* content here, so no export conflicts with another.                      *)
RetriesDoNotConflict == stats.conflicting = 0
===============================================================================
