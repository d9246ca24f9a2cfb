# Verification of async-trace-doctor

async-trace-doctor judges whether the traces of a message-driven system hang
together: it takes OpenTelemetry spans, from files or from a live OTLP
receiver, decides which consumer span belongs to which producer span, checks a
contract over the pairs and reports findings. This directory holds TLA+ models
of that program, the TLC configurations that check them on small instances,
and theorems about each of the models proved with TLAPS. Paths are those of the
repository. `PROJECT.json` lists, for each definition, the lines it models.

To check a module: `tlc -config MCSpanStore.cfg MCSpanStore`. To check the
proofs: `tlapm SpanStoreProofs.tla`.

## 1. The system

### Components

| component | state | operations | status |
|---|---|---|---|
| span store, `internal/server/store.go` | spans, identity index, bytes, generation, snapshot cache and its generation, statistics, gauges | `Add`, `Snapshot`, `evictLocked` | modelled: `SpanStore`, `AdmissionWindow` |
| receiver, `internal/server/server.go` | configuration, engine, redaction list, last report, under `s.mu` | `Export`, `httpExport`, `audit`, `enrichCoverage`, `ReloadConfig`, `handleReload` | modelled, less decoding and read-only handlers: `AuditCycle` |
| `Run`, `server.go` | listeners, serving goroutines, `errCh`, ready flag | start, audit loop, shutdown | modelled: `Lifecycle` |
| metrics, `internal/server/metrics.go` | gauges and counters, `previousViolations` | `Observe`, a scrape | modelled: `Metrics` |
| rate limiter, `internal/server/ratelimit.go` | tokens, time of the last refill | `newTokenBucket`, `allow` | modelled: `RateLimit` |
| correlation, `internal/correlation/correlation.go` | matches, unresolved references and the search's pointers, for the length of a call | `Correlate` | modelled: `Correlation` |
| rules engine, `internal/rules/engine.go` | none between audits | `Audit`, `AuditWindow`, `ViolatesPolicy` | modelled: `Rules` |
| span model, `internal/model/model.go` | none | roles, contexts, fingerprints | as far as other modules use it |
| ingest, `internal/ingest/otlp.go` | bytes consumed, spans read, identities seen, for the length of a call | `ReadPath`, `DecodeJSON`, `FromProto` | modelled: `OfflineAudit`; redaction also in `AuditCycle` |
| command line, `cmd/async-trace-doctor/main.go` | flags, report files, exit status | `audit`, `serve`, signals | modelled: `OfflineAudit`; `serve` in `Lifecycle`, `RateLimit`, `AuditCycle` |
| configuration, `internal/config/config.go` | the rules file | `Load` | partly: a step that succeeds or not |
| HTTP decoding, authentication, report writers, logging | none | | not modelled (section 7) |
| evaluation tool, demo programs | none | | not modelled, not part of the product |

### How they interact

An OTLP exporter calls `Export` (gRPC) or `httpExport` (HTTP), each in a
goroutine of its own. A token bucket admits or refuses the call; the redaction
list is copied under `s.mu`; the spans are decoded and redacted outside any
lock; `store.Add` takes them under the store's mutex and the answer tells how
many were refused.

`Run` calls `audit` once per interval and once more on cancellation. `audit`
takes a snapshot under the store's mutex, copies the engine under `s.mu`, lets
the engine judge the snapshot, reads the store's statistics and its length in
two further critical sections, publishes the report under `s.mu` and hands it
to `Observe`, which writes the Prometheus series one at a time.
A reload, by SIGHUP or by POST, reads the file outside the lock and installs
configuration, engine and redaction list under it. Scrapes and the readiness
handler run at any moment.

The command `audit` does the same once, without a receiver: it loads the rules,
reads files one after the other within two limits, redacts and deduplicates
their spans, lets the engine judge them, writes the reports asked for and ends
with a status that a build takes for the verdict. A collector may still be
appending to the files.

Inside an audit, `AuditWindow` runs `Correlate` over the snapshot, closes the
windows that may be closed, applies the checks, and marks each finding
`sufficient` or `insufficient_evidence` by the coverage of the input.

### What is hard

- The critical sections of exports, audits and reloads interleave; several
  values are read in one of them and used after it.
- The store is lossy on purpose (expiry, capacity, conflicts), and every loss
  must show in the coverage of every later report.
- Wall-clock time can go back: the store's clock drops the monotonic reading.
- Shutdown has to end although a client never ends its request, servers fail
  at any point, and nobody receives from `errCh` any more.
- `Observe` is not atomic for a scrape.
- Correlation is a two-pointer search with two exits, a skip and a limit over
  durations that saturate.
- A live audit judges a prefix of what will arrive; what it reports must
  survive, or must have been marked as preliminary.
- The offline command has a dozen ways to end between its first file and
  its last report, and one status to tell them apart.

What makes each component correct:

- store: it agrees with itself (index, cache, bytes, gauges, statistics), stays
  within its limits, and is an admission window: what is fresh and fits is
  taken once, what is stale never comes back; every span it was handed is
  counted once.
- receiver: a report that says its coverage is whole misses nothing that
  happened before it; degraded coverage is never forgotten; every retained span
  and every reload reach a report.
- `Run`: it stops, releases every listener, leaves no goroutine blocked, and
  audits what it acknowledged.
- metrics: what a scrape sees belongs to one report; a finding counts when it
  appears and not again while it lasts.
- limiter: it admits at most what the rate pays for and refuses no less.
- correlation: nearest producers by route, no pair across tenants, each
  context reference accounted for, no index out of range.
- offline audit: every line counts, each export is judged once, contradicting
  exports are refused, and the status tells what was delivered.
- rules: no span falls through all checks, the summary agrees with them, no finding that rests on
  absence decides by itself, a fact that observed spans prove is reported again.

## 2. The modules

Each module has the code's state as its variables and one action per operation
or, where the code can be interrupted between two critical sections, one action
per section.

- `AdmissionWindow` (abstract): the set of retained spans of a window that
  moves with the clock. A batch offers spans; each fresh, known-to-be-new one
  that fits is taken. This is what the store promises to its callers, without
  index, cache, generation or statistics.
- `SpanStore`: `store.go` field by field. `AddBegin` and `SnapshotBegin` take the
  mutex and read the clock, `EvictSpan` and `EvictEnd` are `evictLocked`,
  `AddSpan` is one iteration of `Add`'s loop with its six outcomes (stale,
  duplicate, conflict, no room, no bytes, admitted), `AddReturn` and
  `SnapshotReturn` end the call. `offered` counts the spans ever handed to `Add`.
  `Advance` and `StepBack` are the wall clock.
  `Window == INSTANCE AdmissionWindow WITH ...` is the refinement mapping: the
  window is the set of spans of the slice, and its view is what the last call has
  shown, empty while another call is inside. `EvictEnd` maps to `Expire`, an
  admission to `Admit`, a refusal to a stutter, `SnapshotReturn` to `Observe`.
- `AuditCycle`: exporters, the auditor and reloaders as processes with a
  program counter whose labels are the gaps between the critical
  sections. A store call is one step here: `SpanStore` shows that under the
  mutex it acts on the window as one. A span may say that attributes or links of it
  were dropped: then the engine calls the coverage degraded, and `enrichCoverage`
  leaves it so.
- `Metrics`: `Observe` with a step per series it writes; `Scrape` at any moment. What
  `Finding.Fingerprint` computes is a field of a finding, and two findings of a
  report may share it.
- `RateLimit`: one bucket per transport, tokens in units of `1/Cost` of a
  request so that a rate that is no whole number per tick is exact.
- `Lifecycle`: `Run` with a program counter, one process per server, the
  `errCh` buffer, requests that arrive, are acknowledged or stay open, the
  cancellation and the deadline of the shutdown. A request connects while its server's
  listener is open, and arrives while connections are served (`connsOpen`): a
  server that has failed takes no connection, but serves those it has.
- `Correlation`: `Correlate` over one input: exact links first, then each
  consumer's references, then the route with the two-pointer search, a
  step per iteration; the difference of two times saturates at `MaxDuration`.
- `Rules`: instantiates `Correlation` for the correlation of an audit, then
  `Judge` builds the findings, then `NextWindow` audits a longer prefix
  of the stream, as a live receiver does. A finding names the spans the code's names:
  the candidate producer of a consumer without context, the first success of too
  many attempts. Its service, system, destination and group are those of these spans.
  A span has its identity (`id`, none if it is not valid) and what it was
  exported with (`rawId`), by which repeated attempts are recognised.
- `OfflineAudit`: the command `audit` with a program counter: `LoadConfig`,
  `ListFiles`, `StatFile` and `ReadFile` for each file, `DeduplicateSpan` for each
  span, `Audit`, `WriteReport` for each report, `Policy`. A file is a sequence of lines,
  a line a document (the sequence of its spans) or `Malformed`, and a collector may
  append a line at any moment (`Write`). What the engine finds is any verdict, as
  `Rules` is about that. `Window == INSTANCE AdmissionWindow WITH ...` maps the
  spans kept so far to an admission window in which nothing expires.
- `MC*`: the constants of the instances. `*Proofs`: theorems.

Compositions: `SpanStore` and `OfflineAudit` implement the same `AdmissionWindow`,
so both ways in share one promise about identities, repetitions and conflicts; `Rules` runs
`Correlation`; `AuditCycle` composes store, auditor, reloads and redaction.
`Metrics`, `RateLimit` and `Lifecycle` share no variable with them.

## 3. What the runs check

| run | instance | what it shows |
|---|---|---|
| `span_store` | four spans (two with one identity, one of them larger, one anonymous), room for 3 spans and 4 bytes, batches of 2, 3 calls, TTL 1, 3 moments, one clock step back | `Consistent`: index and cache agree with the spans, the capacity holds, expired spans hold no room; bytes agree with the spans after every step, gauges between calls; `Ledger`: each span handed to `Add` is in one series, the statistics agree with the series, what was audited is held or evicted; each span of a batch is answered once; the store implements `AdmissionWindow`; without a step back nothing evicted is admitted again |
| `audit_cycle` | 2 exporters, 2 reloaders, 2 exports, 2 reloads, one file change, room for one span | `UndegradedIsComplete`: a report with whole coverage lost nothing; `DegradedForLife`, also of a report degraded by a span with dropped attributes; under fairness, `EventuallyReported` and `ReloadTakesEffect` |
| `metrics` | 3 audits over a handful of reports, scrapes at any step | gauges after `Observe` are the report's; a scrape never mixes two reports; `CountedOnAppearance`: a report adds nothing for a fingerprint the previous one had, and one for each finding of any other, which is two if the report has a fingerprint twice |
| `rate_limit` | rates 0 and 3/4 per tick, bursts 1 and 2, two transports, 4 requests, 4 ticks | from any mark on, no more passes than a full bucket and its gains pay for; nothing within the bound is refused |
| `lifecycle` | 2 requests, one on gRPC, up to 3 failures of listeners and servers | listeners released, the last audit covers what was acknowledged before it, `ReadyIsHonest`: while `/ready` says 200 no server was told to stop, and one whose listener is closed has failed and its error is on its way to `Run`; `Run` stops, no serving goroutine blocks for ever |
| `correlation` | a set of inputs that mix links, references and routes, two tenants, window 1, durations to 4 | the search finds the nearest producers, no pair crosses tenants, every reference is accounted for, no pointer leaves its slice, the call ends |
| `rules` | streams of spans over which live and final audits run, thresholds of 1 | no span vanishes and the summary counts what the findings say; absence never decides; orphan consumers survive the next audit of a stream ordered by the ends of its spans; `ObservedStands`: in any order, a span's fault is found again, a consumer without context and an excess of attempts are reported again |
| `offline_audit` | up to two files of up to two lines, a third appended while they are read; spans that differ in a redacted key, an array, a link, a NaN, or have no identity; limits of 2 lines and 3 spans | `DeduplicationExact`: each export judged once, nothing lost, what conflicts refused, and nothing else but a repeated span that holds a NaN; `ImplementsWindow`; `ExitTellsTruth`: status 0 or 2 only with every report whole |
| four runs that expect a violation | | section 6 |

### Why the bounds are enough

- `span_store`: a capacity of 3 and a budget of 4 with a span of size 3 make each limit bite
  before the other; 3 calls are enough to fill, expire, and retry; two spans of one
  identity and one hash cover duplicate, conflict and hash collision. The
  step back is what makes a stale span fresh again.
- `audit_cycle`: two exporters and one place make each refuse the other's span; one of
  the spans has dropped attributes and expires, so that coverage degraded by it is
  handed over to the eviction counter; one audit
  overlaps exports and both reloads. Two reloads of one file with one change
  between them give the overlapping order in which the older file wins.
- `metrics`: three audits give present, absent, present again; one report has a
  fingerprint twice.
- `rate_limit`: fractions of 1/4 and a burst of 2 give partial refills, a clamp at
  the burst and an exhausted bucket; the theorems cover every value.
- `lifecycle`: three failures let all servers fail; one request per
  transport suffices, as handlers do not depend on each other.
- `correlation`: batches of up to two messages and three producers exercise skip,
  limit and both exits of the search; `MaxDuration` 4 with window 1 lets a
  difference saturate.
- `rules`: a producer, a consumer and a competing span that arrives later are
  what it takes to change a judgement; all kinds of findings the module has
  occur.

- `offline_audit`: two files and two lines put a repetition or a conflict in one
  document, in one file or across files; limits of 2 lines and 3 spans are passed by the
  larger directories, and by the appended line before and after the size was taken.

Counters without a bound in the code (calls, time, requests, audits) have a
bound in the guard of the action that counts; each is a constant named `Max...`.
Deadlock is checked in every run except `lifecycle`, `correlation`, `rules` and
`offline_audit`, where the modelled call ends: `Run` returns, `Correlate` returns,
the stream is exhausted, the command exits.

## 4. Fairness, and why the code justifies it

- `AuditCycle`: weak fairness of the audit's steps (the loop of `Run` with a
  ticker of a positive interval), of a reload once its file is read, and of
  `Add` once called: each is a goroutine that waits only for a mutex
  that is always released. Exports, reloads and changes of the file are never
  forced.
- `Lifecycle`: weak fairness of `Run`, of the deadline, of the two waiting
  goroutines and of a server that sends an error; strong fairness of the two
  cases of the loop's `select`, since Go picks at random among ready cases.
  A client is never obliged to end its request: that is what the
  deadline is for.
- `Correlation`: weak fairness of the one thread.
- `SpanStore`, `Metrics`, `RateLimit`, `Rules`, `OfflineAudit`: safety only, no fairness.

## 5. What is proved

Theorems hold for every value of the constants under the modules' named
assumptions (limits are naturals or positive, a configuration the process
starts with).

`SpanStoreProofs`:

| theorem | states |
|---|---|
| `TypeCorrect`, `IndexAgrees`, `CacheIsCurrent`, `CapacityHolds`, `FreshOnly` | the invariants `TypeOK`, `IndexConsistent`, `CacheCurrent`, `WithinCapacity`, `RoomIsForFresh` |
| `StaysConsistent` | `Consistent`, the last four together |
| `Implementation` | `SpanStore` implements `AdmissionWindow`, `ImplementsWindow` |
| `RetryAfterEviction` | the action property `NeverReadmitted` |
| `GaugesHold`, `LedgerBalances`, `AnswerHolds` | `GaugesAgree`, `Ledger`, `AnswerMatchesStore`: gauges, series, statistics and answers tell of the store and of what it was handed |
| `BytesHold` | `BytesAccounted`: the byte account is the sum of the sizes of the spans held, within its limit |

The inductive invariant of `Invariance` is the conjunction of type, index,
cache, capacity and freshness with two facts about the call that is inside:
`LocalsReset` (a call starts with empty locals) and `LoopInv` (during eviction,
`kept` holds exactly the unexpired spans met so far, in their order). None of
the parts is inductive alone: `Add` relies on the index to find a duplicate, so
identities stay distinct only while the index agrees with the spans; the index
rebuilt after an eviction is right only if `kept` holds each identity once;
freshness rests on the loop having seen all spans. The refinement needs the
same facts: a free place in the index is a free identity in the window, and
`EvictEnd` removes all that had expired and nothing else. `RetryAfterEviction`
is proved of the window with one more invariant: what was once admitted and is
gone had expired at a reading of a clock that does not go back, and `Add`
refuses what has expired.

The four about accounts each need a fact about the call inside: an answer is
right only if a duplicate's index entry stands for a span that is retained
(`DuplicateIsRetained`), and the bytes only if the eviction loop keeps no more than
it has scanned (`BytesInv`). That the byte account is a sum is an induction over the
length of the slice. The library's induction theorem takes a predicate, which the
provers cannot instantiate; `SetInduction` states induction for a set of numbers and
is proved from `<` being well founded. With it the recursive function
`TotalSize` is shown to exist and to add up (`SumsExist`).

`RateLimitProofs`:

| theorem | states |
|---|---|
| `TypeCorrect` | tokens lie between none and the burst |
| `RateHolds` | `RateBounded`: from any mark on, at most a full bucket and what it gained since was passed on |
| `RefusalJustified` | `OnlyExcessRefused`: a refused request would have exceeded that bound, counted from when the bucket was last full |

`RateBounded` is not inductive: that few requests have passed says nothing of
the tokens left to pass more. The inductive invariant adds `Paid` (what was spent
since the mark, and what a refill now would leave in the bucket, is at most a
full bucket and its gains since) and `Exact` (since the bucket was last full,
spent and left are together exactly that). The first gives the bound, the second
shows that a refusal is owed to real traffic. A mark may be set at any moment, so
the bound holds for every interval.

`CorrelationProofs`, for any window of spans:

| theorem | states |
|---|---|
| `TypeCorrect` | `TypeOK` |
| `NearestFound` | `RouteNearest`: the walk finds the nearest eligible producers, as many as a batch asks for |
| `TenantsApart` | `TenantIsolation` |
| `CountersTell` | `ReferencesTell`: the two counters say whether a context correlated the consumer |
| `NoPanic` | `PointersInRange`: no index outside the route while timestamps are within a duration's range |

The argument for `NearestFound` is the invariant `Walk`: the two pointers part the
sorted route at the consumer's start; every position between them is nearer than
every position outside; what has been collected is the eligible part of what lies
between. A step keeps it because the position chosen is the nearest of those left
(`ChosenIsNearest`), and that needs the route to be an enumeration of the
producers with one route key (`Enumeration`), the binary search to land where
the route reaches the start (`Partition`), and that no eligible producer has
another key, also under RabbitMQ's prefixes (`EligibleOnRoute`). At the end either
enough was found, or nothing is left, or the nearest left is outside the window and
so are all others. It is why the code's `continue` for a distant candidate is never
needed. That a saturated duration breaks it is the hypothesis `InRange`: see the last note of section 6.

`AuditCycleProofs`, for any spans, configurations, exporters and reloaders:

| theorem | states |
|---|---|
| `TypeCorrect` | `TypeOK` |
| `Completeness` | `UndegradedIsComplete`: a report that is not degraded has all that was answered before its snapshot |
| `DegradedStays` | the action property `DegradedForLife` |

A report is written several critical sections after its snapshot, while exports
go on, so the inductive invariant says for each stage of an audit what is true of
the counters. `NothingLost` is about the store alone: as long as its counters show
no loss, all it answered is in the window (each outcome of `Add` either counts a
loss or has the span in the window, the lemma `AddFacts`). `SnapshotCovers` holds from
the snapshot on: if the counters show no loss now, the snapshot has what was
expected of it. `CountersCover` holds once they are read, of the values read. Reading
them after the snapshot is what carries one over to the other: a loss in
between can only make the report more cautious. `StillCounted` says of a report with
degraded coverage that what degraded it is still counted, or is a span with dropped
attributes still held, in the window and then in the snapshot; `SnapshotHeld`, that
what a snapshot has leaves the window only by an eviction that is counted. The two
give `DegradedForLife`.

`LifecycleProofs`, for any requests and failures:

| theorem | states |
|---|---|
| `TypeCorrect` | `TypeOK` |
| `Released` | `ListenersReleased`: however `Run` returns, no listener is open |
| `FinalAudit` | `FinalAuditCovers` |
| `Readiness` | `ReadyIsHonest` |

The three are about the ends of a path, so the invariant says what holds on it:
which listeners cannot be open yet (`ListenersInv`), that what was answered before the
cancellation is in the final snapshot and then in the report, and that after it no
other audit replaces that report (`CoverInv`), and that readiness is only true in
the loop, where nothing has been told to stop, and where a closed listener means a
failure that is about to be sent, waits in `errCh`, or was received (`ReadyInv`). The
exception is real: while `Run` is in an audit it receives nothing, and `/ready`
answers 200 though a server takes no connection any more.

`MetricsProofs`, for any sequence of reports:

| theorem | states |
|---|---|
| `TypeCorrect` | `TypeOK` |
| `ScrapeShowsOneReport` | the action property `ScrapeOfOneReport` |
| `CountingOnAppearance` | `CountedOnAppearance` |

The invariant follows the loop: the counts so far are those of the findings so far
(`CountInv`, a cardinality that grows by one finding, `OneMoreAmong`); the fingerprints
compared with are the previous report's until the loop has ended (`FingerprintInv`);
and the gauges are the previous report's, then none, then the new one's with zeros
(`GaugeInv`), which is why a scrape can miss labels but not mix two reports.

`OfflineAuditProofs`, for any directories, documents, redaction lists and limits:

| theorem | states |
|---|---|
| `TypeCorrect` | `TypeOK` |
| `DeduplicationIsExact` | `DeduplicationExact` |
| `ExitStatusIsTrue` | `ExitTellsTruth` |
| `Implementation` | `OfflineAudit` implements `AdmissionWindow`, `ImplementsWindow` |

`deduplicateSpans` looks at one span at a time, and the invariant says of the spans behind
its cursor what `DeduplicationExact` says of all: each is kept, once if it has an
identity (`KeptOnce`), with one content (`OneContent`), and else as often as it was
decoded (`AsOften`). That the comparison fails for two contents or for a repeated NaN
and for nothing else is `RefusedWhy`. The hash needs no assumption: the comparison behind it decides.
`ReportInv` says at each stage which reports are whole. The refinement
takes the spans kept so far as the window; a repetition is a stutter there.

`RulesProofs`, for any stream of spans, any audits and any configuration:

| theorem | states |
|---|---|
| `TypeCorrect` | `TypeOK` |
| `NoSpanVanishes` | `NothingVanishes`: each messaging span is accounted for and the summary agrees |
| `AbsenceHolds` | `AbsenceDoesNotDecide` |
| `ObservedFindingsStand` | the action property `ObservedStands` |
| `OrphanFindingsStand` | the action property `OrphanConsumerStands` |

A report is a function of what `Correlate` left, and a finding outlives the
window it was made of: it stays in the report while `Correlate` runs over the next,
longer one. The invariants are therefore about the findings in terms of the present
window. `ObservedInv` says that what each observed finding rests on can be seen in
it: a span without a context has none in any longer window (`ReferencesInv`), and
the attempts at a message that lie in one window of time stay together when
attempts are added before, between or after them (the lemma `ChainGrows`). A finding itself need
not be in the next report: a nearer producer replaces the candidate it names
(`engine.go:138`), an earlier attempt the first success (`engine.go:229`). What stands
is that the same consumer, or an attempt of the same window that starts no later, is
reported; its fingerprint is a new one, and the metrics count it again. `OrphansInv` says of
an orphan consumer that no producer in the window could have been correlated
with it, and that the watermark has passed its end by a window: a producer
that arrives later in order ends too late to be within the window of it. To
conclude that such a consumer is reported again takes the converse, that
`Correlate` finds no match exactly when there is none (`SettledInv`), and that is the
search's correctness: `Corr == INSTANCE CorrelationProofs WITH Inputs <- Prefixes`
uses its theorems of every prefix of the stream.

The proof of `OrphanFindingsStand` did not go through as the property was first stated.
`time.Time.Sub` saturates, and when timestamps are further apart than a
duration can say, the difference of a consumer's start and a producer's end is the
smallest duration, whose negation is itself: it is negative, so no window excludes
it. TLC then gave an ordered stream whose orphan is correlated with a producer that
ends a duration's range later. The property has the hypothesis
`InRange` since (timestamps less than 292 years apart), which holds unless a clock is wrong by
centuries.

Assumptions on constants are named and as weak as the proofs allow: limits
and bounds are naturals, `Inputs` are sequences of spans whose role follows
from their operation (`RulesAssumption`, `model.go:323`), `Decodable` spans are those
that decoding can yield (`DecodableAssumption`), the window is shorter than the range
of a duration (`CorrelationAssumption`). TLC evaluates each of them.

With this each invariant and each action property of a passing run is stated by a
theorem, and both refinements are. Model-checked only is what is temporal and needs
fairness: `EventuallyReported`, `ReloadTakesEffect`, `Stops`, `NoSenderBlocked` and
`Finishes`, as liveness and `ENABLED` are out of the prover's reach. The four
properties that the code violates are not theorems; their counterexamples are
TLC's. No module that holds theorems reaches a RECURSIVE operator.

## 6. Where the documents and the code disagree

Four runs state what a document says and TLC finds the code's counterexample.

1. `unread_lines` (`otlp.go:197`): of a JSONL file only the first line is audited.
   The file is first decoded as one document, the decoder stops after the first JSON
   value, and the loop over the lines is reached only if that value is malformed, which
   it then reports. The later lines are neither audited nor found malformed. The
   repository's only JSONL test has a file of one line.
2. `redaction_conflict` (`server.go:80`): a reload that redacts one more attribute
   between an export and its retry turns the retry, identical for its sender,
   into a conflicting duplicate, and coverage is degraded for the life of the
   process.
3. `recounted_finding` (`metrics.go:70`): counters compare with the previous report
   only, so a finding that goes and returns counts twice.
4. `retracted_finding` (`engine.go:239`): a live audit reports a latency of
   a pair correlated by message identity as `sufficient`; a second producer span of
   the same message arrives that ended nearer to the consumer's start, it becomes the
   candidate, and the next audit takes the finding back. Pairs correlated by time
   are taken back in the same way.

Two more are part of what the properties say, as exceptions that TLC reaches:

- An identical export of a span that holds a NaN is refused as a conflict
  (`otlp.go:97`: `reflect.DeepEqual` calls no NaN equal to itself), where
  `docs/ARCHITECTURE.md` line 52 and
  `TestOfflineInputDeduplicatesAndRejectsConflictingIdentity` have identical exports
  deduplicated. `DeduplicationExact` names it `RepeatedNaN`, apart from `TwoContents`. The
  store compares in the same way (`store.go:88`).
- A report that has a fingerprint twice adds two to the violation counters
  (`metrics.go:70`), where `docs/ARCHITECTURE.md` line 54 says once per stable
  fingerprint. `CountedOnAppearance` says how many are added.

Seen while modelling, without a run of their own: the TTL is compared with the
correlation window at start only (`main.go:129`), and a reload may install a longer
window (`server.go:413`); `time.Time.Sub` saturates at the smallest duration, whose
negation is itself, so that a producer more than 292 years after its consumer passes
the comparison with the window (`correlation.go:234`, the hypothesis `InRange` of three
theorems, section 5); an ignored edge does not count for an expected edge it also
matches (`engine.go:294`).

## 7. What is not modelled, and why

- The syntax of OTLP JSON and protobuf, the limits of a request, decompression:
  sequential conversion of bytes; every refusal returns before the store
  is reached. `OfflineAudit` keeps what the syntax decides, that a line is a document or
  is malformed.
- `Validate` of the configuration: a predicate over the parsed file without a
  step or an order in it. What it guarantees appears as named assumptions on constants.
- Authentication: a stateless comparison; a refused request changes nothing.
- Report writers, logging, texts of findings, `/report` and `/startup`: formatting.
- The order of spans of equal age in a report, and floating-point rounding
  in the limiter and in ratios.
- Memory: the size of an allocation is not a notion of the models.
- The evaluation tool, a sequential comparison of a report with ground truth, and the
  demo programs.

Hazards that no property covers are listed in `PROJECT.json` with the reason.

## 8. Plan

Done, in the order of their importance: the store with its abstract
specification and proofs; the audit cycle with its proofs; metrics; the limiter with its
proofs; the life cycle of `Run`; correlation with its proofs; the rules with
all their checks and the summary; the offline command.

To model next: reloads with ordered changes of the file (which file wins), and
`Validate` as a predicate that implies the assumptions of the modules.

To prove next: no safety property of a run is without a theorem. What remains is

1. safety halves of the liveness properties, such as that a span in the window
   stays in it until the audit that reports it or until it expires;
2. properties of `ReloadConfig` once the order of file changes is modelled;
3. shorter proofs: `RulesProofs` and `SpanStoreProofs` prove the same two facts
   about induction on the naturals.
