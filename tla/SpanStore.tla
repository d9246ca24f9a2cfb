------------------------------ MODULE SpanStore ------------------------------
(***************************************************************************)
(* The receiver's bounded span store, internal/server/store.go.            *)
(*                                                                         *)
(* Add and Snapshot run under one mutex, so at any time at most one call   *)
(* is inside; pc says how far it has got and the variables of the call     *)
(* (reading, batch, cursor, kept, keptBytes, result) are its locals.  The  *)
(* body of a call is split at its loop iterations because the wall clock   *)
(* moves between them while the call goes on with the reading it took.     *)
(*                                                                         *)
(* A definition named Mutant... is a faulty form of the definition below   *)
(* it; no specification uses it.                                           *)
(*                                                                         *)
(* Which exporter's call enters next is not determined by the mutex, so    *)
(* callers have no identity here: AddBegin takes any batch.                *)
(***************************************************************************)
EXTENDS Integers, Sequences, FiniteSets

CONSTANTS
  Spans,        \* span values: records with fields id, end and body
  ContentHash,  \* spanContentHash, a function of the span that may collide
  SizeOf,       \* estimateSpanBytes, a function of the span
  NoIdentity,   \* spanIdentity of a span without a trace id or a span id
  ZeroTime,     \* the zero time.Time
  TTL,          \* s.ttl
  MaxSpans,     \* s.max
  MaxBytes,     \* s.maxBytes, non-positive for no byte limit
  MaxBatch,     \* bound on the length of a batch
  MaxExports,   \* bound on the number of calls of Add
  MaxTime,      \* bound on the wall clock
  MaxStepBacks  \* bound on the number of times the wall clock is set back

ASSUME StoreAssumption ==
  /\ \A span \in Spans : span.end \in Int
  /\ ContentHash \in [Spans -> Nat]
  /\ SizeOf \in [Spans -> Nat]
  /\ ZeroTime \in Int
  /\ TTL \in Nat \ {0}
  /\ MaxSpans \in Nat \ {0}
  /\ MaxBytes \in Int
  /\ MaxBatch \in Nat
  /\ MaxExports \in Nat
  /\ MaxTime \in Nat
  /\ MaxStepBacks \in Nat

VARIABLES
  now, stepBacks, exports,                  \* environment
  spans, index, currentBytes, generation,   \* Store
  cache,                                    \* cachedSnapshot, lastSnapshotGeneration
  stats, metrics, gauges,                   \* StoreStats, Prometheus series
  pc, caller, reading, batch, cursor, kept, keptBytes, result,  \* the call inside
  view,                                     \* <<>>, or what Snapshot just returned, alone in it
  admitted,                                 \* history: identified spans ever appended
  offered                                   \* history: spans handed to Add so far

envVars == <<now, stepBacks>>
storeVars == <<spans, index, currentBytes, generation, cache>>
counterVars == <<stats, metrics, gauges>>
loopVars == <<cursor, kept, keptBytes>>
vars == <<now, stepBacks, exports, spans, index, currentBytes, generation, cache,
          stats, metrics, gauges, pc, caller, reading, batch, cursor, kept,
          keptBytes, result, view, admitted, offered>>

----------------------------------------------------------------------------
(* Data *)

Identified(span) == span.id # NoIdentity

Expired(span, t) == span.end # ZeroTime /\ span.end < t - TTL

Elements(seq) == {seq[i] : i \in DOMAIN seq}

Identities(seq) == {span.id : span \in {s \in Elements(seq) : Identified(s)}}

\* The position rebuildIndexLocked leaves for an identity: its last occurrence.
LastPosition(seq, id) ==
  CHOOSE i \in DOMAIN seq : /\ seq[i].id = id
                            /\ \A j \in DOMAIN seq : j > i => seq[j].id # id

IndexOf(seq) ==
  [id \in Identities(seq) |->
     [index |-> LastPosition(seq, id),
      contentHash |-> ContentHash[seq[LastPosition(seq, id)]]]]

StatNames == {"rejected", "duplicates", "conflicting", "evictions"}

SeriesNames == {"audited", "duplicates", "stale", "capacity", "memory", "conflicting"}

ResultNames == {"accepted", "rejected", "duplicates", "conflicting", "memory"}

Zeros(names) == [name \in names |-> 0]

\* Each counter named goes up by one.
Count(counters, names) ==
  [c \in DOMAIN counters |-> IF c \in names THEN counters[c] + 1 ELSE counters[c]]

Batches == UNION {[1 .. n -> Spans] : n \in 0 .. MaxBatch}

----------------------------------------------------------------------------
(* The tests Add makes on a span, in the order it makes them *)

MutantStale(span) == FALSE
Stale(span) == Expired(span, reading)

Known(span) == Identified(span) /\ span.id \in DOMAIN index

MutantSameHash(span) == index[span.id].contentHash = ContentHash[span]
SameContent(span) ==
  /\ index[span.id].contentHash = ContentHash[span]
  /\ spans[index[span.id].index] = span

Full == Len(spans) >= MaxSpans

OverBudget(span) == MaxBytes > 0 /\ currentBytes + SizeOf[span] > MaxBytes

----------------------------------------------------------------------------
Init ==
  /\ now = 0 /\ stepBacks = 0 /\ exports = 0
  /\ spans = <<>> /\ index = <<>> /\ currentBytes = 0 /\ generation = 0
  /\ cache = [set |-> FALSE, generation |-> 0, spans |-> <<>>]
  /\ stats = Zeros(StatNames) /\ metrics = Zeros(SeriesNames)
  /\ gauges = [spans |-> 0, bytes |-> 0]
  /\ pc = "unlocked" /\ caller = "Add" /\ reading = 0 /\ batch = <<>>
  /\ cursor = 1 /\ kept = <<>> /\ keptBytes = 0 /\ result = Zeros(ResultNames)
  /\ view = <<>> /\ admitted = {} /\ offered = 0

(* The wall clock *)

Advance ==
  /\ now < MaxTime
  /\ now' = now + 1
  /\ UNCHANGED <<stepBacks, exports, storeVars, counterVars, pc, caller,
                 reading, batch, loopVars, result, view, admitted, offered>>

StepBack ==
  /\ stepBacks < MaxStepBacks
  /\ now > 0
  /\ now' \in 0 .. now - 1
  /\ stepBacks' = stepBacks + 1
  /\ UNCHANGED <<exports, storeVars, counterVars, pc, caller,
                 reading, batch, loopVars, result, view, admitted, offered>>

----------------------------------------------------------------------------
(* Entering a call: take the mutex, read the clock, start evictLocked *)

Enter(who) ==
  /\ pc = "unlocked"
  /\ pc' = "evict"
  /\ caller' = who
  /\ reading' = now
  /\ view' = <<>>
  /\ UNCHANGED loopVars

AddBegin(in) ==
  /\ exports < MaxExports
  /\ Enter("Add")
  /\ exports' = exports + 1
  /\ batch' = in
  /\ offered' = offered + Len(in)
  /\ UNCHANGED <<envVars, storeVars, counterVars, result, admitted>>

SnapshotBegin ==
  /\ Enter("Snapshot")
  /\ UNCHANGED <<envVars, exports, storeVars, counterVars, batch, result,
                 admitted, offered>>

(* evictLocked: one iteration of the loop over s.spans *)
EvictSpan ==
  /\ pc = "evict"
  /\ cursor \in DOMAIN spans
  /\ LET span == spans[cursor] IN
       IF Expired(span, reading)
       THEN UNCHANGED <<kept, keptBytes>>
       ELSE /\ kept' = Append(kept, span)
            /\ keptBytes' = keptBytes + SizeOf[span]
  /\ cursor' = cursor + 1
  /\ UNCHANGED <<envVars, exports, storeVars, counterVars, pc, caller,
                 reading, batch, result, view, admitted, offered>>

MutantIndexAfterEviction == index
IndexAfterEviction == IndexOf(kept)

GenerationAfterEviction == generation + 1

MutantBytesAfterEviction == currentBytes
BytesAfterEviction == keptBytes

Dropped == Len(spans) - Len(kept)

SomeDropped == Dropped > 0

MutantEvictionsReversed == stats.evictions + (Len(kept) - Len(spans))
EvictionsCounted == stats.evictions + Dropped

(* evictLocked after its loop: replace the spans when some were dropped *)
EvictEnd ==
  /\ pc = "evict"
  /\ cursor \notin DOMAIN spans
  /\ IF SomeDropped
     THEN /\ spans' = kept
          /\ index' = IndexAfterEviction
          /\ currentBytes' = BytesAfterEviction
          /\ generation' = GenerationAfterEviction
          /\ stats' = [stats EXCEPT !.evictions = EvictionsCounted]
     ELSE UNCHANGED <<spans, index, currentBytes, generation, stats>>
  /\ gauges' = [spans |-> Len(spans'), bytes |-> currentBytes']
  /\ pc' = caller
  /\ cursor' = 1 /\ kept' = <<>> /\ keptBytes' = 0
  /\ UNCHANGED <<envVars, exports, cache, metrics, caller, reading, batch, result,
                 view, admitted, offered>>

----------------------------------------------------------------------------
(* Add: the next span of the batch *)

NextSpan(span) ==
  /\ pc = "Add"
  /\ cursor \in DOMAIN batch
  /\ span = batch[cursor]
  /\ cursor' = cursor + 1
  /\ UNCHANGED <<envVars, exports, cache, gauges, pc, caller, reading, batch,
                 kept, keptBytes, view, offered>>

Refuse == UNCHANGED <<spans, index, currentBytes, generation, admitted>>

RefuseStale(span) ==
  /\ NextSpan(span)
  /\ Stale(span)
  /\ result' = Count(result, {"rejected"})
  /\ stats' = Count(stats, {"rejected", "evictions"})
  /\ metrics' = Count(metrics, {"stale"})
  /\ Refuse

MutantCountDuplicate(span) ==
  /\ NextSpan(span)
  /\ ~Stale(span) /\ Known(span) /\ SameContent(span)
  /\ result' = Count(result, {"duplicates"})
  /\ UNCHANGED <<stats, metrics>>
  /\ Refuse

CountDuplicate(span) ==
  /\ NextSpan(span)
  /\ ~Stale(span) /\ Known(span) /\ SameContent(span)
  /\ result' = Count(result, {"duplicates"})
  /\ stats' = Count(stats, {"duplicates"})
  /\ metrics' = Count(metrics, {"duplicates"})
  /\ Refuse

RefuseConflict(span) ==
  /\ NextSpan(span)
  /\ ~Stale(span) /\ Known(span) /\ ~SameContent(span)
  /\ result' = Count(result, {"rejected", "conflicting"})
  /\ stats' = Count(stats, {"rejected", "conflicting"})
  /\ metrics' = Count(metrics, {"conflicting"})
  /\ Refuse

RefuseCapacity(span) ==
  /\ NextSpan(span)
  /\ ~Stale(span) /\ ~Known(span) /\ Full
  /\ result' = Count(result, {"rejected"})
  /\ stats' = Count(stats, {"rejected"})
  /\ metrics' = Count(metrics, {"capacity"})
  /\ Refuse

RefuseMemory(span) ==
  /\ NextSpan(span)
  /\ ~Stale(span) /\ ~Known(span) /\ ~Full /\ OverBudget(span)
  /\ result' = Count(result, {"rejected", "memory"})
  /\ stats' = Count(stats, {"rejected"})
  /\ metrics' = Count(metrics, {"memory"})
  /\ Refuse

Admit(span) ==
  /\ NextSpan(span)
  /\ ~Stale(span) /\ ~Known(span) /\ ~Full /\ ~OverBudget(span)
  /\ spans' = Append(spans, span)
  /\ currentBytes' = currentBytes + SizeOf[span]
  /\ generation' = generation + 1
  /\ IF Identified(span)
     THEN /\ index' = [id \in DOMAIN index \cup {span.id} |->
                         IF id = span.id
                         THEN [index |-> Len(spans) + 1,
                               contentHash |-> ContentHash[span]]
                         ELSE index[id]]
          /\ admitted' = admitted \cup {span}
     ELSE UNCHANGED <<index, admitted>>
  /\ result' = Count(result, {"accepted"})
  /\ metrics' = Count(metrics, {"audited"})
  /\ UNCHANGED stats

MutantGaugesOnReturn == gauges
GaugesOnReturn == [spans |-> Len(spans), bytes |-> currentBytes]

(* Add returns: the gauges are set, result goes to the exporter and the    *)
(* mutex is released.                                                      *)
AddReturn ==
  /\ pc = "Add"
  /\ cursor \notin DOMAIN batch
  /\ gauges' = GaugesOnReturn
  /\ pc' = "unlocked"
  /\ batch' = <<>>
  /\ result' = Zeros(ResultNames)
  /\ cursor' = 1 /\ kept' = <<>> /\ keptBytes' = 0
  /\ UNCHANGED <<envVars, exports, storeVars, stats, metrics, caller, reading,
                 view, admitted, offered>>

----------------------------------------------------------------------------
(* Snapshot after its eviction: the cached copy, or a new one *)

MutantCacheHit == cache.set
CacheHit == cache.set /\ cache.generation = generation

SnapshotReturn ==
  /\ pc = "Snapshot"
  /\ IF CacheHit
     THEN /\ view' = <<cache.spans>>
          /\ UNCHANGED cache
     ELSE /\ view' = <<spans>>
          /\ cache' = [set |-> TRUE, generation |-> generation, spans |-> spans]
  /\ pc' = "unlocked"
  /\ UNCHANGED <<envVars, exports, spans, index, currentBytes, generation,
                 counterVars, caller, reading, batch, loopVars, result, admitted,
                 offered>>

----------------------------------------------------------------------------
AddSpan ==
  \E span \in Spans :
    \/ RefuseStale(span)
    \/ CountDuplicate(span)
    \/ RefuseConflict(span)
    \/ RefuseCapacity(span)
    \/ RefuseMemory(span)
    \/ Admit(span)

Next ==
  \/ Advance
  \/ StepBack
  \/ \E in \in Batches : AddBegin(in)
  \/ SnapshotBegin
  \/ EvictSpan
  \/ EvictEnd
  \/ AddSpan
  \/ AddReturn
  \/ SnapshotReturn

Spec == Init /\ [][Next]_vars

----------------------------------------------------------------------------
(* The abstract window this store implements, its hidden state supplied *)
Window == INSTANCE AdmissionWindow WITH
            window <- Elements(spans),
            view <- {Elements(seen) : seen \in Elements(view)}
----------------------------------------------------------------------------
(* Properties *)

\* The sizes of a sequence of spans added up.
TotalSize(seq) ==
  LET upTo[i \in 0 .. Len(seq)] == IF i = 0 THEN 0 ELSE upTo[i - 1] + SizeOf[seq[i]]
  IN upTo[Len(seq)]

IndexType ==
  /\ DOMAIN index \subseteq {span.id : span \in Spans}
  /\ \A id \in DOMAIN index : index[id] \in [index : Nat, contentHash : Nat]

(* The values the store's state, the call inside it and the environment    *)
(* can take.                                                               *)
TypeOK ==
  /\ now \in Nat /\ stepBacks \in Nat /\ exports \in Nat
  /\ spans \in Seq(Spans)
  /\ IndexType
  /\ currentBytes \in Int /\ generation \in Nat
  /\ cache \in [set : BOOLEAN, generation : Nat, spans : Seq(Spans)]
  /\ stats \in [StatNames -> Nat]
  /\ metrics \in [SeriesNames -> Nat]
  /\ result \in [ResultNames -> Nat]
  /\ gauges \in [spans : Nat, bytes : Int]
  /\ pc \in {"unlocked", "evict", "Add", "Snapshot"}
  /\ caller \in {"Add", "Snapshot"}
  /\ reading \in Nat
  /\ batch \in Seq(Spans) /\ kept \in Seq(Spans) /\ view \in Seq(Seq(Spans))
  /\ cursor \in Nat \ {0} /\ keptBytes \in Int
  /\ admitted \subseteq Spans
  /\ offered \in Nat

(* The identity index and the span slice agree: an entry points at the span *)
(* of its identity with that span's hash, and an identified span is the    *)
(* one its entry points at.  Add compares an incoming span with            *)
(* spans[index[id].index]; an entry left behind by an eviction would       *)
(* compare it with another span, or read past the slice.                   *)
IndexConsistent ==
  /\ \A id \in DOMAIN index :
       LET entry == index[id] IN
         /\ entry.index \in DOMAIN spans
         /\ spans[entry.index].id = id
         /\ id # NoIdentity
         /\ entry.contentHash = ContentHash[spans[entry.index]]
  /\ \A i \in DOMAIN spans :
       Identified(spans[i]) =>
         /\ spans[i].id \in DOMAIN index
         /\ index[spans[i].id].index = i

(* The cached snapshot is never served stale: whenever its generation is   *)
(* the store's, it is the store's content, whatever was admitted or        *)
(* evicted since it was taken.                                             *)
CacheCurrent ==
  /\ cache.generation <= generation
  /\ cache.set /\ cache.generation = generation => cache.spans = spans

(* The store never holds more spans than its capacity.                     *)
WithinCapacity == Len(spans) <= MaxSpans

(* The byte account is the sum of the sizes of the spans retained, after   *)
(* any number of admissions and evictions, and it never exceeds the limit. *)
BytesAccounted ==
  /\ currentBytes = TotalSize(spans)
  /\ MaxBytes > 0 => currentBytes <= MaxBytes

(* While no call is inside, a scrape of the state gauges shows the store.  *)
GaugesAgree ==
  pc = "unlocked" =>
    /\ gauges.spans = Len(spans)
    /\ gauges.bytes = currentBytes

(* Once evictLocked has run for a call, no room is held by a span that had *)
(* expired at that call's clock reading: a fresh span is never refused for *)
(* capacity in favour of an expired one, and a snapshot shows none.        *)
RoomIsForFresh ==
  pc \in {"Add", "Snapshot"} =>
    \A i \in DOMAIN spans : ~Expired(spans[i], reading)

(* Add and Snapshot rely on all of this at once, and each keeps it for the *)
(* next: index, cache, capacity and freshness hold together or not at all. *)
Consistent == IndexConsistent /\ CacheCurrent /\ WithinCapacity /\ RoomIsForFresh

(* The spans of the call inside that its loop has not reached yet. *)
Pending ==
  IF pc = "evict" /\ caller = "Add" THEN Len(batch)
  ELSE IF pc = "Add" THEN Len(batch) - (cursor - 1)
  ELSE 0

(* Nothing is lost unaccounted.  Of all the spans ever handed to Add, the  *)
(* ones the loop of the call inside has still to reach excepted, each is   *)
(* in exactly one series, audited, duplicates or one of the rejections;    *)
(* the statistics coverage is judged by agree with the series; and what    *)
(* was audited is retained or was evicted.                                 *)
Ledger ==
  /\ offered = Pending + metrics.audited + metrics.duplicates + metrics.stale
                 + metrics.capacity + metrics.memory + metrics.conflicting
  /\ stats.rejected =
       metrics.stale + metrics.capacity + metrics.memory + metrics.conflicting
  /\ stats.conflicting = metrics.conflicting
  /\ stats.duplicates = metrics.duplicates
  /\ metrics.audited = Len(spans) + (stats.evictions - metrics.stale)

(* The answer to an exporter is true of the store: every span of the batch *)
(* so far is counted once in it, and if it reports no rejection, then all  *)
(* of them are retained, those reported as duplicates included.            *)
AnswerMatchesStore ==
  pc = "Add" =>
    /\ result.accepted + result.rejected + result.duplicates = cursor - 1
    /\ result.conflicting + result.memory <= result.rejected
    /\ result.rejected = 0 =>
         \A i \in 1 .. cursor - 1 : batch[i] \in Elements(spans)

(* Every behaviour of the store is one of the abstract window: the mutex,  *)
(* the index, the hashes and the cache change nothing an exporter or the   *)
(* auditor can see.                                                        *)
ImplementsWindow == Window!Spec

(* While the wall clock was never set back, a span that was evicted is     *)
(* never retained again: a late retry is refused as stale.                 *)
NeverReadmitted == Window!NeverReadmitted

=============================================================================
