-------------------------- MODULE AdmissionWindow --------------------------
(***************************************************************************)
(* What the receiver's span store promises to the exporters that fill it   *)
(* and to the auditor that reads it, with the mutex, the batches, the      *)
(* identity index, the hashes and the snapshot cache of                    *)
(* internal/server/store.go hidden.                                        *)
(*                                                                         *)
(* The store is a window: a set of spans, none of which had expired at the *)
(* last clock reading the store acted on when it last admitted or showed   *)
(* one.  SpanStore implements this module, and OfflineAudit does with a    *)
(* clock that stands still; SpanStoreProofs and OfflineAuditProofs prove   *)
(* it.                                                                     *)
(***************************************************************************)
EXTENDS Integers, FiniteSets

CONSTANTS
  Spans,        \* the spans exporters may send, records with fields id and end
  NoIdentity,   \* the id of a span whose trace or span id is empty
  ZeroTime,     \* the zero time.Time, an end that never expires
  TTL,          \* how long a span is retained after its end
  MaxSpans,     \* the capacity of the window
  MaxTime,      \* bound on the clock
  MaxStepBacks  \* bound on the number of times the wall clock is set back

VARIABLES
  now,          \* the wall clock
  stepBacks,    \* how often the wall clock was set back
  reading,      \* the last clock reading the store acts on
  window,       \* the spans retained
  view,         \* {}, or the set of the spans the auditor was just given
  admitted      \* history: the identified spans that were ever retained

vars == <<now, stepBacks, reading, window, view, admitted>>

Identified(span) == span.id # NoIdentity

\* store.go lines 77 and 152: !End.IsZero() && End.Before(t.Add(-ttl)).
Expired(span, t) == span.end # ZeroTime /\ span.end < t - TTL

AllFresh == \A span \in window : ~Expired(span, reading)

Init ==
  /\ now = 0 /\ stepBacks = 0 /\ reading = 0
  /\ window = {} /\ view = {} /\ admitted = {}

----------------------------------------------------------------------------
(* The wall clock moves; an operator or NTP may set it back.               *)

Advance ==
  /\ now < MaxTime
  /\ now' = now + 1
  /\ UNCHANGED <<stepBacks, reading, window, view, admitted>>

StepBack ==
  /\ stepBacks < MaxStepBacks
  /\ now > 0
  /\ now' \in 0 .. now - 1
  /\ stepBacks' = stepBacks + 1
  /\ UNCHANGED <<reading, window, view, admitted>>

(* An operation begins by reading the clock once for all of its spans.     *)
ReadClock ==
  /\ reading' = now
  /\ view' = {}
  /\ UNCHANGED <<now, stepBacks, window, admitted>>

(* What had expired at that reading leaves, all of it and nothing else.    *)
Expire ==
  /\ window' = {span \in window : ~Expired(span, reading)}
  /\ UNCHANGED <<now, stepBacks, reading, view, admitted>>

(* A span enters when it is fresh, its identity is free and there is room; *)
(* by then no room is held by a span that had expired.                     *)
Admit(span) ==
  /\ AllFresh
  /\ ~Expired(span, reading)
  /\ Identified(span) => \A other \in window : other.id # span.id
  /\ Cardinality(window) < MaxSpans
  /\ window' = window \cup {span}
  /\ admitted' = IF Identified(span) THEN admitted \cup {span} ELSE admitted
  /\ UNCHANGED <<now, stepBacks, reading, view>>

(* The auditor is given exactly the window.                                *)
Observe ==
  /\ AllFresh
  /\ view' = {window}
  /\ UNCHANGED <<now, stepBacks, reading, window, admitted>>

Next ==
  \/ Advance
  \/ StepBack
  \/ ReadClock
  \/ Expire
  \/ \E span \in Spans : Admit(span)
  \/ Observe

Spec == Init /\ [][Next]_vars

----------------------------------------------------------------------------
(* Two spans of the window never share a trace and span id: the second of  *)
(* two different exports of one identity is refused, not retained beside   *)
(* the first.                                                              *)
OneSpanPerIdentity ==
  \A s, t \in window : Identified(s) /\ s.id = t.id => s = t

(* While the clock was never set back, a span that left the window does    *)
(* not return: an exporter's late retry of a span that expired is refused, *)
(* so no identified span is audited in two separate lives.                 *)
NeverReadmitted ==
  [][stepBacks = 0 =>
       \A span \in window' \ window : Identified(span) => span \notin admitted]_vars
=============================================================================
