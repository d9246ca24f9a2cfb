----------------------------- MODULE OfflineAudit -----------------------------
(***************************************************************************)
(* One run of the command `audit`: cmd/async-trace-doctor/main.go around   *)
(* ReadPath of internal/ingest/otlp.go, from the rules file to the exit    *)
(* status.                                                                 *)
(*                                                                         *)
(* A file is a sequence of lines.  A line is one JSON document, that is    *)
(* the sequence of the spans in it, or Malformed (no JSON, half written,   *)
(* or with an identifier that is not hexadecimal).  The unit of size is a  *)
(* line.  A collector may append to the files while the command reads      *)
(* them.  What the engine finds in the spans is the subject of Rules: here *)
(* it is any verdict.                                                      *)
(*                                                                         *)
(* A definition named Mutant... is a faulty form of the definition below   *)
(* it; no specification uses it.                                           *)
(***************************************************************************)
EXTENDS Integers, Sequences, FiniteSets, SequencesExt

CONSTANTS
  Inputs,       \* the directories considered: files in the order of their names
  Documents,    \* the documents a collector may append
  Malformed,    \* a line that is not a document
  Redactions,   \* the values of redactAttributes considered
  PayloadAttributes,  \* the keys isPayloadAttribute accepts
  Value,        \* value(): what is kept of an attribute, the same for two arrays of one length
  Redacted,     \* "[REDACTED]"
  NaN,          \* a floating-point attribute that equals nothing, itself included
  NoIdentity,   \* the id of a span whose trace or span id is empty
  MaxBytes,     \* --max-bytes, non-positive for no limit
  MaxSpans,     \* --max-spans, non-positive for no limit
  MaxWrites     \* bound on the lines appended

ASSUME OfflineAssumption ==
  /\ MaxBytes \in Int /\ MaxSpans \in Int /\ MaxWrites \in Nat
  /\ Inputs \subseteq Seq(Seq(Documents \cup {Malformed}))
  /\ \A document \in Documents :
       Len(document) \in Nat /\ DOMAIN document = 1..Len(document)

VARIABLES
  files, writes,      \* the directory, and how often a collector wrote to it
  redact, requested,  \* cfg.RedactAttributes; the reports the flags ask for
  pc, result,         \* where the command is; "running", or why it ended
  consumed, read,     \* of ReadPath; the contents of the files it has read
  spans, out, cursor, \* of deduplicateSpans, cursor the spans behind it
  violates, reports   \* ViolatesPolicy of the report; the report files

inputVars == <<files, writes>>
readVars == <<consumed, read, spans>>
vars == <<files, writes, redact, requested, pc, result, consumed, read, spans,
          out, cursor, violates, reports>>

----------------------------------------------------------------------------
(* Decoding *)

Attrs(attrs, keys) ==
  [key \in DOMAIN attrs |->
     IF key \in keys \cup PayloadAttributes THEN Redacted ELSE Value[attrs[key]]]

(* The spans of one document, in order.  int64() of the unsigned times is  *)
(* one to one, and deduplication compares times for equality only: an end  *)
(* is kept as it is, below 2^63 (the assumption on Decodable below).       *)
FromProto(document, keys) ==
  [k \in DOMAIN document |-> [document[k] EXCEPT !.attrs = Attrs(@, keys)]]

ASSUME MalformedAssumption ==
  \A document \in Documents, keys \in Redactions : FromProto(document, keys) # Malformed

(* One JSON value is decoded; what follows it is not looked at.            *)
DecodeJSON(lines) ==
  IF Head(lines) = Malformed THEN Malformed ELSE FromProto(Head(lines), redact)

DecodeLines(lines) ==
  IF \E l \in DOMAIN lines : lines[l] = Malformed THEN Malformed
  ELSE FlattenSeq([l \in DOMAIN lines |-> FromProto(lines[l], redact)])

(* readFile: the lines are scanned if the file as a whole does not decode. *)
Decoded(lines) ==
  IF DecodeJSON(lines) # Malformed THEN DecodeJSON(lines) ELSE DecodeLines(lines)

(* io.LimitReader: a file that has grown is cut, inside a line or after it. *)
Contents(lines) ==
  IF MaxBytes > 0 /\ Len(lines) > MaxBytes
  THEN {SubSeq(lines, 1, MaxBytes), Append(SubSeq(lines, 1, MaxBytes), Malformed)}
  ELSE {lines}

----------------------------------------------------------------------------
(* Deduplication *)

Identified(span) == span.id # NoIdentity

(* dedupContentHash leaves links, flags and dropped counts out.            *)
DedupContentHash(span) == <<span.id, span.end, span.attrs>>

(* reflect.DeepEqual *)
DeepEqual(s, t) == s = t /\ \A key \in DOMAIN s.attrs : s.attrs[key] # NaN

MutantSameContent(s, t) == DedupContentHash(s) = DedupContentHash(t)
SameContent(s, t) == DedupContentHash(s) = DedupContentHash(t) /\ DeepEqual(s, t)

MutantEarlier(span) ==
  {j \in DOMAIN out : j = Len(out) /\ Identified(span) /\ out[j].id = span.id}
Earlier(span) == {j \in DOMAIN out : Identified(span) /\ out[j].id = span.id}

----------------------------------------------------------------------------
Goto(label) == pc' = label /\ result' = result

MutantExit(why) == pc' = "done" /\ result' = IF why = "output" THEN result ELSE why
Exit(why) == pc' = "done" /\ result' = why

(* main: a policy violation exits with 2, every other error with 1.        *)
ExitCode ==
  IF result = "ok" THEN 0 ELSE IF result = "policy" THEN 2 ELSE 1

Init ==
  /\ files \in Inputs /\ writes = 0
  /\ redact \in Redactions /\ requested \in SUBSET {"json", "markdown"}
  /\ pc = "load" /\ result = "running"
  /\ consumed = 0 /\ read = <<>> /\ spans = <<>>
  /\ out = <<>> /\ cursor = 0
  /\ violates = FALSE /\ reports = [r \in {"json", "markdown"} |-> "old"]

(* A collector appends to a file. *)
Write ==
  /\ writes < MaxWrites
  /\ \E f \in DOMAIN files, line \in Documents \cup {Malformed} :
       files' = [files EXCEPT ![f] = Append(@, line)]
  /\ writes' = writes + 1
  /\ UNCHANGED <<redact, requested, pc, result, readVars, out, cursor, violates, reports>>

(* config.Load, and the listing of the files. *)
LoadConfig ==
  /\ pc = "load"
  /\ Goto("list") \/ Exit("config")
  /\ UNCHANGED <<inputVars, redact, requested, readVars, out, cursor, violates, reports>>

ListFiles ==
  /\ pc = "list"
  /\ IF files = <<>> THEN Exit("no_files") ELSE Goto("stat")
  /\ UNCHANGED <<inputVars, redact, requested, readVars, out, cursor, violates, reports>>

(* The file next in order; its size counts before it is opened. *)
Current == Len(read) + 1

StatFile ==
  /\ pc = "stat"
  /\ consumed' = consumed + Len(files[Current])
  /\ IF MaxBytes > 0 /\ consumed' > MaxBytes THEN Exit("bytes") ELSE Goto("read")
  /\ UNCHANGED <<inputVars, redact, requested, read, spans, out, cursor, violates, reports>>

ReadFile ==
  /\ pc = "read"
  /\ \E lines \in Contents(files[Current]) :
       /\ read' = Append(read, lines)
       /\ IF lines = <<>> THEN Exit("empty") /\ UNCHANGED spans
          ELSE IF Decoded(lines) = Malformed THEN Exit("malformed") /\ UNCHANGED spans
          ELSE /\ spans' = spans \o Decoded(lines)
               /\ IF MaxSpans > 0 /\ Len(spans') > MaxSpans THEN Exit("spans")
                  ELSE Goto(IF Len(read') = Len(files) THEN "dedup" ELSE "stat")
  /\ UNCHANGED <<inputVars, redact, requested, consumed, out, cursor, violates, reports>>

(* Stat, Open, Read and WalkDir may fail. *)
Unreadable ==
  /\ pc \in {"list", "stat", "read"}
  /\ Exit("input")
  /\ UNCHANGED <<inputVars, redact, requested, readVars, out, cursor, violates, reports>>

(* deduplicateSpans, a span at a time *)
DeduplicateSpan ==
  LET span == spans[cursor + 1]
  IN  /\ pc = "dedup" /\ cursor < Len(spans)
      /\ cursor' = cursor + 1
      /\ IF Earlier(span) = {} THEN out' = Append(out, span) /\ Goto("dedup")
         ELSE /\ out' = out
              /\ IF \A j \in Earlier(span) : SameContent(out[j], span)
                 THEN Goto("dedup") ELSE Exit("conflict")
      /\ UNCHANGED <<inputVars, redact, requested, readVars, violates, reports>>

(* Engine.Audit, and WriteTable to the standard output *)
Audit ==
  /\ pc = "dedup" /\ cursor = Len(spans)
  /\ violates' \in BOOLEAN
  /\ Goto("json") \/ Exit("table")
  /\ UNCHANGED <<inputVars, redact, requested, readVars, out, cursor, reports>>

(* A report asked for: created, written and closed; each may fail.         *)
MutantWriteReport(report, after) ==
  /\ pc = report /\ report \in requested
  /\ \/ Exit("output") /\ UNCHANGED reports
     \/ \E content \in {"partial", "whole"} :
          Goto(after) /\ reports' = [reports EXCEPT ![report] = content]
  /\ UNCHANGED <<inputVars, redact, requested, readVars, out, cursor, violates>>
WriteReport(report, after) ==
  /\ pc = report /\ report \in requested
  /\ \/ Exit("output") /\ UNCHANGED reports
     \/ Exit("output") /\ reports' = [reports EXCEPT ![report] = "partial"]
     \/ Goto(after) /\ reports' = [reports EXCEPT ![report] = "whole"]
  /\ UNCHANGED <<inputVars, redact, requested, readVars, out, cursor, violates>>

SkipReport(report, after) ==
  /\ pc = report /\ report \notin requested
  /\ Goto(after)
  /\ UNCHANGED <<inputVars, redact, requested, readVars, out, cursor, violates, reports>>

Policy ==
  /\ pc = "policy"
  /\ Exit(IF violates THEN "policy" ELSE "ok")
  /\ UNCHANGED <<inputVars, redact, requested, readVars, out, cursor, violates, reports>>

Command ==
  \/ LoadConfig \/ ListFiles \/ StatFile \/ ReadFile \/ Unreadable
  \/ DeduplicateSpan \/ Audit
  \/ WriteReport("json", "markdown") \/ SkipReport("json", "markdown")
  \/ WriteReport("markdown", "policy") \/ SkipReport("markdown", "policy")
  \/ Policy

Next == Write \/ Command

Spec == Init /\ [][Next]_vars

----------------------------------------------------------------------------
(* Properties *)

Elements(seq) == {seq[k] : k \in DOMAIN seq}

Concluded ==
  pc \in {"json", "markdown", "policy"} \/ result \in {"output", "ok", "policy"}

(* The command is where its result says, and what it holds stays within    *)
(* what it has read.                                                       *)
TypeOK ==
  /\ pc \in {"load", "list", "stat", "read", "dedup", "json", "markdown", "policy", "done"}
  /\ result # "running" <=> pc = "done"
  /\ Len(read) <= Len(files)
  /\ cursor \in 0 .. Len(spans) /\ Len(out) <= cursor
  /\ reports \in [{"json", "markdown"} -> {"old", "partial", "whole"}]
  /\ requested \subseteq {"json", "markdown"}

(* What is audited is an admission window as the receiver's is, of spans   *)
(* that do not expire: each identity once, its first export kept, nothing  *)
(* that was refused beside it, and the engine is given all of it           *)
(* (deduplicateSpans keeps the promise of Store.Add).                      *)
Decodable ==
  UNION {Elements(FromProto(document, keys)) : document \in Documents, keys \in Redactions}

\* An end is an unsigned number of nanoseconds, below 2^63.
ASSUME DecodableAssumption ==
  /\ \A span \in Decodable : span.end \in Nat
  /\ MaxSpans > 0 \/ IsFiniteSet(Decodable)

Window ==
  INSTANCE AdmissionWindow WITH
    Spans <- Decodable, ZeroTime <- NoIdentity, TTL <- 1,
    MaxSpans <- IF MaxSpans > 0 THEN MaxSpans ELSE Cardinality(Decodable),
    MaxTime <- 0, MaxStepBacks <- 0,
    now <- 0, stepBacks <- 0, reading <- 0,
    window <- Elements(out),
    view <- IF Concluded THEN {Elements(out)} ELSE {},
    admitted <- {span \in Elements(out) : Identified(span)}

ImplementsWindow == Window!Spec

(* Deduplication repeats nothing and takes nothing away: each identity is  *)
(* audited once, whatever was decoded is among the spans audited, and a    *)
(* span without an identity as often as it was decoded; an input in which  *)
(* one identity has two contents is refused, wherever in the files the     *)
(* second one is.  Of the other inputs one kind is refused too: an         *)
(* identical export of a span that holds a NaN counts as a conflict, for   *)
(* reflect.DeepEqual calls no NaN equal to itself.  There the code does    *)
(* not do what docs/ARCHITECTURE.md line 52 says, that identical exports   *)
(* are deduplicated; everywhere else it does (deduplicateSpans).           *)
Times(seq, span) == Cardinality({k \in DOMAIN seq : seq[k] = span})

Repeats(i, j) == i < j /\ Identified(spans[i]) /\ spans[i].id = spans[j].id

TwoContents == \E i, j \in DOMAIN spans : Repeats(i, j) /\ spans[i] # spans[j]

RepeatedNaN ==
  \E i, j \in DOMAIN spans :
    /\ Repeats(i, j) /\ spans[i] = spans[j]
    /\ \E key \in DOMAIN spans[i].attrs : spans[i].attrs[key] = NaN

DeduplicationExact ==
  /\ Concluded => /\ Elements(out) = Elements(spans)
                  /\ \A span \in Elements(spans) :
                       ~Identified(span) => Times(out, span) = Times(spans, span)
                  /\ \A i, j \in DOMAIN out :
                       Identified(out[i]) /\ out[i].id = out[j].id => i = j
                  /\ ~TwoContents /\ ~RepeatedNaN
  /\ result = "conflict" => TwoContents \/ RepeatedNaN

(* docs/ARCHITECTURE.md line 60: "Offline input/runtime errors exit `1`;   *)
(* sufficient-evidence policy violations exit `2`."  A build that trusts   *)
(* the status 0 or 2 finds every report it asked for whole and of this     *)
(* run, and the status 2 only when the policy was judged.                  *)
ExitTellsTruth ==
  LET delivered == Concluded /\ \A r \in requested : reports[r] = "whole"
  IN  pc = "done" =>
        ExitCode = IF ~delivered THEN 1 ELSE IF violates THEN 2 ELSE 0

(* main.go line 57: "Audit OTLP JSON or JSONL from a file or directory";   *)
(* docs/ARCHITECTURE.md line 60: "Malformed input, unsupported config,     *)
(* invalid IDs, exceeded offline limits, and listen failures are explicit  *)
(* errors."  A run that ends with a verdict has audited the spans of every *)
(* line it has read, and none of these was malformed.                      *)
EveryLineIsAudited ==
  pc = "done" /\ ExitCode # 1 =>
    \A f \in DOMAIN read : \A l \in DOMAIN read[f] :
      /\ read[f][l] # Malformed
      /\ Elements(FromProto(read[f][l], redact)) \subseteq Elements(out)
================================================================================
