-------------------------- MODULE OfflineAuditProofs --------------------------
(***************************************************************************)
(* Theorems about OfflineAudit, for any directories, documents, redaction  *)
(* lists and limits.                                                       *)
(*                                                                         *)
(* What the command concludes rests on deduplication, which looks at one   *)
(* span at a time: the inductive invariant says of the spans behind the    *)
(* cursor what DeduplicationExact says of all of them.                     *)
(***************************************************************************)
EXTENDS OfflineAudit, FiniteSetTheorems, SequenceTheorems, TLAPS

----------------------------------------------------------------------------
(* Types *)

Lines == Seq(Documents \cup {Malformed})

(* Before a file is read there is one left to read.                        *)
Types ==
  /\ TypeOK
  /\ files \in Seq(Lines) /\ read \in Seq(Lines)
  /\ redact \in Redactions
  /\ spans \in Seq(Decodable) /\ out \in Seq(Decodable)
  /\ pc \in {"stat", "read"} => Len(read) < Len(files)
  /\ pc \in {"load", "list"} => read = <<>>
  /\ violates \in BOOLEAN

LEMMA FromProtoType ==
  ASSUME NEW document \in Documents, NEW keys \in Redactions
  PROVE  FromProto(document, keys) \in Seq(Decodable)
<1> DEFINE s == FromProto(document, keys)
<1>1. /\ DOMAIN s = 1 .. Len(document) /\ Len(document) \in Nat
      /\ \E n \in Nat : DOMAIN s = 1 .. n
      /\ s = [k \in DOMAIN s |-> s[k]]
  BY OfflineAssumption DEF FromProto
<1>2. \A k \in DOMAIN s : s[k] \in Elements(s)
  BY DEF Elements
<1>3. Elements(s) \subseteq Decodable
  BY DEF Decodable
<1> HIDE DEF s
<1>4. s \in [1 .. Len(document) -> Decodable]
  BY <1>1, <1>2, <1>3
<1>5. s \in Seq(Decodable)
  BY <1>1, <1>4, SeqDef
<1> QED
  BY <1>5 DEF s

(* The loop over the lines is entered only to report the first of them.    *)
LEMMA DecodedType ==
  ASSUME NEW lines \in Lines, lines # <<>>, redact \in Redactions,
         Decoded(lines) # Malformed
  PROVE  Decoded(lines) \in Seq(Decodable)
<1>1. 1 \in DOMAIN lines /\ Head(lines) = lines[1] /\ lines[1] \in Documents \cup {Malformed}
  BY DEF Lines
<1>2. CASE Head(lines) = Malformed
  BY <1>1, <1>2 DEF Decoded, DecodeJSON, DecodeLines
<1>3. CASE Head(lines) # Malformed
  <2>1. DecodeJSON(lines) = FromProto(Head(lines), redact) /\ Head(lines) \in Documents
    BY <1>1, <1>3 DEF DecodeJSON
  <2>2. DecodeJSON(lines) # Malformed
    BY <2>1, MalformedAssumption
  <2> QED
    BY <2>1, <2>2, FromProtoType DEF Decoded
<1> QED
  BY <1>2, <1>3

LEMMA ContentsType ==
  ASSUME NEW lines \in Lines, NEW content \in Contents(lines)
  PROVE  content \in Lines
  BY OfflineAssumption DEF Contents, Lines
(* Reading a file *)
LEMMA ReadFileFacts ==
  ASSUME Types, ReadFile
  PROVE  /\ pc = "read" /\ read' \in Seq(Lines) /\ Len(read') = Len(read) + 1
         /\ spans' \in Seq(Decodable) /\ Len(spans') >= Len(spans)
         /\ \/ result' \in {"empty", "malformed", "spans"} /\ pc' = "done"
            \/ /\ result' = result
               /\ MaxSpans > 0 => Len(spans') <= MaxSpans
               /\ pc' = IF Len(read') = Len(files) THEN "dedup" ELSE "stat"
<1>1. PICK lines \in Contents(files[Current]) :
        /\ read' = Append(read, lines)
        /\ IF lines = <<>> THEN Exit("empty") /\ UNCHANGED spans
           ELSE IF Decoded(lines) = Malformed THEN Exit("malformed") /\ UNCHANGED spans
           ELSE /\ spans' = spans \o Decoded(lines)
                /\ IF MaxSpans > 0 /\ Len(spans') > MaxSpans THEN Exit("spans")
                   ELSE Goto(IF Len(read') = Len(files) THEN "dedup" ELSE "stat")
  BY DEF ReadFile
<1>2. /\ pc = "read" /\ files \in Seq(Lines) /\ read \in Seq(Lines)
      /\ spans \in Seq(Decodable) /\ Len(read) < Len(files) /\ redact \in Redactions
  BY DEF ReadFile, Types
<1>3. files[Current] \in Lines
  BY <1>2 DEF Current
<1>4. lines \in Lines
  BY <1>1, <1>3, ContentsType
<1>5. read' \in Seq(Lines) /\ Len(read') = Len(read) + 1
  BY <1>1, <1>2, <1>4
<1>6. CASE lines = <<>> \/ Decoded(lines) = Malformed
  BY <1>1, <1>2, <1>5, <1>6 DEF Exit
<1>7. CASE lines # <<>> /\ Decoded(lines) # Malformed
  <2>1. Decoded(lines) \in Seq(Decodable)
    BY <1>2, <1>4, <1>7, DecodedType
  <2>2. spans' = spans \o Decoded(lines)
    BY <1>1, <1>7
  <2>3. spans' \in Seq(Decodable) /\ Len(spans') >= Len(spans) /\ Len(spans') \in Nat
    BY <1>2, <2>1, <2>2
  <2>4. \/ MaxSpans > 0 /\ Len(spans') > MaxSpans /\ Exit("spans")
        \/ /\ ~(MaxSpans > 0 /\ Len(spans') > MaxSpans)
           /\ Goto(IF Len(read') = Len(files) THEN "dedup" ELSE "stat")
    BY <1>1, <1>7
  <2>5. MaxSpans \in Int
    BY OfflineAssumption
  <2> QED
    BY <1>2, <1>5, <2>3, <2>4, <2>5 DEF Exit, Goto
<1> QED
  BY <1>6, <1>7

LEMMA InitTypes == Init => Types
<1> SUFFICES ASSUME Init PROVE Types
  OBVIOUS
<1>1. files \in Seq(Lines)
  BY OfflineAssumption DEF Init, Lines
<1>2. violates \in BOOLEAN
  BY Zenon DEF Init
<1>3. /\ redact \in Redactions /\ requested \subseteq {"json", "markdown"}
      /\ pc = "load" /\ result = "running" /\ read = <<>> /\ spans = <<>>
      /\ out = <<>> /\ cursor = 0 /\ reports = [r \in {"json", "markdown"} |-> "old"]
  BY DEF Init
<1>4. TypeOK
  BY <1>1, <1>3 DEF TypeOK
<1> QED
  BY <1>1, <1>2, <1>3, <1>4 DEF Types

LEMMA TypesStep == Types /\ [Next]_vars => Types'
<1> SUFFICES ASSUME Types, [Next]_vars PROVE Types'
  OBVIOUS
<1>0. /\ pc \in {"load", "list", "stat", "read", "dedup", "json", "markdown", "policy", "done"}
      /\ result # "running" <=> pc = "done"
      /\ Len(read) <= Len(files)
      /\ cursor \in 0 .. Len(spans) /\ Len(out) <= cursor
      /\ reports \in [{"json", "markdown"} -> {"old", "partial", "whole"}]
      /\ requested \subseteq {"json", "markdown"}
      /\ files \in Seq(Lines) /\ read \in Seq(Lines)
      /\ redact \in Redactions
      /\ spans \in Seq(Decodable) /\ out \in Seq(Decodable)
      /\ pc \in {"stat", "read"} => Len(read) < Len(files)
      /\ pc \in {"load", "list"} => read = <<>>
  BY DEF Types, TypeOK
<1>1. violates' \in BOOLEAN
  <2>1. violates \in BOOLEAN
    BY Zenon DEF Types
  <2>2. CASE Audit
    BY <2>2, Zenon DEF Audit
  <2>3. CASE UNCHANGED violates
    BY <2>1, <2>3, Zenon
  <2> QED
    BY <2>2, <2>3 DEF Next, Command, vars, Write, LoadConfig, ListFiles, StatFile,
       ReadFile, Unreadable, DeduplicateSpan, WriteReport, SkipReport, Policy
<1>2. CASE Write
  <2>1. PICK f \in DOMAIN files, line \in Documents \cup {Malformed} :
          files' = [files EXCEPT ![f] = Append(@, line)]
    BY <1>2 DEF Write
  <2>2. Append(files[f], line) \in Lines
    BY <1>0, <2>1 DEF Lines
  <2>3. files' \in Seq(Lines) /\ Len(files') = Len(files)
    BY <1>0, <2>1, <2>2
  <2>4. UNCHANGED <<redact, requested, pc, result, read, spans, out, cursor, reports>>
    BY <1>2 DEF Write, readVars
  <2>5. TypeOK'
    BY <1>0, <2>3, <2>4 DEF TypeOK
  <2> QED
    BY <1>0, <1>1, <2>3, <2>4, <2>5 DEF Types
<1>3. CASE ReadFile
  <2>1. UNCHANGED <<files, redact, requested, out, cursor, reports>>
    BY <1>3 DEF ReadFile, inputVars
  <2>2. /\ pc = "read" /\ read' \in Seq(Lines) /\ Len(read') = Len(read) + 1
        /\ spans' \in Seq(Decodable) /\ Len(spans') >= Len(spans)
        /\ \/ result' \in {"empty", "malformed", "spans"} /\ pc' = "done"
           \/ /\ result' = result
              /\ pc' = IF Len(read') = Len(files) THEN "dedup" ELSE "stat"
    BY <1>3, ReadFileFacts
  <2>3. cursor' \in 0 .. Len(spans')
    BY <1>0, <2>1, <2>2
  <2>4. TypeOK'
    BY <1>0, <2>1, <2>2, <2>3 DEF TypeOK
  <2>5. pc' \in {"stat", "read"} => Len(read') < Len(files')
    BY <1>0, <2>1, <2>2
  <2> QED
    BY <1>0, <1>1, <2>1, <2>2, <2>4, <2>5 DEF Types
<1>4. CASE DeduplicateSpan
  <2>1. /\ pc = "dedup" /\ cursor < Len(spans) /\ cursor' = cursor + 1
        /\ UNCHANGED <<files, read, spans, redact, requested, reports>>
        /\ out' = Append(out, spans[cursor + 1]) \/ out' = out
        /\ \/ pc' = "dedup" /\ result' = result
           \/ pc' = "done" /\ result' = "conflict"
    BY <1>4 DEF DeduplicateSpan, inputVars, readVars, Goto, Exit
  <2>2. spans[cursor + 1] \in Decodable /\ cursor \in Nat
    BY <1>0, <2>1
  <2>3. out' \in Seq(Decodable) /\ Len(out') <= Len(out) + 1
    <3>1. CASE out' = Append(out, spans[cursor + 1])
      BY <1>0, <2>2, <3>1
    <3>2. CASE out' = out
      BY <1>0, <3>2
    <3> QED
      BY <2>1, <3>1, <3>2
  <2>4. Len(out') <= cursor' /\ cursor' \in 0 .. Len(spans)
    BY <1>0, <2>1, <2>2, <2>3
  <2>5. TypeOK'
    BY <1>0, <2>1, <2>4 DEF TypeOK
  <2> QED
    BY <1>0, <1>1, <2>1, <2>3, <2>5 DEF Types
<1>5. ASSUME UNCHANGED <<files, read, spans, redact, requested, out, cursor>>,
             reports' \in [{"json", "markdown"} -> {"old", "partial", "whole"}],
             \/ pc' = "done" /\ result' # "running"
             \/ /\ pc' \in {"list", "stat", "read", "dedup", "json", "markdown", "policy"}
                /\ pc # "done" /\ result' = result
                /\ pc' \in {"stat", "read"} => Len(read) < Len(files)
                /\ pc' = "list" => read = <<>>
      PROVE  Types'
  <2>1. TypeOK'
    BY <1>0, <1>5 DEF TypeOK
  <2> QED
    BY <1>0, <1>1, <1>5, <2>1 DEF Types
<1>6. CASE LoadConfig
  BY <1>0, <1>5, <1>6 DEF LoadConfig, Goto, Exit, inputVars, readVars
<1>7. CASE ListFiles
  <2>1. files # <<>> => Len(files) > 0
    BY <1>0
  <2>2. read = <<>>
    BY <1>7 DEF Types, ListFiles
  <2>3. files # <<>> => Len(read) < Len(files)
    BY <2>1, <2>2
  <2> QED
    BY <1>0, <1>5, <1>7, <2>3 DEF ListFiles, Goto, Exit, inputVars, readVars
<1>8. CASE StatFile
  BY <1>0, <1>5, <1>8 DEF StatFile, Goto, Exit, inputVars
<1>9. CASE Unreadable
  BY <1>0, <1>5, <1>9 DEF Unreadable, Exit, inputVars, readVars
<1>10. CASE Audit
  BY <1>0, <1>5, <1>10 DEF Audit, Goto, Exit, inputVars, readVars
<1>11. ASSUME NEW report \in {"json", "markdown"}, NEW after \in {"markdown", "policy"},
              WriteReport(report, after) \/ SkipReport(report, after)
       PROVE  Types'
  <2>1. /\ UNCHANGED <<files, read, spans, redact, requested, out, cursor>>
        /\ pc = report
        /\ \/ pc' = "done" /\ result' = "output"
           \/ pc' = after /\ result' = result
        /\ \/ reports' = reports
           \/ reports' = [reports EXCEPT ![report] = "partial"]
           \/ reports' = [reports EXCEPT ![report] = "whole"]
    BY <1>11 DEF WriteReport, SkipReport, Goto, Exit, inputVars, readVars
  <2>2. reports' \in [{"json", "markdown"} -> {"old", "partial", "whole"}]
    BY <1>0, <2>1
  <2> QED
    BY <1>0, <1>5, <2>1, <2>2
<1>12. CASE Policy
  BY <1>0, <1>5, <1>12 DEF Policy, Exit, inputVars, readVars
<1>13. CASE UNCHANGED vars
  BY <1>0, <1>1, <1>13 DEF vars, Types, TypeOK
<1> QED
  BY <1>2, <1>3, <1>4, <1>6, <1>7, <1>8, <1>9, <1>10, <1>11, <1>12, <1>13 DEF Next, Command
----------------------------------------------------------------------------
(* Deduplication *)

(* The spans behind the cursor *)
Scanned == 1 .. cursor

(* The occurrences of a span among the first n of a sequence *)
Occurrences(seq, n, span) == {k \in 1 .. n : seq[k] = span}

LEMMA OccurrencesFinite ==
  ASSUME NEW seq, NEW n \in Nat, NEW span
  PROVE  /\ IsFiniteSet(Occurrences(seq, n, span))
         /\ Cardinality(Occurrences(seq, n, span)) \in Nat
<1>1. IsFiniteSet(1 .. n)
  BY FS_Interval
<1>2. Occurrences(seq, n, span) \subseteq 1 .. n
  BY DEF Occurrences
<1> QED
  BY <1>1, <1>2, FS_Subset, FS_CardinalityType

LEMMA OneMoreOccurrence ==
  ASSUME NEW seq, NEW n \in Nat, NEW span
  PROVE  Cardinality(Occurrences(seq, n + 1, span)) =
           Cardinality(Occurrences(seq, n, span)) + (IF seq[n + 1] = span THEN 1 ELSE 0)
<1>1. /\ IsFiniteSet(Occurrences(seq, n, span))
      /\ Cardinality(Occurrences(seq, n, span)) \in Nat
  BY OccurrencesFinite
<1>2. CASE seq[n + 1] = span
  <2>1. Occurrences(seq, n + 1, span) = Occurrences(seq, n, span) \cup {n + 1}
    BY <1>2 DEF Occurrences
  <2>2. n + 1 \notin Occurrences(seq, n, span)
    BY DEF Occurrences
  <2>3. Cardinality(Occurrences(seq, n, span) \cup {n + 1}) =
          Cardinality(Occurrences(seq, n, span)) + 1
    BY <1>1, <2>2, FS_AddElement
  <2> QED
    BY <1>2, <2>1, <2>3
<1>3. CASE seq[n + 1] # span
  <2>1. Occurrences(seq, n + 1, span) = Occurrences(seq, n, span)
    BY <1>3 DEF Occurrences
  <2> QED
    BY <1>1, <1>3, <2>1
<1> QED
  BY <1>2, <1>3

(* What is kept of the spans behind the cursor: each of them, once if it   *)
(* has an identity, with one content, and else as often as it was decoded. *)
KeptOnce ==
  /\ \A k \in Scanned : spans[k] \in Elements(out)
  /\ \A j \in DOMAIN out : \E k \in Scanned : out[j] = spans[k]
  /\ \A i, j \in DOMAIN out : Identified(out[i]) /\ out[i].id = out[j].id => i = j

OneContent ==
  \A i, j \in Scanned :
    i < j /\ Identified(spans[i]) /\ spans[i].id = spans[j].id
      => DeepEqual(spans[i], spans[j])

(* Two spans of one identity that reflect.DeepEqual tells apart            *)
Refused ==
  \E i, j \in DOMAIN spans : Repeats(i, j) /\ ~DeepEqual(spans[i], spans[j])

AsOften ==
  \A span \in Decodable :
    ~Identified(span) =>
      Cardinality(Occurrences(out, Len(out), span)) =
        Cardinality(Occurrences(spans, cursor, span))

DedupInv ==
  /\ pc \in {"load", "list", "stat", "read"} => out = <<>> /\ cursor = 0
  /\ pc = "dedup" => (MaxSpans > 0 => Len(spans) <= MaxSpans)
  /\ Concluded => cursor = Len(spans)
  /\ result # "conflict" => KeptOnce /\ OneContent /\ AsOften
  /\ result = "conflict" => Refused

(* The two reasons to refuse an input are those of TwoContents and of      *)
(* RepeatedNaN.                                                            *)
LEMMA RefusedWhy == Refused <=> TwoContents \/ RepeatedNaN
<1>1. ASSUME NEW i \in DOMAIN spans, NEW j \in DOMAIN spans
      PROVE  ~DeepEqual(spans[i], spans[j]) <=>
               \/ spans[i] # spans[j]
               \/ /\ spans[i] = spans[j]
                  /\ \E key \in DOMAIN spans[i].attrs : spans[i].attrs[key] = NaN
  BY Zenon DEF DeepEqual
<1> QED
  BY <1>1 DEF Refused, TwoContents, RepeatedNaN, Repeats

(* Before the first span nothing is behind the cursor.                     *)
LEMMA NothingScanned ==
  ASSUME out = <<>>, cursor = 0
  PROVE  KeptOnce /\ OneContent /\ AsOften
<1>1. \A span : Occurrences(out, Len(out), span) = {} /\ Occurrences(spans, cursor, span) = {}
  BY DEF Occurrences
<1>2. DOMAIN out = {} /\ Scanned = {}
  BY DEF Scanned
<1>3. KeptOnce /\ OneContent
  BY <1>2 DEF KeptOnce, OneContent
<1>4. AsOften
  BY <1>1, Zenon DEF AsOften
<1> QED
  BY <1>3, <1>4

(* The comparison with the span kept of the same identity *)
LEMMA ComparedContent ==
  ASSUME Types, KeptOnce, NEW span \in Decodable, Earlier(span) # {}
  PROVE  /\ Identified(span)
         /\ (\A j \in Earlier(span) : SameContent(out[j], span)) =>
              /\ span \in Elements(out)
              /\ \A k \in Scanned : spans[k].id = span.id => DeepEqual(spans[k], span)
         /\ ~(\A j \in Earlier(span) : SameContent(out[j], span)) =>
              \E k \in Scanned : /\ Identified(spans[k]) /\ spans[k].id = span.id
                                 /\ ~DeepEqual(spans[k], span)
<1>1. Identified(span) /\ Earlier(span) = {j \in DOMAIN out : out[j].id = span.id}
  BY DEF Earlier
<1>2. ASSUME \A j \in Earlier(span) : SameContent(out[j], span)
      PROVE  /\ span \in Elements(out)
             /\ \A k \in Scanned : spans[k].id = span.id => DeepEqual(spans[k], span)
  <2>1. \A j \in Earlier(span) : DeepEqual(out[j], span) /\ out[j] = span
    BY <1>2 DEF SameContent, DeepEqual
  <2>2. span \in Elements(out)
    BY <1>1, <2>1 DEF Elements
  <2>3. ASSUME NEW k \in Scanned, spans[k].id = span.id
        PROVE  DeepEqual(spans[k], span)
    <3>1. PICK j \in DOMAIN out : out[j] = spans[k]
      BY DEF KeptOnce, Elements
    <3>2. j \in Earlier(span)
      BY <1>1, <2>3, <3>1
    <3> QED
      BY <2>1, <3>1, <3>2
  <2> QED
    BY <2>2, <2>3
<1>3. ASSUME NEW j \in Earlier(span), ~SameContent(out[j], span)
      PROVE  \E k \in Scanned : /\ Identified(spans[k]) /\ spans[k].id = span.id
                                /\ ~DeepEqual(spans[k], span)
  <2>1. PICK k \in Scanned : out[j] = spans[k]
    BY <1>1 DEF KeptOnce
  <2>2. spans[k].id = span.id /\ Identified(spans[k])
    BY <1>1, <2>1 DEF Identified
  <2>3. ~DeepEqual(out[j], span)
    BY <1>3 DEF SameContent, DeepEqual, DedupContentHash
  <2> QED
    BY <2>1, <2>2, <2>3
<1> QED
  BY <1>1, <1>2, <1>3

(* One span *)
LEMMA DeduplicateStep ==
  ASSUME Types, DedupInv, DeduplicateSpan
  PROVE  DedupInv'
<1> DEFINE span == spans[cursor + 1]
<1>0. /\ spans \in Seq(Decodable) /\ out \in Seq(Decodable)
      /\ cursor \in Nat /\ cursor + 1 \in 1 .. Len(spans)
      /\ pc = "dedup" /\ result = "running" /\ cursor' = cursor + 1
      /\ spans' = spans
  BY DEF Types, TypeOK, DeduplicateSpan, readVars
<1>1. span \in Decodable
  BY <1>0
<1>2. /\ \/ Earlier(span) = {} /\ out' = Append(out, span) /\ Goto("dedup")
         \/ /\ Earlier(span) # {} /\ out' = out
            /\ \A j \in Earlier(span) : SameContent(out[j], span)
            /\ Goto("dedup")
         \/ /\ Earlier(span) # {} /\ out' = out
            /\ ~(\A j \in Earlier(span) : SameContent(out[j], span))
            /\ Exit("conflict")
  BY DEF DeduplicateSpan
<1>3. KeptOnce /\ OneContent /\ AsOften
  BY <1>0 DEF DedupInv
<1>4. /\ Scanned' = Scanned \cup {cursor + 1}
      /\ \A k \in Scanned : k < cursor + 1 /\ k \in 1 .. Len(spans)
  BY <1>0 DEF Scanned
<1>5. \A s : Cardinality(Occurrences(spans', cursor', s)) =
               Cardinality(Occurrences(spans, cursor, s)) + (IF span = s THEN 1 ELSE 0)
  BY <1>0, OneMoreOccurrence
<1>6. pc' = "dedup" => (MaxSpans > 0 => Len(spans') <= MaxSpans)
  BY <1>0 DEF DedupInv
<1> HIDE DEF span
<1>7. CASE Earlier(span) = {}
  <2>1. out' = Append(out, span) /\ pc' = "dedup" /\ result' = "running"
    BY <1>0, <1>2, <1>7 DEF Goto
  <2>2. /\ Len(out') = Len(out) + 1 /\ Len(out) \in Nat
        /\ out'[Len(out) + 1] = span
        /\ \A j \in DOMAIN out : out'[j] = out[j] /\ j \in DOMAIN out'
        /\ \A j \in DOMAIN out' : j \in DOMAIN out \/ j = Len(out) + 1
        /\ Len(out) + 1 \in DOMAIN out'
    BY <1>0, <1>1, <2>1
  <2>3. \A j \in DOMAIN out : Identified(span) => out[j].id # span.id
    BY <1>7 DEF Earlier
  <2>4. KeptOnce'
    <3>1. ASSUME NEW k \in Scanned'
          PROVE  spans'[k] \in Elements(out)'
      BY <1>0, <1>3, <1>4, <2>2 DEF KeptOnce, Elements, span
    <3>2. ASSUME NEW j \in DOMAIN out'
          PROVE  \E k \in Scanned' : out'[j] = spans'[k]
      BY <1>0, <1>3, <1>4, <2>2 DEF KeptOnce, span
    <3>3. ASSUME NEW i \in DOMAIN out', NEW j \in DOMAIN out',
                 Identified(out'[i]), out'[i].id = out'[j].id
          PROVE  i = j
      <4>1. CASE i \in DOMAIN out /\ j \in DOMAIN out
        BY <1>3, <2>2, <3>3, <4>1 DEF KeptOnce
      <4>2. CASE i \in DOMAIN out /\ j = Len(out) + 1
        BY <2>2, <2>3, <3>3, <4>2 DEF Identified
      <4>3. CASE i = Len(out) + 1 /\ j \in DOMAIN out
        BY <2>2, <2>3, <3>3, <4>3 DEF Identified
      <4> QED
        BY <2>2, <4>1, <4>2, <4>3
    <3> QED
      BY <3>1, <3>2, <3>3 DEF KeptOnce
  <2>5. OneContent'
    <3>1. ASSUME NEW k \in Scanned, Identified(span)
          PROVE  spans[k].id # span.id
      BY <1>3, <2>3, <3>1 DEF KeptOnce, Elements
    <3> QED
      BY <1>0, <1>3, <1>4, <3>1 DEF OneContent, Identified, span
  <2>6. AsOften'
    <3>1. \A s : Cardinality(Occurrences(out', Len(out'), s)) =
                   Cardinality(Occurrences(out, Len(out), s)) + (IF span = s THEN 1 ELSE 0)
      <4>1. \A s : Occurrences(out', Len(out), s) = Occurrences(out, Len(out), s)
        BY <1>0, <2>2 DEF Occurrences
      <4> QED
        BY <2>2, <4>1, OneMoreOccurrence
    <3> QED
      BY <1>3, <1>5, <3>1 DEF AsOften
  <2>7. ~Concluded'
    BY <2>1 DEF Concluded
  <2> QED
    BY <1>6, <2>1, <2>4, <2>5, <2>6, <2>7 DEF DedupInv
<1>8. CASE Earlier(span) # {} /\ \A j \in Earlier(span) : SameContent(out[j], span)
  <2>1. out' = out /\ pc' = "dedup" /\ result' = "running"
    BY <1>0, <1>2, <1>8 DEF Goto
  <2>2. /\ Identified(span) /\ span \in Elements(out)
        /\ \A k \in Scanned : spans[k].id = span.id => DeepEqual(spans[k], span)
    BY <1>1, <1>3, <1>8, ComparedContent
  <2>3. KeptOnce'
    BY <1>0, <1>3, <1>4, <2>1, <2>2 DEF KeptOnce, Elements, span
  <2>4. OneContent'
    BY <1>0, <1>3, <1>4, <2>2 DEF OneContent, span
  <2>5. AsOften'
    <3>1. ASSUME NEW s \in Decodable, ~Identified(s)
          PROVE  Cardinality(Occurrences(spans', cursor', s)) =
                   Cardinality(Occurrences(spans, cursor, s))
      <4>1. span # s /\ Cardinality(Occurrences(spans, cursor, s)) \in Nat
        BY <1>0, <2>2, <3>1, OccurrencesFinite
      <4> QED
        BY <1>5, <4>1
    <3> QED
      BY <1>3, <2>1, <3>1 DEF AsOften
  <2>6. ~Concluded'
    BY <2>1 DEF Concluded
  <2> QED
    BY <1>6, <2>1, <2>3, <2>4, <2>5, <2>6 DEF DedupInv
<1>9. CASE Earlier(span) # {} /\ ~(\A j \in Earlier(span) : SameContent(out[j], span))
  <2>1. pc' = "done" /\ result' = "conflict"
    BY <1>2, <1>9 DEF Exit
  <2>2. PICK k \in Scanned : /\ Identified(spans[k]) /\ spans[k].id = span.id
                             /\ ~DeepEqual(spans[k], span)
    BY <1>1, <1>3, <1>9, ComparedContent
  <2>3. k < cursor + 1 /\ k \in DOMAIN spans /\ cursor + 1 \in DOMAIN spans
    BY <1>0, <1>4
  <2>4. Refused'
    BY <1>0, <2>2, <2>3 DEF Refused, Repeats, span
  <2>5. ~Concluded'
    BY <2>1 DEF Concluded
  <2> QED
    BY <2>1, <2>4, <2>5 DEF DedupInv
<1> QED
  BY <1>7, <1>8, <1>9

LEMMA DedupStep == Types /\ DedupInv /\ [Next]_vars => DedupInv'
<1> SUFFICES ASSUME Types, DedupInv, [Next]_vars PROVE DedupInv'
  OBVIOUS
<1>0. result # "running" <=> pc = "done"
  BY DEF Types, TypeOK
<1>1. ASSUME UNCHANGED <<spans, out, cursor>>,
             result' = "conflict" <=> result = "conflict",
             pc' \in {"load", "list", "stat", "read"} =>
               pc \in {"load", "list", "stat", "read"},
             pc' = "dedup" => pc = "dedup",
             Concluded' => Concluded \/ cursor = Len(spans)
      PROVE  DedupInv'
  BY <1>1 DEF DedupInv, KeptOnce, OneContent, AsOften, Refused, Repeats, Scanned
<1>2. CASE ReadFile
  <2>1. /\ pc = "read" /\ result = "running"
        /\ \/ result' \in {"empty", "malformed", "spans"} /\ pc' = "done"
           \/ /\ result' = result
              /\ MaxSpans > 0 => Len(spans') <= MaxSpans
              /\ pc' = IF Len(read') = Len(files) THEN "dedup" ELSE "stat"
    BY <1>0, <1>2, ReadFileFacts DEF ReadFile
  <2>2. out' = <<>> /\ cursor' = 0
    BY <1>2, <2>1 DEF ReadFile, DedupInv
  <2>3. KeptOnce' /\ OneContent' /\ AsOften'
    <3>1. \A span : /\ Occurrences(out', Len(out'), span) = {}
                    /\ Occurrences(spans', cursor', span) = {}
      BY <2>2 DEF Occurrences
    <3>2. DOMAIN out' = {} /\ Scanned' = {}
      BY <2>2 DEF Scanned
    <3>3. KeptOnce' /\ OneContent'
      BY <3>2 DEF KeptOnce, OneContent
    <3>4. AsOften'
      BY <3>1, Zenon DEF AsOften
    <3> QED
      BY <3>3, <3>4
  <2>4. ~Concluded' /\ result' # "conflict"
    BY <2>1 DEF Concluded
  <2> QED
    BY <2>1, <2>2, <2>3, <2>4 DEF DedupInv
<1>3. CASE DeduplicateSpan
  BY <1>3, DeduplicateStep
<1>4. CASE Write
  BY <1>1, <1>4 DEF Write, readVars, Concluded
<1>5. CASE LoadConfig
  BY <1>0, <1>1, <1>5 DEF LoadConfig, Goto, Exit, readVars, Concluded
<1>6. CASE ListFiles
  BY <1>0, <1>1, <1>6 DEF ListFiles, Goto, Exit, readVars, Concluded
<1>7. CASE StatFile
  BY <1>0, <1>1, <1>7 DEF StatFile, Goto, Exit, readVars, Concluded
<1>8. CASE Unreadable
  BY <1>0, <1>1, <1>8 DEF Unreadable, Exit, readVars, Concluded
<1>9. CASE Audit
  BY <1>0, <1>1, <1>9 DEF Audit, Goto, Exit, readVars, Concluded
<1>10. ASSUME NEW report \in {"json", "markdown"}, NEW after \in {"markdown", "policy"},
              WriteReport(report, after) \/ SkipReport(report, after)
       PROVE  DedupInv'
  <2>1. /\ UNCHANGED <<spans, out, cursor>> /\ pc = report
        /\ \/ pc' = "done" /\ result' = "output"
           \/ pc' = after /\ result' = result
    BY <1>10 DEF WriteReport, SkipReport, Goto, Exit, readVars
  <2> QED
    BY <1>0, <1>1, <2>1 DEF Concluded
<1>11. CASE Policy
  BY <1>0, <1>1, <1>11 DEF Policy, Exit, readVars, Concluded
<1>12. CASE UNCHANGED vars
  BY <1>1, <1>12 DEF vars, Concluded
<1> QED
  BY <1>2, <1>3, <1>4, <1>5, <1>6, <1>7, <1>8, <1>9, <1>10, <1>11, <1>12 DEF Next, Command

LEMMA InitDedup == Init => DedupInv
  BY NothingScanned DEF Init, DedupInv, Concluded

THEOREM Invariance == Spec => [](Types /\ DedupInv)
  BY InitTypes, TypesStep, InitDedup, DedupStep, PTL DEF Spec

(* The command is where its result says, and holds what it has read.       *)
THEOREM TypeCorrect == Spec => []TypeOK
<1>1. Types => TypeOK
  BY DEF Types
<1> QED
  BY Invariance, <1>1, PTL

LEMMA ExactWhenDone == Types /\ DedupInv => DeduplicationExact
<1> SUFFICES ASSUME Types, DedupInv PROVE DeduplicationExact
  OBVIOUS
<1>1. result = "conflict" => TwoContents \/ RepeatedNaN
  BY RefusedWhy DEF DedupInv
<1>2. ASSUME Concluded
      PROVE  /\ Elements(out) = Elements(spans)
             /\ \A span \in Elements(spans) :
                  ~Identified(span) => Times(out, span) = Times(spans, span)
             /\ \A i, j \in DOMAIN out :
                  Identified(out[i]) /\ out[i].id = out[j].id => i = j
             /\ ~TwoContents /\ ~RepeatedNaN
  <2>0. spans \in Seq(Decodable) /\ out \in Seq(Decodable)
    BY DEF Types
  <2>1. cursor = Len(spans) /\ Scanned = DOMAIN spans
    BY <1>2, <2>0 DEF DedupInv, Scanned
  <2>2. result # "conflict"
    BY <1>2 DEF Concluded, Types, TypeOK
  <2>3. KeptOnce /\ OneContent /\ AsOften
    BY <2>2 DEF DedupInv
  <2>4. Elements(out) = Elements(spans)
    BY <2>1, <2>3 DEF KeptOnce, Elements
  <2>5. ASSUME NEW span \in Elements(spans), ~Identified(span)
        PROVE  Times(out, span) = Times(spans, span)
    <3>1. span \in Decodable
      BY <2>0 DEF Elements
    <3>2. /\ Times(out, span) = Cardinality(Occurrences(out, Len(out), span))
          /\ Times(spans, span) = Cardinality(Occurrences(spans, cursor, span))
      <4>1. DOMAIN out = 1 .. Len(out) /\ DOMAIN spans = 1 .. cursor
        BY <2>0, <2>1
      <4> QED
        BY <4>1 DEF Times, Occurrences
    <3> QED
      BY <2>3, <2>5, <3>1, <3>2 DEF AsOften
  <2>6. ~TwoContents /\ ~RepeatedNaN
    BY <2>1, <2>3, RefusedWhy DEF OneContent, Refused, Repeats
  <2> QED
    BY <2>3, <2>4, <2>5, <2>6 DEF KeptOnce
<1> QED
  BY <1>1, <1>2 DEF DeduplicationExact

(* The spans audited are those decoded, one per identity and every span    *)
(* without one; an input is refused as a conflict only if an identity has  *)
(* two contents in it or a span that holds a NaN is exported twice.        *)
THEOREM DeduplicationIsExact == Spec => []DeduplicationExact
  BY Invariance, ExactWhenDone, PTL
----------------------------------------------------------------------------
(* The exit status *)

(* What each place after the audit knows of the reports before it *)
ReportInv ==
  /\ pc \in {"load", "list", "stat", "read", "dedup", "json"} =>
       \A r \in {"json", "markdown"} : reports[r] = "old"
  /\ pc = "markdown" =>
       reports["markdown"] = "old" /\ ("json" \in requested => reports["json"] = "whole")
  /\ pc = "policy" \/ result \in {"ok", "policy"} =>
       \A r \in requested : reports[r] = "whole"
  /\ result = "output" => \E r \in requested : reports[r] # "whole"
  /\ result = "ok" => ~violates
  /\ result = "policy" => violates

LEMMA InitReports == Init => ReportInv
  BY DEF Init, ReportInv

LEMMA ReportStep == Types /\ ReportInv /\ [Next]_vars => ReportInv'
<1> SUFFICES ASSUME Types, ReportInv, [Next]_vars PROVE ReportInv'
  OBVIOUS
<1>0. /\ result # "running" <=> pc = "done"
      /\ pc \in {"load", "list", "stat", "read", "dedup", "json", "markdown", "policy", "done"}
      /\ reports \in [{"json", "markdown"} -> {"old", "partial", "whole"}]
      /\ requested \subseteq {"json", "markdown"}
  BY DEF Types, TypeOK
<1>1. ASSUME pc \in {"load", "list", "stat", "read", "dedup"},
             UNCHANGED <<reports, requested>>,
             \/ pc' \in {"list", "stat", "read", "dedup", "json"} /\ result' = "running"
             \/ pc' = "done" /\ result' \notin {"running", "ok", "policy", "output"}
      PROVE  ReportInv'
  BY <1>1 DEF ReportInv
<1>2. CASE UNCHANGED <<pc, result, reports, requested, violates>>
  BY <1>2 DEF ReportInv
<1>3. CASE Write \/ UNCHANGED vars
  BY <1>2, <1>3 DEF Write, vars
<1>4. CASE LoadConfig
  BY <1>0, <1>1, <1>4 DEF LoadConfig, Goto, Exit
<1>5. CASE ListFiles
  BY <1>0, <1>1, <1>5 DEF ListFiles, Goto, Exit
<1>6. CASE StatFile
  BY <1>0, <1>1, <1>6 DEF StatFile, Goto, Exit
<1>7. CASE ReadFile
  <2>1. UNCHANGED <<reports, requested>>
    BY <1>7 DEF ReadFile
  <2> QED
    BY <1>0, <1>1, <1>7, <2>1, ReadFileFacts
<1>8. CASE Unreadable
  BY <1>0, <1>1, <1>8 DEF Unreadable, Exit
<1>9. CASE DeduplicateSpan
  BY <1>0, <1>1, <1>9 DEF DeduplicateSpan, Goto, Exit
<1>10. CASE Audit
  BY <1>0, <1>1, <1>10 DEF Audit, Goto, Exit
<1>11. CASE WriteReport("json", "markdown") \/ SkipReport("json", "markdown")
  <2>1. pc = "json" /\ result = "running" /\ requested' = requested
    BY <1>0, <1>11 DEF WriteReport, SkipReport
  <2>2. reports["json"] = "old" /\ reports["markdown"] = "old"
    BY <2>1 DEF ReportInv
  <2>3. \/ /\ "json" \in requested /\ pc' = "done" /\ result' = "output"
           /\ reports' = reports \/ reports' = [reports EXCEPT !["json"] = "partial"]
        \/ /\ "json" \in requested /\ pc' = "markdown" /\ result' = "running"
           /\ reports' = [reports EXCEPT !["json"] = "whole"]
        \/ /\ "json" \notin requested /\ pc' = "markdown" /\ result' = "running"
           /\ reports' = reports
    BY <1>11, <2>1 DEF WriteReport, SkipReport, Goto, Exit
  <2>4. CASE pc' = "done"
    <3>1. "json" \in requested /\ result' = "output" /\ reports'["json"] # "whole"
      BY <1>0, <2>2, <2>3, <2>4
    <3> QED
      BY <2>1, <2>4, <3>1 DEF ReportInv
  <2>5. CASE pc' = "markdown"
    <3>1. /\ result' = "running" /\ reports'["markdown"] = "old"
          /\ "json" \in requested => reports'["json"] = "whole"
      BY <1>0, <2>2, <2>3, <2>5
    <3> QED
      BY <2>1, <2>5, <3>1 DEF ReportInv
  <2> QED
    BY <2>3, <2>4, <2>5
<1>12. CASE WriteReport("markdown", "policy") \/ SkipReport("markdown", "policy")
  <2>1. pc = "markdown" /\ result = "running" /\ requested' = requested
    BY <1>0, <1>12 DEF WriteReport, SkipReport
  <2>2. /\ reports["markdown"] = "old"
        /\ "json" \in requested => reports["json"] = "whole"
    BY <2>1 DEF ReportInv
  <2>3. \/ /\ "markdown" \in requested /\ pc' = "done" /\ result' = "output"
           /\ reports' = reports \/ reports' = [reports EXCEPT !["markdown"] = "partial"]
        \/ /\ "markdown" \in requested /\ pc' = "policy" /\ result' = "running"
           /\ reports' = [reports EXCEPT !["markdown"] = "whole"]
        \/ /\ "markdown" \notin requested /\ pc' = "policy" /\ result' = "running"
           /\ reports' = reports
    BY <1>12, <2>1 DEF WriteReport, SkipReport, Goto, Exit
  <2>4. CASE pc' = "done"
    <3>1. "markdown" \in requested /\ result' = "output" /\ reports'["markdown"] # "whole"
      BY <1>0, <2>2, <2>3, <2>4
    <3> QED
      BY <2>1, <2>4, <3>1 DEF ReportInv
  <2>5. CASE pc' = "policy"
    <3>1. result' = "running" /\ \A r \in requested : reports'[r] = "whole"
      BY <1>0, <2>2, <2>3, <2>5
    <3> QED
      BY <2>1, <2>5, <3>1 DEF ReportInv
  <2> QED
    BY <2>3, <2>4, <2>5
<1>13. CASE Policy
  <2>1. /\ pc = "policy" /\ pc' = "done" /\ UNCHANGED <<requested, reports, violates>>
        /\ result' = IF violates THEN "policy" ELSE "ok"
    BY <1>13 DEF Policy, Exit
  <2>2. \A r \in requested : reports[r] = "whole"
    BY <2>1 DEF ReportInv
  <2> QED
    BY <2>1, <2>2 DEF ReportInv
<1> QED
  BY <1>3, <1>4, <1>5, <1>6, <1>7, <1>8, <1>9, <1>10, <1>11, <1>12, <1>13 DEF Next, Command

(* The status is 0 or 2 only if every report asked for was written whole   *)
(* after the audit, and 2 exactly if the policy then found a violation.    *)
THEOREM ExitStatusIsTrue == Spec => []ExitTellsTruth
<1>1. Types /\ ReportInv => ExitTellsTruth
  <2> SUFFICES ASSUME Types, ReportInv, pc = "done"
               PROVE  LET delivered == Concluded /\ \A r \in requested : reports[r] = "whole"
                      IN  ExitCode = IF ~delivered THEN 1 ELSE IF violates THEN 2 ELSE 0
    BY DEF ExitTellsTruth
  <2>1. CASE result = "ok"
    BY <2>1 DEF ReportInv, ExitCode, Concluded
  <2>2. CASE result = "policy"
    BY <2>2 DEF ReportInv, ExitCode, Concluded
  <2>3. CASE result \notin {"ok", "policy"}
    BY <2>3 DEF ReportInv, ExitCode, Concluded
  <2> QED
    BY <2>1, <2>2, <2>3
<1> QED
  BY Invariance, InitReports, ReportStep, <1>1, PTL DEF Spec

----------------------------------------------------------------------------
(* The admission window *)

LEMMA ElementsOfAppend ==
  ASSUME NEW S, NEW seq \in Seq(S), NEW e \in S
  PROVE  Elements(Append(seq, e)) = Elements(seq) \cup {e}
<1>1. /\ DOMAIN Append(seq, e) = 1 .. Len(seq) + 1
      /\ Append(seq, e)[Len(seq) + 1] = e
      /\ \A i \in 1 .. Len(seq) : Append(seq, e)[i] = seq[i]
  OBVIOUS
<1>2. DOMAIN seq = 1 .. Len(seq) /\ Len(seq) \in Nat
  OBVIOUS
<1> QED
  BY <1>1, <1>2 DEF Elements

LEMMA ElementsBound ==
  ASSUME NEW S, NEW seq \in Seq(S)
  PROVE  /\ IsFiniteSet(Elements(seq)) /\ Cardinality(Elements(seq)) \in Nat
         /\ Cardinality(Elements(seq)) <= Len(seq)
<1> DEFINE f == [i \in 1 .. Len(seq) |-> seq[i]]
<1>0. Elements(seq) = {seq[i] : i \in 1 .. Len(seq)}
  BY DEF Elements
<1>1. f \in Surjection(1 .. Len(seq), Elements(seq))
  BY <1>0 DEF Surjection
<1>2. ExistsSurjection(1 .. Len(seq), Elements(seq))
  BY <1>1 DEF ExistsSurjection
<1>3. IsFiniteSet(Elements(seq))
  <2>1. IsFiniteSet(1 .. Len(seq))
    BY FS_Interval
  <2> QED
    BY <1>1, <2>1, FS_Surjection
<1> QED
  BY <1>2, <1>3, FS_SurjCardinalityBound, FS_CardinalityType

(* No decoded span expires: its end is not before the zero clock.          *)
LEMMA WindowFresh ==
  ASSUME NEW span \in Decodable
  PROVE  ~Window!Expired(span, 0)
  BY DecodableAssumption DEF Window!Expired

LEMMA AllFresh == Types => Window!AllFresh
<1> SUFFICES ASSUME Types, NEW span \in Elements(out) PROVE ~Window!Expired(span, 0)
  BY DEF Window!AllFresh
<1>1. span \in Decodable
  BY DEF Types, Elements
<1> QED
  BY <1>1, WindowFresh

LEMMA WindowAdmit ==
  ASSUME Types, DedupInv, DeduplicateSpan, out' = Append(out, spans[cursor + 1]),
         Earlier(spans[cursor + 1]) = {}, spans[cursor + 1] \notin Elements(out),
         ~Concluded, ~Concluded'
  PROVE  \E span \in Decodable : Window!Admit(span)
<1> DEFINE span == spans[cursor + 1]
<1>0. /\ spans \in Seq(Decodable) /\ out \in Seq(Decodable)
      /\ cursor \in Nat /\ cursor < Len(spans) /\ Len(out) <= cursor
      /\ pc = "dedup" /\ MaxSpans \in Int
  BY OfflineAssumption DEF Types, TypeOK, DeduplicateSpan
<1>1. span \in Decodable /\ span \notin Elements(out)
  BY <1>0
<1>2. Elements(out') = Elements(out) \cup {span}
  BY <1>0, <1>1, ElementsOfAppend
<1>3. Identified(span) => \A other \in Elements(out) : other.id # span.id
  BY DEF Earlier, Elements
<1>4. \A s : Identified(s) <=> Window!Identified(s)
  BY DEF Identified, Window!Identified
<1> HIDE DEF span
<1>5. /\ IsFiniteSet(Elements(out)) /\ Cardinality(Elements(out)) \in Nat
      /\ Cardinality(Elements(out)) <= Len(out)
  BY <1>0, ElementsBound
<1>6. Cardinality(Elements(out)) < IF MaxSpans > 0 THEN MaxSpans ELSE Cardinality(Decodable)
  <2>1. CASE MaxSpans > 0
    <3>1. Len(spans) <= MaxSpans
      BY <1>0, <2>1 DEF DedupInv
    <3>2. Len(out) \in Nat /\ Len(spans) \in Nat
      BY <1>0
    <3> QED
      BY <1>0, <1>5, <2>1, <3>1, <3>2
  <2>2. CASE ~(MaxSpans > 0)
    <3>1. IsFiniteSet(Decodable)
      BY <2>2, DecodableAssumption
    <3>2. Elements(out) \subseteq Decodable /\ Elements(out) # Decodable
      BY <1>0, <1>1 DEF Elements
    <3>3. Cardinality(Elements(out)) < Cardinality(Decodable)
      BY <3>1, <3>2, FS_Subset, FS_CardinalityType, <1>5
    <3> QED
      BY <2>2, <3>3
  <2> QED
    BY <2>1, <2>2
<1>7. {s \in Elements(out') : Identified(s)} =
        IF Window!Identified(span) THEN {s \in Elements(out) : Identified(s)} \cup {span}
        ELSE {s \in Elements(out) : Identified(s)}
  BY <1>2, <1>4
<1>8. Window!Cardinality(Elements(out)) = Cardinality(Elements(out))
  BY DEF Window!Cardinality, Cardinality
<1>9. (IF Concluded THEN {Elements(out)} ELSE {})'
         = IF Concluded THEN {Elements(out)} ELSE {}
  OBVIOUS
<1>10. Window!Admit(span)
  BY <1>1, <1>2, <1>3, <1>4, <1>6, <1>7, <1>8, <1>9, AllFresh, WindowFresh DEF Window!Admit
<1> QED
  BY <1>1, <1>10

LEMMA WindowStep == Types /\ DedupInv /\ [Next]_vars => [Window!Next]_(Window!vars)
<1> SUFFICES ASSUME Types, DedupInv, [Next]_vars PROVE [Window!Next]_(Window!vars)
  OBVIOUS
<1>0. result # "running" <=> pc = "done"
  BY DEF Types, TypeOK
<1>1. ASSUME Elements(out') = Elements(out), Concluded' <=> Concluded
      PROVE  UNCHANGED Window!vars
  BY <1>1 DEF Window!vars
<1>2. CASE DeduplicateSpan
  <2>1. ~Concluded
    BY <1>0, <1>2 DEF DeduplicateSpan, Concluded
  <2>2. ~Concluded'
    BY <1>0, <1>2 DEF DeduplicateSpan, Concluded, Goto, Exit
  <2>3. CASE out' = out
    BY <1>1, <2>1, <2>2, <2>3
  <2>4. CASE out' = Append(out, spans[cursor + 1]) /\ Earlier(spans[cursor + 1]) = {}
    <3>1. CASE spans[cursor + 1] \in Elements(out)
      <4>1. out \in Seq(Decodable) /\ spans[cursor + 1] \in Decodable
        BY <1>2 DEF Types, TypeOK, DeduplicateSpan
      <4>2. Elements(Append(out, spans[cursor + 1])) = Elements(out) \cup {spans[cursor + 1]}
        BY <4>1, ElementsOfAppend
      <4>3. Elements(out') = Elements(out)
        BY <2>4, <3>1, <4>2
      <4> QED
        BY <1>1, <2>1, <2>2, <4>3
    <3>2. CASE spans[cursor + 1] \notin Elements(out)
      BY <1>2, <2>1, <2>2, <2>4, <3>2, WindowAdmit DEF Window!Next
    <3> QED
      BY <3>1, <3>2
  <2> QED
    BY <1>2, <2>3, <2>4 DEF DeduplicateSpan
<1>3. CASE Audit
  <2>1. ~Concluded /\ out' = out
    BY <1>0, <1>3 DEF Audit, Concluded
  <2>2. CASE ~Concluded'
    BY <1>1, <2>1, <2>2
  <2>3. CASE Concluded'
    <3>1. /\ (IF Concluded THEN {Elements(out)} ELSE {})' = {Elements(out)}
          /\ {span \in Elements(out') : Identified(span)} =
               {span \in Elements(out) : Identified(span)}
      BY <2>1, <2>3
    <3> QED
      BY <2>1, <3>1, AllFresh DEF Window!Observe, Window!Next
  <2> QED
    BY <2>2, <2>3
<1>4. CASE UNCHANGED <<out, pc, result>>
  BY <1>1, <1>4 DEF Concluded
<1>5. CASE Write \/ UNCHANGED vars
  BY <1>4, <1>5 DEF Write, vars
<1>6. CASE LoadConfig
  BY <1>0, <1>1, <1>6 DEF LoadConfig, Goto, Exit, Concluded
<1>7. CASE ListFiles
  BY <1>0, <1>1, <1>7 DEF ListFiles, Goto, Exit, Concluded
<1>8. CASE StatFile
  BY <1>0, <1>1, <1>8 DEF StatFile, Goto, Exit, Concluded
<1>9. CASE Unreadable
  BY <1>0, <1>1, <1>9 DEF Unreadable, Exit, Concluded
<1>10. CASE ReadFile
  <2>1. out' = out
    BY <1>10 DEF ReadFile
  <2> QED
    BY <1>0, <1>1, <1>10, <2>1, ReadFileFacts DEF Concluded
<1>11. ASSUME NEW report \in {"json", "markdown"}, NEW after \in {"markdown", "policy"},
              WriteReport(report, after) \/ SkipReport(report, after)
       PROVE  UNCHANGED Window!vars
  BY <1>0, <1>1, <1>11 DEF WriteReport, SkipReport, Goto, Exit, Concluded
<1>12. CASE Policy
  BY <1>0, <1>1, <1>12 DEF Policy, Exit, Concluded
<1> QED
  BY <1>2, <1>3, <1>5, <1>6, <1>7, <1>8, <1>9, <1>10, <1>11, <1>12 DEF Next, Command

LEMMA WindowInit == Init => Window!Init
<1>1. Elements(<<>>) = {}
  BY DEF Elements
<1> QED
  BY <1>1 DEF Init, Window!Init, Concluded

(* What is audited offline keeps the promise the receiver's store makes,   *)
(* whatever the files hold.                                                *)
THEOREM Implementation == Spec => ImplementsWindow
  BY Invariance, WindowInit, WindowStep, PTL
  DEF Spec, ImplementsWindow, Window!Spec
===============================================================================
