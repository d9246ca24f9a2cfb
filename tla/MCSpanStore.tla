---------------------------- MODULE MCSpanStore ----------------------------
(***************************************************************************)
(* A small instance of SpanStore.  Spans a and b share an identity and a   *)
(* hash and differ in content and end; c has an identity of its own and    *)
(* the size of three; u has none.                                          *)
(***************************************************************************)
EXTENDS SpanStore

CONSTANTS id1, id2, anonymous

a == [id |-> id1, end |-> 0, body |-> 1]
b == [id |-> id1, end |-> 1, body |-> 2]
c == [id |-> id2, end |-> 2, body |-> 1]
u == [id |-> anonymous, end |-> 0, body |-> 1]

\* Year 1: before every end an exporter can send (nanoseconds since 1970).
MCZeroTime == -9

MCSpans == {a, b, c, u}

MCContentHash == [s \in MCSpans |-> IF s.id = id1 THEN 1 ELSE 2]

MCSizeOf == [s \in MCSpans |-> IF s = c THEN 3 ELSE 1]
============================================================================
