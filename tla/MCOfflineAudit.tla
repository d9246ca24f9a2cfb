---------------------------- MODULE MCOfflineAudit ----------------------------
(***************************************************************************)
(* Small directories for OfflineAudit.  One span is exported in variants   *)
(* that differ in a sensitive key, in the elements of an array, in a link, *)
(* or hold a NaN; one has no identity; one has an identity of its own.     *)
(***************************************************************************)
EXTENDS OfflineAudit

CONSTANTS id1, id2, anonymous, x, y, xs, ys, oneValue

aSpan == [id |-> id1, end |-> 1, links |-> 0, attrs |-> [user |-> x, list |-> xs]]

MCSpans ==
  {aSpan,
   [aSpan EXCEPT !.attrs.user = y], [aSpan EXCEPT !.attrs.list = ys],
   [aSpan EXCEPT !.links = 1], [aSpan EXCEPT !.attrs.list = NaN],
   [aSpan EXCEPT !.id = id2], [aSpan EXCEPT !.id = anonymous]}

MCValue == [v \in {x, y, xs, ys, NaN} |-> IF v \in {xs, ys} THEN oneValue ELSE v]

MCDocuments == {<<>>} \cup {<<s>> : s \in MCSpans} \cup {<<aSpan, s>> : s \in MCSpans}

Files == {<<d>> : d \in MCDocuments \cup {Malformed}} \cup
         {<<<<aSpan>>, d>> : d \in {<<aSpan>>, Malformed}} \cup {<<>>}

LaterFiles == {<<d>> : d \in {<<s>> : s \in MCSpans} \cup {Malformed, <<aSpan, aSpan>>}}

MCInputs == {<<>>} \cup {<<f>> : f \in Files} \cup {<<f, g>> : f \in Files, g \in LaterFiles}
===============================================================================
