---------------------------- MODULE MCAuditCycle ----------------------------
(***************************************************************************)
(* A small instance of AuditCycle: a span with a sensitive attribute and   *)
(* dropped ones that expires during the run, and one with neither that     *)
(* does not; a configuration that redacts and has a wider correlation      *)
(* window, and one that does not.                                          *)
(***************************************************************************)
EXTENDS AuditCycle

CONSTANTS s1, s2

plain == [redact |-> FALSE, window |-> 1, rev |-> 1]
strict == [redact |-> TRUE, window |-> 2, rev |-> 2]

MCConfigs == {plain, strict}

MCRawSpans == {[id |-> s1, end |-> -1, sensitive |-> TRUE, dropped |-> TRUE],
               [id |-> s2, end |-> 1, sensitive |-> FALSE, dropped |-> FALSE]}
=============================================================================
