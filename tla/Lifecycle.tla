------------------------------- MODULE Lifecycle -------------------------------
(***************************************************************************)
(* Service.Run of internal/server/server.go: the listeners, the goroutines *)
(* that serve them, the audit loop and the shutdown.                       *)
(*                                                                         *)
(* Run opens three listeners, starts a goroutine that serves each, and     *)
(* audits on every tick until a server fails or the context is cancelled;  *)
(* then it audits once more if it was cancelled, stops the gRPC server     *)
(* gracefully within a deadline, shuts the HTTP servers down within what   *)
(* is left of it, and closes the listeners.  Requests arrive at any time;  *)
(* a handler adds its span to the store before it answers, and may be held *)
(* up by its client for ever.                                              *)
(*                                                                         *)
(* The store is here the set of the requests it has taken; what it keeps   *)
(* and refuses is SpanStore's subject, what an audit reads AuditCycle's.   *)
(***************************************************************************)
EXTENDS Integers, Sequences, FiniteSets

CONSTANTS Requests, GrpcRequests, MaxFailures

ASSUME LifecycleAssumption == GrpcRequests \subseteq Requests /\ MaxFailures \in Nat

Servers == {"grpc", "otlp", "admin"}

ServerOf(r) == IF r \in GrpcRequests THEN "grpc" ELSE "otlp"

VARIABLES
  pc,                    \* where Run is
  listener,              \* per server: "closed" or "open"
  serving,               \* per server: its goroutine
  errCh,                 \* the number of errors in the channel
  runErr,                \* "nil", "canceled" or "failed"
  ready, startup, lastAudit,  \* s.ready, s.startup, whether s.last is set
  cancelled,             \* ctx.Done() is closed
  deadline,              \* shutdownCtx.Done() is closed
  grace,                 \* the goroutine that calls GracefulStop
  connsOpen,             \* per server: the connections it has accepted are served
  request,               \* per request: "none", "connected", "arrived", "stored",
                         \* "answered"
  snapshot, reported,    \* what the running, and the last, audit covers
  answeredBefore,        \* history: answered when the context was cancelled
  failures               \* servers that failed by themselves

runVars == <<runErr, ready, startup>>
auditVars == <<lastAudit, snapshot, reported>>
vars == <<pc, listener, serving, errCh, runErr, ready, startup, lastAudit,
          cancelled, deadline, grace, connsOpen, request, snapshot, reported,
          answeredBefore, failures>>

----------------------------------------------------------------------------
Answered == {r \in Requests : request[r] = "answered"}
Stored == {r \in Requests : request[r] \in {"stored", "answered"}}

InFlight(s) == {r \in Requests : ServerOf(r) = s /\ request[r] \in {"arrived", "stored"}}

MutantErrChCap == 1
ErrChCap == 3

Init ==
  /\ pc = "listen_grpc"
  /\ listener = [s \in Servers |-> "closed"]
  /\ serving = [s \in Servers |-> "none"]
  /\ errCh = 0 /\ runErr = "nil"
  /\ ready = FALSE /\ startup = FALSE /\ lastAudit = FALSE
  /\ cancelled = FALSE /\ deadline = FALSE /\ grace = "none"
  /\ connsOpen = [s \in Servers |-> FALSE]
  /\ request = [r \in Requests |-> "none"]
  /\ snapshot = {} /\ reported = {} /\ answeredBefore = {} /\ failures = 0

----------------------------------------------------------------------------
(* Starting up *)

(* Where Run is when it opens the listener of a server. *)
ListenAt == [grpc |-> "listen_grpc", otlp |-> "listen_otlp", admin |-> "listen_admin"]

Listen(s, next) ==
  /\ pc = ListenAt[s]
  /\ pc' = next
  /\ listener' = [listener EXCEPT ![s] = "open"]
  /\ UNCHANGED <<serving, connsOpen, errCh, runVars, auditVars, cancelled, deadline, grace,
                 request, answeredBefore, failures>>

MutantOpenedBefore(s) == {}
(* The listeners closed when net.Listen fails for s *)
OpenedBefore(s) ==
  CASE s = "grpc" -> {}
    [] s = "otlp" -> {"grpc"}
    [] s = "admin" -> {"grpc", "otlp"}

ListenFails(s) ==
  /\ pc = ListenAt[s]
  /\ pc' = "returned"
  /\ runErr' = "failed"
  /\ listener' = [x \in Servers |-> IF x \in OpenedBefore(s) THEN "closed" ELSE listener[x]]
  /\ UNCHANGED <<serving, connsOpen, errCh, ready, startup, auditVars, cancelled, deadline,
                 grace, request, answeredBefore, failures>>

Start ==
  /\ pc = "start"
  /\ pc' = "select"
  /\ serving' = [s \in Servers |-> "serving"]
  /\ connsOpen' = [s \in Servers |-> TRUE]
  /\ startup' = TRUE /\ ready' = TRUE
  /\ UNCHANGED <<listener, errCh, runErr, auditVars, cancelled, deadline, grace,
                 request, answeredBefore, failures>>

----------------------------------------------------------------------------
(* The environment: signals, broken listeners, requests *)

Cancel ==
  /\ ~cancelled
  /\ cancelled' = TRUE
  /\ answeredBefore' = Answered
  /\ UNCHANGED <<pc, listener, serving, connsOpen, errCh, runVars, auditVars, deadline, grace,
                 request, failures>>

(* Serve returns an error, having closed its listener: the server accepts  *)
(* no connection any more, and goes on with those it has.                  *)
ServerFails(s) ==
  /\ failures < MaxFailures
  /\ serving[s] = "serving"
  /\ failures' = failures + 1
  /\ serving' = [serving EXCEPT ![s] = "failed"]
  /\ listener' = [listener EXCEPT ![s] = "closed"]
  /\ UNCHANGED <<pc, connsOpen, errCh, runVars, auditVars, cancelled, deadline, grace,
                 request, answeredBefore>>

(* errCh <- serveErr *)
SendError(s) ==
  /\ serving[s] = "failed"
  /\ errCh < ErrChCap
  /\ errCh' = errCh + 1
  /\ serving' = [serving EXCEPT ![s] = "ended"]
  /\ UNCHANGED <<pc, connsOpen, listener, runVars, auditVars, cancelled, deadline, grace, request,
                 answeredBefore, failures>>

Handle(r, from, to) ==
  /\ request[r] = from
  /\ request' = [request EXCEPT ![r] = to]
  /\ UNCHANGED <<pc, listener, serving, connsOpen, errCh, runVars, auditVars, cancelled, deadline,
                 grace, answeredBefore, failures>>

(* Serve accepts the connection a request will come in on. *)
Connect(r) ==
  /\ serving[ServerOf(r)] = "serving" /\ listener[ServerOf(r)] = "open"
  /\ Handle(r, "none", "connected")

(* GracefulStop ends the gRPC side first; HTTP requests come in until the  *)
(* OTLP server's Shutdown, also on the connections of a failed one.        *)
Arrive(r) ==
  /\ connsOpen[ServerOf(r)]
  /\ Handle(r, "connected", "arrived")

AddToStore(r) == Handle(r, "arrived", "stored")

(* A handler left over by grpcServer.Stop has lost its connection.         *)
Answer(r) ==
  /\ ServerOf(r) = "grpc" => grace # "done"
  /\ Handle(r, "stored", "answered")

----------------------------------------------------------------------------
(* The loop of Run *)

(* s.audit(): the snapshot ... *)
Audit(then) ==
  /\ pc' = then
  /\ snapshot' = Stored
  /\ UNCHANGED <<listener, serving, connsOpen, lastAudit, reported, ready, startup, cancelled,
                 deadline, grace, request, answeredBefore, failures>>

(* ... and the report *)
Report(from, then) ==
  /\ pc = from
  /\ pc' = then
  /\ reported' = snapshot /\ lastAudit' = TRUE
  /\ UNCHANGED <<listener, serving, connsOpen, errCh, runVars, snapshot, cancelled, deadline,
                 grace, request, answeredBefore, failures>>

OnTick ==
  /\ pc = "select"
  /\ Audit("audit")
  /\ UNCHANGED <<errCh, runErr>>

AuditEnds == Report("audit", "select")

MutantOnError ==
  /\ pc = "select"
  /\ errCh > 0
  /\ errCh' = errCh - 1
  /\ pc' = "unready"
  /\ UNCHANGED <<listener, serving, connsOpen, runVars, auditVars, cancelled, deadline,
                 grace, request, answeredBefore, failures>>
OnError ==
  /\ pc = "select"
  /\ errCh > 0
  /\ errCh' = errCh - 1
  /\ runErr' = "failed"
  /\ pc' = "unready"
  /\ UNCHANGED <<listener, serving, connsOpen, ready, startup, auditVars, cancelled, deadline,
                 grace, request, answeredBefore, failures>>

MutantOnDone ==
  /\ pc = "select"
  /\ cancelled
  /\ pc' = "unready"
  /\ runErr' = "canceled"
  /\ UNCHANGED <<listener, serving, connsOpen, errCh, ready, startup, auditVars, cancelled,
                 deadline, grace, request, answeredBefore, failures>>
OnDone ==
  /\ pc = "select"
  /\ cancelled
  /\ Audit("final_audit")
  /\ runErr' = "canceled"
  /\ UNCHANGED errCh

FinalAuditEnds == Report("final_audit", "unready")

----------------------------------------------------------------------------
(* The shutdown *)

MutantNotReady == ready
NotReady == FALSE

Unready ==
  /\ pc = "unready"
  /\ pc' = "stop_grpc"
  /\ ready' = NotReady
  /\ grace' = "stopping"
  /\ UNCHANGED <<listener, serving, connsOpen, errCh, runErr, startup, auditVars, cancelled,
                 deadline, request, answeredBefore, failures>>

(* The 10 s of shutdownCtx pass. *)
Deadline ==
  /\ pc \in {"stop_grpc", "shutdown_otlp", "shutdown_admin"}
  /\ ~deadline
  /\ deadline' = TRUE
  /\ UNCHANGED <<pc, listener, serving, connsOpen, errCh, runVars, auditVars, cancelled, grace,
                 request, answeredBefore, failures>>

Close(s) == listener' = [listener EXCEPT ![s] = "closed"]

(* Serve returns nil, or ErrServerClosed, and its goroutine sends nothing. *)
End(s) ==
  /\ serving' = [serving EXCEPT ![s] = IF @ = "serving" THEN "ended" ELSE @]
  /\ connsOpen' = [connsOpen EXCEPT ![s] = FALSE]

(* GracefulStop closes the listener, then waits for the requests. *)
GraceBegins ==
  /\ grace = "stopping"
  /\ grace' = "waiting"
  /\ Close("grpc") /\ End("grpc")
  /\ UNCHANGED <<pc, errCh, runVars, auditVars, cancelled, deadline, request,
                 answeredBefore, failures>>

GraceEnds ==
  /\ grace = "waiting"
  /\ InFlight("grpc") = {}
  /\ grace' = "done"
  /\ UNCHANGED <<pc, listener, serving, connsOpen, errCh, runVars, auditVars, cancelled, deadline,
                 request, answeredBefore, failures>>

GrpcStopped ==
  /\ pc = "stop_grpc"
  /\ grace = "done"
  /\ pc' = "shutdown_otlp"
  /\ UNCHANGED <<listener, serving, connsOpen, errCh, runVars, auditVars, cancelled, deadline,
                 grace, request, answeredBefore, failures>>

MutantGiveUp == FALSE
GiveUp == deadline

(* grpcServer.Stop breaks the connections; a handler goes on, unheard. *)
GrpcForced ==
  /\ pc = "stop_grpc"
  /\ GiveUp
  /\ pc' = "shutdown_otlp"
  /\ Close("grpc") /\ End("grpc")
  /\ grace' = "done"
  /\ UNCHANGED <<errCh, runVars, auditVars, cancelled, deadline, request,
                 answeredBefore, failures>>

ShutdownAt == [otlp |-> "shutdown_otlp", admin |-> "shutdown_admin"]

(* http.Server.Shutdown closes the listener, then waits for the requests   *)
(* or the deadline.                                                        *)
ShutdownBegins(s) ==
  /\ pc = ShutdownAt[s]
  /\ connsOpen[s]
  /\ Close(s) /\ End(s)
  /\ UNCHANGED <<pc, errCh, runVars, auditVars, cancelled, deadline, grace, request,
                 answeredBefore, failures>>

ShutdownEnds(s, next) ==
  /\ pc = ShutdownAt[s]
  /\ ~connsOpen[s]
  /\ InFlight(s) = {} \/ deadline
  /\ pc' = next
  /\ UNCHANGED <<listener, serving, connsOpen, errCh, runVars, auditVars, cancelled, deadline, grace,
                 request, answeredBefore, failures>>

Return ==
  /\ pc = "close"
  /\ pc' = "returned"
  /\ listener' = [s \in Servers |-> "closed"]
  /\ UNCHANGED <<serving, connsOpen, errCh, runVars, auditVars, cancelled, deadline, grace, request,
                 answeredBefore, failures>>

----------------------------------------------------------------------------
Listening ==
  \/ Listen("grpc", "listen_otlp")
  \/ Listen("otlp", "listen_admin")
  \/ Listen("admin", "start")
  \/ \E s \in Servers : ListenFails(s)

LoopStep == OnTick \/ AuditEnds \/ OnError \/ OnDone \/ FinalAuditEnds

ShutdownStep ==
  \/ Unready \/ GrpcStopped \/ GrpcForced
  \/ ShutdownBegins("otlp") \/ ShutdownEnds("otlp", "shutdown_admin")
  \/ ShutdownBegins("admin") \/ ShutdownEnds("admin", "close")
  \/ Return

RunStep == Listening \/ Start \/ LoopStep \/ ShutdownStep

Next ==
  \/ RunStep
  \/ Cancel \/ Deadline \/ GraceBegins \/ GraceEnds
  \/ \E s \in Servers : ServerFails(s)
  \/ \E s \in Servers : SendError(s)
  \/ \E r \in Requests : Connect(r)
  \/ \E r \in Requests : Arrive(r)
  \/ \E r \in Requests : AddToStore(r)
  \/ \E r \in Requests : Answer(r)

(* Run and its goroutines go on while they can, and time passes.  A select *)
(* with several ready cases chooses one at random, so a case that is ready *)
(* again and again is chosen.  No request is ever bound to be answered.    *)
Fairness ==
  /\ WF_vars(RunStep)
  /\ SF_vars(OnError) /\ SF_vars(OnDone)
  /\ WF_vars(Deadline) /\ WF_vars(GraceBegins) /\ WF_vars(GraceEnds)
  /\ \A s \in Servers : WF_vars(SendError(s))

Spec == Init /\ [][Next]_vars /\ Fairness

----------------------------------------------------------------------------
(* Properties *)

(* The values the state of Run can take. *)
TypeOK ==
  /\ pc \in {"listen_grpc", "listen_otlp", "listen_admin", "start", "select", "audit",
              "final_audit", "unready", "stop_grpc", "shutdown_otlp", "shutdown_admin",
              "close", "returned"}
  /\ listener \in [Servers -> {"closed", "open"}]
  /\ serving \in [Servers -> {"none", "serving", "failed", "ended"}]
  /\ connsOpen \in [Servers -> BOOLEAN]
  /\ errCh \in 0..ErrChCap
  /\ runErr \in {"nil", "canceled", "failed"}
  /\ runErr = "nil" <=> pc \in {"listen_grpc", "listen_otlp", "listen_admin", "start",
                                "select", "audit"}
  /\ ready \in BOOLEAN /\ startup \in BOOLEAN /\ lastAudit \in BOOLEAN
  /\ cancelled \in BOOLEAN /\ deadline \in BOOLEAN
  /\ grace \in {"none", "stopping", "waiting", "done"}
  /\ request \in [Requests -> {"none", "connected", "arrived", "stored", "answered"}]
  /\ snapshot \subseteq Requests /\ reported \subseteq Requests
  /\ answeredBefore \subseteq Requests /\ failures \in Nat

(* However Run ends, at a listener that cannot be opened or after a        *)
(* shutdown that ran out of time, it leaves no listener open.              *)
ListenersReleased ==
  pc = "returned" => \A s \in Servers : listener[s] = "closed"

(* internal/server/integration_test.go line 107, for any interleaving: the *)
(* report a cancelled Run leaves covers what was acknowledged before the   *)
(* cancellation.                                                           *)
FinalAuditCovers ==
  pc = "returned" /\ runErr = "canceled" => answeredBefore \subseteq reported

(* Serve has returned an error that Run has not acted on: it is about to be *)
(* sent, waits in errCh, or was received and readiness is withdrawn next.  *)
FailureUnderWay(s) == serving[s] = "failed" \/ errCh > 0 \/ pc = "unready"

(* What a 200 of /ready says of the servers: Run has told none of them to  *)
(* stop, and each takes connections, unless its own failure is under way   *)
(* to Run.  That exception is real: Run receives no error while it audits, *)
(* and /ready says 200 of a server with a closed listener until then.      *)
ReadyIsHonest ==
  ready /\ lastAudit =>
    \A s \in Servers :
      connsOpen[s] /\ (listener[s] = "closed" => FailureUnderWay(s))

(* A cancellation or a failed server ends Run, whatever a client does to   *)
(* keep a request open and however often the ticker is chosen instead.     *)
Stops ==
  (cancelled \/ \E s \in Servers : serving[s] = "failed") ~> pc = "returned"

(* No server's goroutine is left blocked on the error it reports, though   *)
(* nobody receives from errCh once the loop has ended.                     *)
NoSenderBlocked ==
  \A s \in Servers : serving[s] = "failed" ~> serving[s] = "ended"
===============================================================================
