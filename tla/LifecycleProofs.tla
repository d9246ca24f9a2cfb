---------------------------- MODULE LifecycleProofs ----------------------------
(***************************************************************************)
(* Theorems about Lifecycle, for any requests, on either transport, and    *)
(* any number of servers that fail.                                        *)
(***************************************************************************)
EXTENDS Lifecycle, TLAPS

----------------------------------------------------------------------------
(* The inductive invariant *)

Starting == {"listen_grpc", "listen_otlp", "listen_admin", "start"}
Looping == {"select", "audit", "final_audit", "unready"}
Stopping == {"stop_grpc", "shutdown_otlp", "shutdown_admin", "close"}

(* The listeners that Run has not opened yet, and those of a Run that has  *)
(* returned, are closed; no other code opens one.                          *)
ListenersInv ==
  /\ pc = "listen_grpc" => \A s \in Servers : listener[s] = "closed"
  /\ pc = "listen_otlp" => listener["otlp"] = "closed" /\ listener["admin"] = "closed"
  /\ pc = "listen_admin" => listener["admin"] = "closed"
  /\ ListenersReleased

(* The final audit takes its snapshot after the cancellation, and what was *)
(* answered by then stays answered; its report is the last one.            *)
CoverInv ==
  /\ ~cancelled => answeredBefore = {}
  /\ answeredBefore \subseteq Answered
  /\ pc = "final_audit" => cancelled /\ answeredBefore \subseteq snapshot
  /\ runErr = "canceled" => cancelled
  /\ runErr = "canceled" /\ pc # "final_audit" => answeredBefore \subseteq reported

(* Readiness is withdrawn before the first server is told to stop.  Before *)
(* a loop that goes on, a server takes connections, or has failed and its  *)
(* error is not sent, or not received.                                     *)
ReadyInv ==
  /\ ready => pc \in Looping /\ \A s \in Servers : connsOpen[s]
  /\ pc \in Starting \cup Looping => grace = "none"
  /\ pc \in Starting => \A s \in Servers : serving[s] = "none"
  /\ pc \in {"listen_otlp", "listen_admin", "start"} => listener["grpc"] = "open"
  /\ pc \in {"listen_admin", "start"} => listener["otlp"] = "open"
  /\ pc = "start" => listener["admin"] = "open"
  /\ pc \in Looping \ {"unready"} =>
       \A s \in Servers : \/ serving[s] = "serving" /\ listener[s] = "open"
                          \/ serving[s] = "failed"
                          \/ serving[s] = "ended" /\ errCh > 0

IInv == TypeOK /\ ListenersInv /\ CoverInv /\ ReadyInv

LEMMA InitInv == Init => IInv
<1> SUFFICES ASSUME Init PROVE IInv
  OBVIOUS
<1>1. TypeOK
  <2>1. /\ listener \in [Servers -> {"closed", "open"}]
        /\ serving \in [Servers -> {"none", "serving", "failed", "ended"}]
        /\ connsOpen \in [Servers -> BOOLEAN]
        /\ request \in [Requests -> {"none", "connected", "arrived", "stored", "answered"}]
    BY DEF Init
  <2>2. /\ ready \in BOOLEAN /\ startup \in BOOLEAN /\ lastAudit \in BOOLEAN
        /\ cancelled \in BOOLEAN /\ deadline \in BOOLEAN
    BY DEF Init
  <2>3. /\ errCh \in 0 .. ErrChCap /\ failures \in Nat
        /\ snapshot = {} /\ reported = {} /\ answeredBefore = {}
        /\ pc = "listen_grpc" /\ runErr = "nil" /\ grace = "none"
    BY DEF Init, ErrChCap
  <2> QED
    BY <2>1, <2>2, <2>3 DEF TypeOK
<1>2. ListenersInv
  BY DEF Init, ListenersInv, ListenersReleased
<1>3. CoverInv
  BY DEF Init, CoverInv, Answered
<1>4. ReadyInv
  BY DEF Init, ReadyInv, Starting, Looping, Servers
<1> QED
  BY <1>1, <1>2, <1>3, <1>4 DEF IInv

----------------------------------------------------------------------------
(* Types *)

LEMMA TypeStep == TypeOK /\ [Next]_vars => TypeOK'
<1> SUFFICES ASSUME TypeOK, [Next]_vars PROVE TypeOK'
  OBVIOUS
<1> USE DEF TypeOK, runVars, auditVars, Servers
<1>1. CASE Listening
  BY <1>1 DEF Listening, Listen, ListenAt, ListenFails, OpenedBefore
<1>2. CASE Start
  BY <1>2 DEF Start
<1>3. CASE LoopStep
  <2>1. Stored \subseteq Requests
    BY DEF Stored
  <2>2. CASE OnTick
    BY <2>1, <2>2 DEF OnTick, Audit
  <2>3. CASE AuditEnds \/ FinalAuditEnds
    BY <2>3 DEF AuditEnds, FinalAuditEnds, Report
  <2>4. CASE OnError
    BY <2>4 DEF OnError, ErrChCap
  <2>5. CASE OnDone
    BY <2>1, <2>5 DEF OnDone, Audit
  <2> QED
    BY <1>3, <2>2, <2>3, <2>4, <2>5 DEF LoopStep
<1>4. CASE ShutdownStep
  <2>1. CASE Unready
    BY <2>1 DEF Unready, NotReady
  <2>2. CASE GrpcStopped
    BY <2>2 DEF GrpcStopped
  <2>3. CASE GrpcForced
    BY <2>3 DEF GrpcForced, Close, End
  <2>6. ASSUME NEW s \in Servers, ShutdownBegins(s)
        PROVE  TypeOK'
    BY <2>6 DEF ShutdownBegins, Close, End
  <2>4. CASE ShutdownEnds("otlp", "shutdown_admin") \/ ShutdownEnds("admin", "close")
    BY <2>4 DEF ShutdownEnds, ShutdownAt
  <2>5. CASE Return
    BY <2>5 DEF Return
  <2> QED
    BY <1>4, <2>1, <2>2, <2>3, <2>4, <2>5, <2>6 DEF ShutdownStep
<1>5. CASE Cancel
  BY <1>5 DEF Cancel, Answered
<1>6. CASE Deadline \/ GraceEnds
  BY <1>6 DEF Deadline, GraceEnds
<1>7. CASE GraceBegins
  BY <1>7 DEF GraceBegins, Close, End
<1>8. ASSUME NEW s \in Servers, ServerFails(s) \/ SendError(s)
      PROVE  TypeOK'
  BY <1>8 DEF ServerFails, SendError, ErrChCap
<1>9. ASSUME NEW r \in Requests, Connect(r) \/ Arrive(r) \/ AddToStore(r) \/ Answer(r)
      PROVE  TypeOK'
  BY <1>9 DEF Connect, Arrive, AddToStore, Answer, Handle
<1>10. CASE UNCHANGED vars
  BY <1>10 DEF vars
<1> QED
  BY <1>1, <1>2, <1>3, <1>4, <1>5, <1>6, <1>7, <1>8, <1>9, <1>10 DEF Next, RunStep
----------------------------------------------------------------------------
(* Listeners *)

LEMMA ListenersStep == IInv /\ [Next]_vars => ListenersInv'
<1> SUFFICES ASSUME IInv, [Next]_vars PROVE ListenersInv'
  OBVIOUS
<1>0. /\ listener \in [Servers -> {"closed", "open"}]
      /\ ListenersInv
  BY DEF IInv, TypeOK
<1> USE DEF ListenersInv, ListenersReleased, Servers
<1>1. CASE Listening
  <2>1. CASE Listen("grpc", "listen_otlp") \/ Listen("otlp", "listen_admin")
             \/ Listen("admin", "start")
    BY <1>0, <2>1 DEF Listen, ListenAt
  <2>2. ASSUME NEW s \in Servers, ListenFails(s)
        PROVE  ListenersInv'
    BY <1>0, <2>2 DEF ListenFails, ListenAt, OpenedBefore
  <2> QED
    BY <1>1, <2>1, <2>2 DEF Listening
<1>2. CASE Return
  BY <1>2 DEF Return
<1>3. ASSUME \A s \in Servers : listener'[s] = listener[s] \/ listener'[s] = "closed",
             pc' = pc \/ pc' \in Looping \cup Stopping
      PROVE  ListenersInv'
  BY <1>0, <1>3 DEF Looping, Stopping
<1>4. CASE Start \/ LoopStep
  BY <1>3, <1>4 DEF Start, LoopStep, OnTick, AuditEnds, OnError, OnDone,
     FinalAuditEnds, Audit, Report, Looping
<1>5. CASE ShutdownStep /\ ~Return
  <2>1. CASE Unready \/ GrpcStopped
    BY <1>3, <2>1 DEF Unready, GrpcStopped, Stopping
  <2>2. CASE GrpcForced
    BY <1>0, <1>3, <2>2 DEF GrpcForced, Close, Stopping
  <2>3. ASSUME NEW s \in {"otlp", "admin"}, ShutdownBegins(s)
        PROVE  ListenersInv'
    BY <1>0, <1>3, <2>3 DEF ShutdownBegins, Close
  <2>4. CASE ShutdownEnds("otlp", "shutdown_admin") \/ ShutdownEnds("admin", "close")
    BY <1>3, <2>4 DEF ShutdownEnds, Stopping
  <2> QED
    BY <1>5, <2>1, <2>2, <2>3, <2>4 DEF ShutdownStep
<1>6. CASE Cancel \/ Deadline \/ GraceEnds
  BY <1>3, <1>6 DEF Cancel, Deadline, GraceEnds
<1>7. CASE GraceBegins
  BY <1>0, <1>3, <1>7 DEF GraceBegins, Close
<1>8. ASSUME NEW s \in Servers, ServerFails(s) \/ SendError(s)
      PROVE  ListenersInv'
  BY <1>0, <1>3, <1>8 DEF ServerFails, SendError
<1>9. ASSUME NEW r \in Requests, Connect(r) \/ Arrive(r) \/ AddToStore(r) \/ Answer(r)
      PROVE  ListenersInv'
  BY <1>3, <1>9 DEF Connect, Arrive, AddToStore, Answer, Handle
<1>10. CASE UNCHANGED vars
  BY <1>3, <1>10 DEF vars
<1> QED
  BY <1>1, <1>2, <1>4, <1>5, <1>6, <1>7, <1>8, <1>9, <1>10 DEF Next, RunStep

----------------------------------------------------------------------------
(* The final audit *)

(* A request that has been answered stays so, and is one the store has.    *)
LEMMA AnsweredStays ==
  ASSUME TypeOK, [Next]_vars
  PROVE  Answered \subseteq Answered' /\ Answered \subseteq Stored
<1>0. Answered \subseteq Stored
  BY DEF Answered, Stored
<1>1. ASSUME NEW r \in Requests, Connect(r) \/ Arrive(r) \/ AddToStore(r) \/ Answer(r)
      PROVE  Answered \subseteq Answered'
  BY <1>1 DEF TypeOK, Connect, Arrive, AddToStore, Answer, Handle, Answered
<1>2. CASE UNCHANGED request
  BY <1>0, <1>2 DEF Answered
<1>3. CASE RunStep
  BY <1>2, <1>3 DEF RunStep, Listening, Listen, ListenFails, Start, LoopStep, OnTick,
     AuditEnds, OnError, OnDone, FinalAuditEnds, Audit, Report, ShutdownStep, Unready,
     GrpcStopped, GrpcForced, ShutdownBegins, ShutdownEnds, Return
<1> QED
  BY <1>0, <1>1, <1>2, <1>3 DEF Next, vars, Cancel, Deadline, GraceBegins, GraceEnds,
     ServerFails, SendError

LEMMA CoverStep == IInv /\ [Next]_vars => CoverInv'
<1> SUFFICES ASSUME IInv, [Next]_vars PROVE CoverInv'
  OBVIOUS
<1>0. /\ TypeOK /\ CoverInv
      /\ Answered \subseteq Answered' /\ Answered \subseteq Stored
  BY AnsweredStays DEF IInv
<1>1. CASE Cancel
  BY <1>0, <1>1 DEF Cancel, CoverInv, runVars, auditVars
<1>2. CASE OnTick
  BY <1>0, <1>2 DEF OnTick, Audit, CoverInv, TypeOK
<1>3. CASE OnDone
  <2>1. /\ pc' = "final_audit" /\ snapshot' = Stored /\ cancelled
        /\ UNCHANGED <<answeredBefore, cancelled>>
    BY <1>3 DEF OnDone, Audit
  <2> QED
    BY <1>0, <2>1 DEF CoverInv
<1>4. CASE AuditEnds
  BY <1>0, <1>4 DEF AuditEnds, Report, CoverInv, TypeOK, runVars
<1>5. CASE FinalAuditEnds
  BY <1>0, <1>5 DEF FinalAuditEnds, Report, CoverInv, runVars
<1>6. CASE OnError
  BY <1>0, <1>6 DEF OnError, CoverInv, auditVars
<1>7. ASSUME UNCHANGED <<answeredBefore, cancelled, snapshot, reported>>,
             runErr' \in {runErr, "failed"}, pc' # "final_audit" \/ pc' = pc,
             pc' = pc \/ pc # "final_audit"
      PROVE  CoverInv'
  BY <1>0, <1>7 DEF CoverInv
<1>8. CASE Listening \/ Start
  BY <1>7, <1>8 DEF Listening, Listen, ListenFails, ListenAt, Start, runVars, auditVars,
     Servers
<1>9. CASE ShutdownStep
  BY <1>7, <1>9 DEF ShutdownStep, Unready, GrpcStopped, GrpcForced, ShutdownBegins,
     ShutdownEnds, ShutdownAt, Return, runVars, auditVars
<1>10. CASE Deadline \/ GraceBegins \/ GraceEnds \/ UNCHANGED vars
  BY <1>7, <1>10 DEF Deadline, GraceBegins, GraceEnds, vars, runVars, auditVars
<1>11. ASSUME NEW s \in Servers, ServerFails(s) \/ SendError(s)
       PROVE  CoverInv'
  BY <1>7, <1>11 DEF ServerFails, SendError, runVars, auditVars
<1>12. ASSUME NEW r \in Requests, Connect(r) \/ Arrive(r) \/ AddToStore(r) \/ Answer(r)
       PROVE  CoverInv'
  BY <1>7, <1>12 DEF Connect, Arrive, AddToStore, Answer, Handle, runVars, auditVars
<1> QED
  BY <1>1, <1>2, <1>3, <1>4, <1>5, <1>6, <1>8, <1>9, <1>10, <1>11, <1>12
  DEF Next, RunStep, LoopStep

----------------------------------------------------------------------------
(* Readiness *)

LEMMA ReadyStep == IInv /\ [Next]_vars => ReadyInv'
<1> SUFFICES ASSUME IInv, [Next]_vars PROVE ReadyInv'
  OBVIOUS
<1>0. /\ ReadyInv
      /\ listener \in [Servers -> {"closed", "open"}]
      /\ serving \in [Servers -> {"none", "serving", "failed", "ended"}]
      /\ errCh \in Nat
  BY DEF IInv, TypeOK, ErrChCap
<1> USE DEF ReadyInv, Starting, Looping
<1>1. CASE Start
  <2>1. \A s \in Servers : listener[s] = "open"
    BY <1>0, <1>1 DEF Start, Servers
  <2> QED
    BY <1>0, <1>1, <2>1 DEF Start
<1>2. CASE Unready
  BY <1>2 DEF Unready, NotReady
<1>3. ASSUME UNCHANGED <<ready, connsOpen, grace, serving, listener>>,
             pc' = pc \/ (pc \in Looping \ {"unready"} /\ pc' \in Looping),
             pc' = "unready" \/ errCh' = errCh
      PROVE  ReadyInv'
  BY <1>0, <1>3
<1>4. CASE Listening
  <2>1. CASE Listen("grpc", "listen_otlp") \/ Listen("otlp", "listen_admin")
             \/ Listen("admin", "start")
    BY <1>0, <2>1 DEF Listen, ListenAt, Servers, runVars
  <2>2. ASSUME NEW s \in Servers, ListenFails(s)
        PROVE  ReadyInv'
    BY <1>0, <2>2 DEF ListenFails, ListenAt, Servers
  <2> QED
    BY <1>4, <2>1, <2>2 DEF Listening
<1>5. CASE LoopStep
  BY <1>3, <1>5 DEF LoopStep, OnTick, AuditEnds, OnError, OnDone, FinalAuditEnds,
     Audit, Report, runVars
<1>6. ASSUME pc \notin Starting \cup Looping, pc' \notin Starting \cup Looping,
             UNCHANGED ready
      PROVE  ReadyInv'
  BY <1>0, <1>6
<1>7. CASE ShutdownStep /\ ~Unready
  BY <1>6, <1>7 DEF ShutdownStep, GrpcStopped, GrpcForced, ShutdownBegins,
     ShutdownEnds, ShutdownAt, Return, runVars
<1>8. CASE GraceBegins \/ GraceEnds
  BY <1>0, <1>6, <1>8 DEF GraceBegins, GraceEnds, runVars
<1>9. CASE Cancel \/ Deadline \/ UNCHANGED vars
  BY <1>3, <1>9 DEF Cancel, Deadline, vars, runVars
<1>10. ASSUME NEW s \in Servers, ServerFails(s)
       PROVE  ReadyInv'
  BY <1>0, <1>10 DEF ServerFails, runVars
<1>11. ASSUME NEW s \in Servers, SendError(s)
       PROVE  ReadyInv'
  BY <1>0, <1>11 DEF SendError, runVars
<1>12. ASSUME NEW r \in Requests, Connect(r) \/ Arrive(r) \/ AddToStore(r) \/ Answer(r)
       PROVE  ReadyInv'
  BY <1>3, <1>12 DEF Connect, Arrive, AddToStore, Answer, Handle, runVars
<1> QED
  BY <1>1, <1>2, <1>4, <1>5, <1>7, <1>8, <1>9, <1>10, <1>11, <1>12 DEF Next, RunStep

----------------------------------------------------------------------------
LEMMA InvStep == IInv /\ [Next]_vars => IInv'
<1>1. IInv /\ [Next]_vars => TypeOK'
  BY TypeStep DEF IInv
<1> QED
  BY <1>1, ListenersStep, CoverStep, ReadyStep DEF IInv

(* Every reachable state of Run satisfies the inductive invariant.         *)
THEOREM Invariance == Spec => []IInv
  BY InitInv, InvStep, PTL DEF Spec

(* The state of Run keeps its type, and runErr says whether the loop ended. *)
THEOREM TypeCorrect == Spec => []TypeOK
  BY Invariance, PTL DEF IInv

(* However Run ends, it leaves no listener open.                           *)
THEOREM Released == Spec => []ListenersReleased
  BY Invariance, PTL DEF IInv, ListenersInv

(* The report a cancelled Run leaves covers what was acknowledged before   *)
(* the cancellation, whatever arrives and fails meanwhile.                 *)
THEOREM FinalAudit == Spec => []FinalAuditCovers
<1>1. IInv => FinalAuditCovers
  BY DEF IInv, CoverInv, FinalAuditCovers
<1> QED
  BY <1>1, Invariance, PTL

(* While /ready answers 200, Run has told no server to stop, and a server  *)
(* whose listener is closed has failed and its error is on its way to Run. *)
THEOREM Readiness == Spec => []ReadyIsHonest
<1>1. IInv => ReadyIsHonest
  BY DEF IInv, ReadyInv, ReadyIsHonest, FailureUnderWay, Looping
<1> QED
  BY <1>1, Invariance, PTL
===============================================================================
