------------------------------- MODULE RateLimit -------------------------------
(***************************************************************************)
(* The token buckets of internal/server/ratelimit.go, one per transport    *)
(* (Run makes httpBucket and grpcBucket), in front of the export handlers. *)
(*                                                                         *)
(* A token is Cost units and a bucket gains rate units in a tick of the    *)
(* clock, so that the fractions the code keeps in a float64 are integers;  *)
(* its rounding is not modelled.  time.Now is monotonic within a process.  *)
(*                                                                         *)
(* Three histories say what a bucket is for.  A mark is a moment from      *)
(* which admitted requests are counted; filled is the last time the bucket *)
(* was found full.                                                         *)
(***************************************************************************)
EXTENDS Integers

CONSTANTS
  Transports,           \* "http" and "grpc"
  Cost,                 \* units in a token
  Rates, Bursts,        \* --rate-limit in units per tick, --rate-burst
  MaxTime, MaxRequests  \* bounds on the environment

(* serveCmd, main.go line 126, accepts no negative rate or burst. *)
ASSUME RateAssumption ==
  /\ Cost \in Nat \ {0} /\ Rates \subseteq Nat /\ Bursts \subseteq Nat
  /\ MaxTime \in Nat /\ MaxRequests \in Nat

VARIABLES
  now,
  rate, burst,                \* tokenBucket: what no request changes
  tokens, lastFill,           \* tokenBucket, per transport
  handled, refused,           \* requests passed on; RateLimited counter
  markTime, sinceMark,        \* history: a moment, and requests handled since
  filledTime, sinceFilled     \* history: last found full, requests handled since

options == <<rate, burst>>
vars == <<now, rate, burst, tokens, lastFill, handled, refused, markTime, sinceMark,
          filledTime, sinceFilled>>

(* newTokenBucket returns nil, and allow lets all requests pass, when the  *)
(* rate or the burst is not positive.                                      *)
Limited == rate > 0 /\ burst > 0

Capacity == burst * Cost

----------------------------------------------------------------------------
Init ==
  /\ now = 0
  /\ rate \in Rates /\ burst \in Bursts
  /\ tokens = [t \in Transports |-> Capacity]
  /\ lastFill = [t \in Transports |-> 0]
  /\ handled = [t \in Transports |-> 0]
  /\ refused = [t \in Transports |-> 0]
  /\ markTime = [t \in Transports |-> 0]
  /\ sinceMark = [t \in Transports |-> 0]
  /\ filledTime = [t \in Transports |-> 0]
  /\ sinceFilled = [t \in Transports |-> 0]

Tick ==
  /\ now < MaxTime
  /\ now' = now + 1
  /\ UNCHANGED <<options, tokens, lastFill, handled, refused, markTime, sinceMark,
                 filledTime, sinceFilled>>

(* The observer begins to count here. *)
Mark(t) ==
  /\ markTime' = [markTime EXCEPT ![t] = now]
  /\ sinceMark' = [sinceMark EXCEPT ![t] = 0]
  /\ UNCHANGED <<now, options, tokens, lastFill, handled, refused, filledTime, sinceFilled>>

Accrued(t) == tokens[t] + rate * (now - lastFill[t])

MutantRefilled(t) == Accrued(t)
(* The refill at the beginning of allow *)
Refilled(t) == IF Accrued(t) > Capacity THEN Capacity ELSE Accrued(t)

Full(t) == Accrued(t) >= Capacity

MutantEnough(t) == Refilled(t) >= 0
MutantEnoughLeft(t) == Refilled(t) > Cost
Enough(t) == Refilled(t) >= Cost

(* allow returns true; the request is passed on to the export handler. *)
Allow(t) ==
  /\ Limited
  /\ handled[t] + refused[t] < MaxRequests
  /\ Enough(t)
  /\ tokens' = [tokens EXCEPT ![t] = Refilled(t) - Cost]
  /\ lastFill' = [lastFill EXCEPT ![t] = now]
  /\ handled' = [handled EXCEPT ![t] = @ + 1]
  /\ sinceMark' = [sinceMark EXCEPT ![t] = @ + 1]
  /\ filledTime' = [filledTime EXCEPT ![t] = IF Full(t) THEN now ELSE @]
  /\ sinceFilled' = [sinceFilled EXCEPT ![t] = IF Full(t) THEN 1 ELSE @ + 1]
  /\ UNCHANGED <<now, options, refused, markTime>>

(* allow returns false; the transport answers 429 or RESOURCE_EXHAUSTED.   *)
(* The span store and its statistics are not touched.                      *)
Refuse(t) ==
  /\ Limited
  /\ handled[t] + refused[t] < MaxRequests
  /\ ~Enough(t)
  /\ tokens' = [tokens EXCEPT ![t] = Refilled(t)]
  /\ lastFill' = [lastFill EXCEPT ![t] = now]
  /\ refused' = [refused EXCEPT ![t] = @ + 1]
  /\ filledTime' = [filledTime EXCEPT ![t] = IF Full(t) THEN now ELSE @]
  /\ sinceFilled' = [sinceFilled EXCEPT ![t] = IF Full(t) THEN 0 ELSE @]
  /\ UNCHANGED <<now, options, handled, markTime, sinceMark>>

(* allow on the nil bucket *)
PassUnlimited(t) ==
  /\ ~Limited
  /\ handled[t] + refused[t] < MaxRequests
  /\ handled' = [handled EXCEPT ![t] = @ + 1]
  /\ sinceMark' = [sinceMark EXCEPT ![t] = @ + 1]
  /\ UNCHANGED <<now, options, tokens, lastFill, refused, markTime, filledTime, sinceFilled>>

Next ==
  \/ Tick
  \/ \E t \in Transports : Mark(t)
  \/ \E t \in Transports : Allow(t)
  \/ \E t \in Transports : Refuse(t)
  \/ \E t \in Transports : PassUnlimited(t)

Spec == Init /\ [][Next]_vars

----------------------------------------------------------------------------
(* Properties *)

(* The values the state of a bucket can take: never below empty, never     *)
(* above the burst.                                                        *)
TypeOK ==
  /\ now \in Nat /\ rate \in Rates /\ burst \in Bursts
  /\ tokens \in [Transports -> 0..Capacity]
  /\ lastFill \in [Transports -> 0..now]
  /\ handled \in [Transports -> Nat] /\ refused \in [Transports -> Nat]
  /\ markTime \in [Transports -> 0..now] /\ sinceMark \in [Transports -> Nat]
  /\ filledTime \in [Transports -> 0..now] /\ sinceFilled \in [Transports -> Nat]

(* From any moment on, a transport has passed on no more requests than a   *)
(* full bucket and what it has gained since pay for.                       *)
RateBounded ==
  Limited => \A t \in Transports :
    Cost * sinceMark[t] <= Capacity + rate * (now - markTime[t])

(* A request is refused only when it would exceed that bound: the requests *)
(* passed on since the bucket was last full, and this one, cost more than  *)
(* the bucket held and gained.  No token is lost to how often, or when,    *)
(* requests arrive, refused ones included.                                 *)
OnlyExcessRefused ==
  [][\A t \in Transports : refused'[t] # refused[t] =>
       Cost * (sinceFilled'[t] + 1) > Capacity + rate * (now - filledTime'[t])]_vars
===============================================================================
