---------------------------- MODULE RateLimitProofs ----------------------------
(***************************************************************************)
(* Proofs about RateLimit, for any rate, burst, cost of a request and set  *)
(* of transports, and without bounds on time or requests other than those  *)
(* the module states.                                                      *)
(*                                                                         *)
(* RateBounded is not inductive: that few requests were passed on says     *)
(* nothing of the tokens left to pass on more.  Paid adds them: what was   *)
(* spent since the mark and what the bucket would hold if it were refilled *)
(* now do not exceed what a full bucket gained since.  Exact is the other  *)
(* direction, an equation: every unit gained since the bucket was last     *)
(* full has been spent or is in it.                                        *)
(***************************************************************************)
EXTENDS RateLimit, TLAPS

Paid ==
  Limited => \A t \in Transports :
    Cost * sinceMark[t] + Refilled(t) <= Capacity + rate * (now - markTime[t])

Exact ==
  Limited => \A t \in Transports :
    Cost * sinceFilled[t] + tokens[t] = Capacity + rate * (lastFill[t] - filledTime[t])

IInv == TypeOK /\ Paid /\ Exact

----------------------------------------------------------------------------
(* Products, which the provers take for uninterpreted in a larger context  *)
LEMMA Product ==
  ASSUME NEW x \in Nat, NEW y \in Nat
  PROVE  x * y \in Nat
  BY SMT

LEMMA OneMore ==
  ASSUME NEW x \in Int, NEW y \in Int, NEW z \in Int
  PROVE  x * ((y + 1) - z) = x * (y - z) + x
  BY SMT

LEMMA SumOfGaps ==
  ASSUME NEW w \in Int, NEW x \in Int, NEW y \in Int, NEW z \in Int
  PROVE  w * (x - z) = w * (x - y) + w * (y - z)
  BY SMT

(* What a bucket holds after a refill is between nothing and its capacity. *)
LEMMA RefillBounds ==
  ASSUME TypeOK, NEW t \in Transports
  PROVE  /\ Capacity \in Nat
         /\ Accrued(t) \in Nat
         /\ Refilled(t) \in 0..Capacity
         /\ Refilled(t) <= Accrued(t)
  <1>1. Cost \in Nat /\ burst \in Nat /\ rate \in Nat
    BY RateAssumption DEF TypeOK
  <1>2. Capacity \in Nat
    BY <1>1, Product DEF Capacity
  <1>3. now - lastFill[t] \in Nat /\ tokens[t] \in 0..Capacity
    BY <1>2 DEF TypeOK
  <1>4. rate * (now - lastFill[t]) \in Nat
    BY <1>1, <1>3, Product
  <1>5. Accrued(t) \in Nat
    BY <1>2, <1>3, <1>4 DEF Accrued
  <1> QED
    BY <1>2, <1>5 DEF Refilled

LEMMA InitInv == Init => IInv
  <1> SUFFICES ASSUME Init PROVE IInv
    OBVIOUS
  <1>1. Cost \in Nat /\ burst \in Nat /\ rate \in Nat
    BY RateAssumption DEF Init
  <1>2. Capacity \in Nat
    BY <1>1, Product DEF Capacity
  <1>3. TypeOK
    BY <1>1, <1>2 DEF Init, TypeOK
  <1>4. Paid
    <2> SUFFICES ASSUME NEW t \in Transports
                 PROVE  Cost * sinceMark[t] + Refilled(t) <= Capacity + rate * (now - markTime[t])
      BY DEF Paid
    <2>1. sinceMark[t] = 0 /\ now - markTime[t] = 0
      BY DEF Init
    <2>2. Refilled(t) \in 0..Capacity
      BY <1>3, RefillBounds
    <2> QED
      BY <1>1, <1>2, <2>1, <2>2
  <1>5. Exact
    <2> SUFFICES ASSUME NEW t \in Transports
                 PROVE  Cost * sinceFilled[t] + tokens[t]
                          = Capacity + rate * (lastFill[t] - filledTime[t])
      BY DEF Exact
    <2>1. sinceFilled[t] = 0 /\ tokens[t] = Capacity /\ lastFill[t] - filledTime[t] = 0
      BY DEF Init
    <2> QED
      BY <1>1, <1>2, <2>1
  <1> QED
    BY <1>3, <1>4, <1>5 DEF IInv

(* Facts every step shares: the options never change. *)
LEMMA OptionsFixed ==
  ASSUME TypeOK, UNCHANGED options
  PROVE  /\ Cost \in Nat \ {0} /\ rate \in Nat /\ burst \in Nat
         /\ rate' = rate /\ burst' = burst
         /\ Capacity \in Nat /\ Capacity' = Capacity /\ Limited' = Limited
  <1>1. Cost \in Nat \ {0} /\ rate \in Nat /\ burst \in Nat
    BY RateAssumption DEF TypeOK
  <1>2. rate' = rate /\ burst' = burst
    BY DEF options
  <1>3. Capacity \in Nat
    BY <1>1, Product DEF Capacity
  <1> QED
    BY <1>1, <1>2, <1>3 DEF Capacity, Limited

LEMMA TickStep == IInv /\ Tick => IInv'
  <1> SUFFICES ASSUME IInv, Tick PROVE IInv'
    OBVIOUS
  <1>0. UNCHANGED options /\ TypeOK
    BY DEF Tick, IInv
  <1>1. /\ Cost \in Nat \ {0} /\ rate \in Nat /\ burst \in Nat
        /\ rate' = rate /\ burst' = burst
        /\ Capacity \in Nat /\ Capacity' = Capacity /\ Limited' = Limited
    BY <1>0, OptionsFixed
  <1>a. rate \in Int
    BY <1>1
  <1>2. TypeOK'
    BY <1>0, <1>1 DEF Tick, TypeOK
  <1>3. Paid'
    <2> SUFFICES ASSUME Limited, NEW t \in Transports
                 PROVE  (Cost * sinceMark[t] + Refilled(t) <= Capacity + rate * (now - markTime[t]))'
      BY <1>1 DEF Paid
    <2>1. Cost * sinceMark[t] + Refilled(t) <= Capacity + rate * (now - markTime[t])
      BY DEF IInv, Paid
    <2>2. /\ now' = now + 1 /\ tokens' = tokens /\ lastFill' = lastFill
          /\ sinceMark' = sinceMark /\ markTime' = markTime
      BY DEF Tick
    <2>3. now \in Int /\ lastFill[t] \in Int /\ markTime[t] \in Int /\ tokens[t] \in Int
          /\ sinceMark[t] \in Nat
      BY <1>0, <1>1 DEF TypeOK
    <2>4. Accrued(t)' = Accrued(t) + rate
      <3>1. rate * ((now + 1) - lastFill[t]) = rate * (now - lastFill[t]) + rate
        BY <1>a, <2>3, OneMore, Zenon
      <3>2. rate * (now - lastFill[t]) \in Int
        BY <1>1, <2>3
      <3> QED
        BY <1>1, <2>2, <2>3, <3>1, <3>2 DEF Accrued
    <2>5. /\ Accrued(t) \in Nat /\ Refilled(t) \in 0..Capacity
      BY <1>0, RefillBounds
    <2>6. Refilled(t)' <= Refilled(t) + rate
      BY <1>1, <2>4, <2>5 DEF Refilled
    <2>7. (rate * (now - markTime[t]))' = rate * (now - markTime[t]) + rate
      <3>1. rate * ((now + 1) - markTime[t]) = rate * (now - markTime[t]) + rate
        BY <1>a, <2>3, OneMore, Zenon
      <3> QED
        BY <1>1, <2>2, <3>1
    <2>8. Refilled(t)' \in Int
      BY <1>1, <2>4, <2>5 DEF Refilled
    <2>9. Cost * sinceMark[t] \in Int /\ rate * (now - markTime[t]) \in Int
      BY <1>1, <2>3
    <2> QED
      BY <1>1, <2>1, <2>2, <2>5, <2>6, <2>7, <2>8, <2>9
  <1>4. Exact'
    BY <1>1 DEF Tick, IInv, Exact
  <1> QED
    BY <1>2, <1>3, <1>4 DEF IInv

LEMMA MarkStep ==
  ASSUME IInv, NEW t \in Transports, Mark(t)
  PROVE  IInv'
  <1>0. UNCHANGED options /\ TypeOK
    BY DEF Mark, IInv
  <1>1. /\ Cost \in Nat \ {0} /\ rate \in Nat /\ burst \in Nat
        /\ rate' = rate /\ burst' = burst
        /\ Capacity \in Nat /\ Capacity' = Capacity /\ Limited' = Limited
    BY <1>0, OptionsFixed
  <1>2. TypeOK'
    BY <1>0, <1>1 DEF Mark, TypeOK
  <1>3. Paid'
    <2> SUFFICES ASSUME Limited, NEW u \in Transports
                 PROVE  (Cost * sinceMark[u] + Refilled(u) <= Capacity + rate * (now - markTime[u]))'
      BY <1>1 DEF Paid
    <2>1. Refilled(u)' = Refilled(u)
      BY <1>1 DEF Mark, Refilled, Accrued
    <2>2. Refilled(u) \in 0..Capacity
      BY <1>0, RefillBounds
    <2>3. CASE u = t
      <3>1. sinceMark'[u] = 0 /\ now' - markTime'[u] = 0
        BY <1>0, <2>3 DEF Mark, TypeOK
      <3> QED
        BY <1>1, <2>1, <2>2, <3>1
    <2>4. CASE u # t
      <3>1. sinceMark'[u] = sinceMark[u] /\ now' = now /\ markTime'[u] = markTime[u]
        BY <1>0, <2>4 DEF Mark, TypeOK
      <3> QED
        BY <1>1, <2>1, <3>1 DEF IInv, Paid
    <2> QED
      BY <2>3, <2>4
  <1>4. Exact'
    BY <1>1 DEF Mark, IInv, Exact
  <1> QED
    BY <1>2, <1>3, <1>4 DEF IInv

(* A call of allow that passes on k requests, one or none *)
LEMMA AllowStep ==
  ASSUME IInv, Limited, NEW t \in Transports, NEW k \in {0, 1},
         Cost * k <= Refilled(t),
         UNCHANGED <<now, options, markTime>>,
         tokens' = [tokens EXCEPT ![t] = Refilled(t) - Cost * k],
         lastFill' = [lastFill EXCEPT ![t] = now],
         sinceMark' = [sinceMark EXCEPT ![t] = @ + k],
         filledTime' = [filledTime EXCEPT ![t] = IF Full(t) THEN now ELSE @],
         sinceFilled' = [sinceFilled EXCEPT ![t] = IF Full(t) THEN k ELSE @ + k],
         handled' \in [Transports -> Nat], refused' \in [Transports -> Nat]
  PROVE  IInv'
  <1>0. UNCHANGED options /\ TypeOK
    BY DEF IInv
  <1>1. /\ Cost \in Nat \ {0} /\ rate \in Nat /\ burst \in Nat
        /\ rate' = rate /\ burst' = burst
        /\ Capacity \in Nat /\ Capacity' = Capacity /\ Limited' = Limited
    BY <1>0, OptionsFixed
  <1>2. Accrued(t) \in Nat /\ Refilled(t) \in 0..Capacity
    BY <1>0, RefillBounds
  <1>3. Cost * k \in Nat /\ Refilled(t) - Cost * k \in 0..Capacity
    BY <1>1, <1>2
  <1>4. TypeOK'
    <2>1. tokens' \in [Transports -> 0..Capacity']
      BY <1>0, <1>1, <1>3 DEF TypeOK
    <2>2. lastFill' \in [Transports -> 0..now'] /\ filledTime' \in [Transports -> 0..now']
      BY <1>0 DEF TypeOK
    <2>3. sinceMark' \in [Transports -> Nat] /\ sinceFilled' \in [Transports -> Nat]
      BY <1>0 DEF TypeOK
    <2>4. now' \in Nat /\ rate' \in Rates /\ burst' \in Bursts
          /\ markTime' \in [Transports -> 0..now']
      BY <1>0, <1>1 DEF TypeOK
    <2> QED
      BY <2>1, <2>2, <2>3, <2>4 DEF TypeOK
  <1>5. tokens'[t] = Refilled(t) - Cost * k /\ lastFill'[t] = now /\ sinceMark'[t] = sinceMark[t] + k
    BY <1>0 DEF TypeOK
  <1>6. \A u \in Transports \ {t} :
           /\ tokens'[u] = tokens[u] /\ lastFill'[u] = lastFill[u]
           /\ sinceMark'[u] = sinceMark[u] /\ filledTime'[u] = filledTime[u]
           /\ sinceFilled'[u] = sinceFilled[u]
    BY <1>0 DEF TypeOK
  <1>7. Paid'
    <2> SUFFICES ASSUME NEW u \in Transports
                 PROVE  (Cost * sinceMark[u] + Refilled(u) <= Capacity + rate * (now - markTime[u]))'
      BY DEF Paid
    <2>1. Cost * sinceMark[u] + Refilled(u) <= Capacity + rate * (now - markTime[u])
      BY DEF IInv, Paid
    <2>2. CASE u = t
      <3>1. now \in Int /\ sinceMark[t] \in Nat
        BY <1>0 DEF TypeOK
      <3>2. Refilled(t)' = Refilled(t) - Cost * k
        <4>1. Accrued(t)' = Refilled(t) - Cost * k
          BY <1>1, <1>2, <1>3, <1>5, <3>1 DEF Accrued
        <4> QED
          BY <1>1, <1>3, <4>1 DEF Refilled
      <3>3. Cost * (sinceMark[t] + k) = Cost * sinceMark[t] + Cost * k
        BY <1>1, <3>1
      <3>4. Cost * sinceMark[t] \in Int
        BY <1>1, <3>1
      <3> QED
        BY <1>1, <1>2, <1>3, <1>5, <2>1, <2>2, <3>2, <3>3, <3>4
    <2>3. CASE u # t
      <3>1. Refilled(u)' = Refilled(u)
        BY <1>1, <1>6, <2>3 DEF Refilled, Accrued
      <3> QED
        BY <1>1, <1>6, <2>1, <2>3, <3>1
    <2> QED
      BY <2>2, <2>3
  <1>8. Exact'
    <2> SUFFICES ASSUME NEW u \in Transports
                 PROVE  (Cost * sinceFilled[u] + tokens[u] = Capacity + rate * (lastFill[u] - filledTime[u]))'
      BY DEF Exact
    <2>1. Cost * sinceFilled[u] + tokens[u] = Capacity + rate * (lastFill[u] - filledTime[u])
      BY DEF IInv, Exact
    <2>2. CASE u # t
      <3>1. /\ sinceFilled'[u] = sinceFilled[u] /\ tokens'[u] = tokens[u]
            /\ lastFill'[u] = lastFill[u] /\ filledTime'[u] = filledTime[u]
        BY <1>6, <2>2
      <3> QED
        BY <1>1, <2>1, <3>1
    <2>3. CASE u = t /\ Full(t)
      <3>1. Refilled(t) = Capacity
        BY <1>1, <1>2, <2>3 DEF Full, Refilled
      <3>2. sinceFilled'[t] = k /\ filledTime'[t] = now /\ lastFill'[t] - filledTime'[t] = 0
        BY <1>0, <1>5, <2>3 DEF TypeOK
      <3> QED
        BY <1>1, <1>3, <1>5, <2>3, <3>1, <3>2
    <2>4. CASE u = t /\ ~Full(t)
      <3>1. Refilled(t) = tokens[t] + rate * (now - lastFill[t])
        BY <1>1, <1>2, <2>4 DEF Full, Refilled, Accrued
      <3>2. sinceFilled'[t] = sinceFilled[t] + k /\ filledTime'[t] = filledTime[t]
        BY <1>0, <2>4 DEF TypeOK
      <3>3. /\ now \in Int /\ lastFill[t] \in Int /\ filledTime[t] \in Int
            /\ sinceFilled[t] \in Int /\ tokens[t] \in Int
        BY <1>0, <1>1 DEF TypeOK
      <3>4. rate * (now - filledTime[t])
              = rate * (now - lastFill[t]) + rate * (lastFill[t] - filledTime[t])
        BY <1>1, <3>3, SumOfGaps
      <3>5. Cost * (sinceFilled[t] + k) = Cost * sinceFilled[t] + Cost * k
        BY <1>1, <3>3
      <3>6. /\ Cost * sinceFilled[t] \in Int /\ rate * (now - lastFill[t]) \in Int
            /\ rate * (lastFill[t] - filledTime[t]) \in Int
        BY <1>1, <3>3
      <3>7. Cost * sinceFilled[t] + tokens[t] = Capacity + rate * (lastFill[t] - filledTime[t])
        BY <2>1, <2>4
      <3>8. Cost * k \in Int /\ Cost * (sinceFilled[t] + k) \in Int
            /\ rate * (now - filledTime[t]) \in Int /\ Refilled(t) \in Int /\ Capacity \in Int
        BY <1>1, <1>2, <1>3, <3>3
      <3>9. Cost * (sinceFilled[t] + k) + (Refilled(t) - Cost * k)
              = Capacity + rate * (now - filledTime[t])
        <4> DEFINE spent == Cost * sinceFilled[t]
                   price == Cost * k
                   total == Cost * (sinceFilled[t] + k)
                   gained == rate * (now - lastFill[t])
                   before == rate * (lastFill[t] - filledTime[t])
                   since == rate * (now - filledTime[t])
                   filled == Refilled(t)
                   held == tokens[t]
                   full == Capacity
        <4>1. /\ spent \in Int /\ price \in Int /\ total \in Int /\ gained \in Int
              /\ before \in Int /\ since \in Int /\ filled \in Int /\ held \in Int
              /\ full \in Int
          BY <3>3, <3>6, <3>8
        <4>2. /\ total = spent + price /\ filled = held + gained
              /\ since = gained + before /\ spent + held = full + before
          BY <3>1, <3>4, <3>5, <3>7
        <4> HIDE DEF spent, price, total, gained, before, since, filled, held, full
        <4>3. total + (filled - price) = full + since
          BY <4>1, <4>2
        <4> QED
          BY <4>3 DEF spent, price, total, gained, before, since, filled, held, full
      <3> QED
        BY <1>1, <1>5, <2>4, <3>2, <3>9
    <2> QED
      BY <2>2, <2>3, <2>4
  <1> QED
    BY <1>4, <1>7, <1>8 DEF IInv

LEMMA Allowed ==
  ASSUME IInv, NEW t \in Transports, Allow(t)
  PROVE  IInv'
  <1>1. Limited /\ Cost * 1 <= Refilled(t) /\ Cost * 1 = Cost
    <2>1. Cost \in Nat
      BY RateAssumption
    <2> QED
      BY <2>1 DEF Allow, Enough
  <1>2. handled' \in [Transports -> Nat] /\ refused' \in [Transports -> Nat]
    BY DEF Allow, IInv, TypeOK
  <1>3. /\ tokens' = [tokens EXCEPT ![t] = Refilled(t) - Cost * 1]
        /\ lastFill' = [lastFill EXCEPT ![t] = now]
        /\ sinceMark' = [sinceMark EXCEPT ![t] = @ + 1]
        /\ filledTime' = [filledTime EXCEPT ![t] = IF Full(t) THEN now ELSE @]
        /\ sinceFilled' = [sinceFilled EXCEPT ![t] = IF Full(t) THEN 1 ELSE @ + 1]
        /\ UNCHANGED <<now, options, markTime>>
    BY <1>1 DEF Allow
  <1> QED
    BY <1>1, <1>2, <1>3, AllowStep

LEMMA Refused ==
  ASSUME IInv, NEW t \in Transports, Refuse(t)
  PROVE  /\ IInv'
         /\ Cost * (sinceFilled'[t] + 1) > Capacity + rate * (now - filledTime'[t])
  <1>0. TypeOK /\ UNCHANGED options
    BY DEF IInv, Refuse
  <1>1. /\ Cost \in Nat \ {0} /\ rate \in Nat /\ burst \in Nat
        /\ rate' = rate /\ burst' = burst
        /\ Capacity \in Nat /\ Capacity' = Capacity /\ Limited' = Limited
    BY <1>0, OptionsFixed
  <1>2. Refilled(t) \in 0..Capacity
    BY <1>0, RefillBounds
  <1>3. /\ Cost * 0 = 0 /\ Refilled(t) - Cost * 0 = Refilled(t) /\ Cost * 0 <= Refilled(t)
    BY <1>1, <1>2
  <1>4. handled' \in [Transports -> Nat] /\ refused' \in [Transports -> Nat]
    BY <1>0 DEF Refuse, TypeOK
  <1>5. sinceMark' = [sinceMark EXCEPT ![t] = @ + 0]
    BY <1>0 DEF Refuse, TypeOK
  <1>6. sinceFilled' = [sinceFilled EXCEPT ![t] = IF Full(t) THEN 0 ELSE @ + 0]
    <2>1. sinceFilled[t] + 0 = sinceFilled[t]
      BY <1>0 DEF TypeOK
    <2> QED
      BY <2>1 DEF Refuse
  <1>7. /\ Limited
        /\ tokens' = [tokens EXCEPT ![t] = Refilled(t) - Cost * 0]
        /\ lastFill' = [lastFill EXCEPT ![t] = now]
        /\ filledTime' = [filledTime EXCEPT ![t] = IF Full(t) THEN now ELSE @]
        /\ UNCHANGED <<now, options, markTime>>
    BY <1>3 DEF Refuse
  <1>8. IInv'
    BY <1>3, <1>4, <1>5, <1>6, <1>7, AllowStep
  <1>9. tokens'[t] < Cost /\ tokens'[t] \in Int /\ lastFill'[t] = now
    BY <1>0, <1>1, <1>2 DEF Refuse, Enough, TypeOK
  <1>10. Cost * sinceFilled'[t] + tokens'[t] = Capacity + rate * (now - filledTime'[t])
    BY <1>1, <1>7, <1>8, <1>9 DEF IInv, Exact
  <1>11. sinceFilled'[t] \in Int /\ now \in Int /\ filledTime'[t] \in Int
    BY <1>0, <1>8 DEF IInv, TypeOK
  <1>12. Cost * (sinceFilled'[t] + 1) = Cost * sinceFilled'[t] + Cost
         /\ Cost * sinceFilled'[t] \in Int /\ rate * (now - filledTime'[t]) \in Int
    BY <1>1, <1>11
  <1> QED
    BY <1>1, <1>8, <1>9, <1>10, <1>12

LEMMA PassStep ==
  ASSUME IInv, NEW t \in Transports, PassUnlimited(t)
  PROVE  IInv'
  <1>0. UNCHANGED options /\ TypeOK
    BY DEF PassUnlimited, IInv
  <1>1. /\ rate' = rate /\ burst' = burst
        /\ Capacity' = Capacity /\ Limited' = Limited
    BY <1>0, OptionsFixed
  <1>2. TypeOK'
    BY <1>0, <1>1 DEF PassUnlimited, TypeOK
  <1> QED
    BY <1>1, <1>2 DEF PassUnlimited, IInv, Paid, Exact

LEMMA StutterStep == IInv /\ UNCHANGED vars => IInv'
  BY DEF IInv, TypeOK, Paid, Exact, Limited, Capacity, Refilled, Accrued, vars

LEMMA NextInv == IInv /\ [Next]_vars => IInv'
  <1> SUFFICES ASSUME IInv, [Next]_vars PROVE IInv'
    OBVIOUS
  <1>1. CASE Tick
    BY <1>1, TickStep
  <1>2. CASE \E t \in Transports : Mark(t)
    BY <1>2, MarkStep
  <1>3. CASE \E t \in Transports : Allow(t)
    BY <1>3, Allowed
  <1>4. CASE \E t \in Transports : Refuse(t)
    BY <1>4, Refused
  <1>5. CASE \E t \in Transports : PassUnlimited(t)
    BY <1>5, PassStep
  <1>6. CASE UNCHANGED vars
    BY <1>6, StutterStep
  <1> QED
    BY <1>1, <1>2, <1>3, <1>4, <1>5, <1>6 DEF Next

(* The inductive invariant holds in every reachable state. *)
THEOREM Invariance == Spec => []IInv
  BY InitInv, NextInv, PTL DEF Spec

----------------------------------------------------------------------------
(* A bucket never holds less than nothing or more than its burst.          *)
THEOREM TypeCorrect == Spec => []TypeOK
  <1>1. IInv => TypeOK
    BY DEF IInv
  <1> QED
    BY <1>1, Invariance, PTL

LEMMA PaidBounds == IInv => RateBounded
  <1> SUFFICES ASSUME IInv, Limited, NEW t \in Transports
               PROVE  Cost * sinceMark[t] <= Capacity + rate * (now - markTime[t])
    BY DEF RateBounded
  <1>1. Cost * sinceMark[t] + Refilled(t) <= Capacity + rate * (now - markTime[t])
    BY DEF IInv, Paid
  <1>2. Capacity \in Nat /\ Refilled(t) \in 0..Capacity
    BY RefillBounds DEF IInv
  <1>3. Cost \in Nat /\ sinceMark[t] \in Nat /\ rate \in Nat /\ now \in Int /\ markTime[t] \in Int
    BY RateAssumption DEF IInv, TypeOK
  <1>4. Cost * sinceMark[t] \in Int /\ rate * (now - markTime[t]) \in Int
    BY <1>3
  <1> QED
    BY <1>1, <1>2, <1>4

(* Of any rate and burst: in no interval does a transport pass on more     *)
(* requests than the burst and the interval's share of the rate.           *)
THEOREM RateHolds == Spec => []RateBounded
  BY Invariance, PaidBounds, PTL

LEMMA RefusalStep ==
  IInv /\ [Next]_vars =>
    \A t \in Transports : refused'[t] # refused[t] =>
       Cost * (sinceFilled'[t] + 1) > Capacity + rate * (now - filledTime'[t])
  <1> SUFFICES ASSUME IInv, [Next]_vars, NEW t \in Transports, refused'[t] # refused[t]
               PROVE  Cost * (sinceFilled'[t] + 1) > Capacity + rate * (now - filledTime'[t])
    OBVIOUS
  <1>1. Refuse(t)
    <2>1. \E u \in Transports : Refuse(u)
      BY DEF Next, vars, Tick, Mark, Allow, PassUnlimited
    <2>2. PICK u \in Transports : Refuse(u)
      BY <2>1
    <2>3. u = t
      BY <2>2 DEF Refuse, IInv, TypeOK
    <2> QED
      BY <2>2, <2>3
  <1> QED
    BY <1>1, Refused

(* No request is refused that the burst and the rate allowed.              *)
THEOREM RefusalJustified == Spec => OnlyExcessRefused
  <1>1. IInv /\ [Next]_vars =>
          [\A t \in Transports : refused'[t] # refused[t] =>
             Cost * (sinceFilled'[t] + 1) > Capacity + rate * (now - filledTime'[t])]_vars
    BY RefusalStep
  <1> QED
    BY <1>1, Invariance, PTL DEF Spec, OnlyExcessRefused
===============================================================================
