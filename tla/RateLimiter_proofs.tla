------------------------ MODULE RateLimiter_proofs -------------------------
(***************************************************************************)
(* Proofs about RateLimiter for any addresses, limit, window and period of *)
(* the cleanup.                                                            *)
(***************************************************************************)
EXTENDS RateLimiter, TLAPS

LEMMA UpToType ==
  ASSUME NEW n \in Nat, NEW b \in Nat
  PROVE  UpTo(n, b) \in 0 .. b /\ (n <= b => UpTo(n, b) = n)
  BY DEF UpTo

(* Every variable keeps its type: counts, ages and the ticker stay within  *)
(* the bounds at which the code's comparisons stop telling them apart.     *)
THEOREM TypeCorrect == Spec => []TypeOK
<1> USE LimiterAssumption
<1>1. Init => TypeOK
  <2> SUFFICES ASSUME Init PROVE TypeOK
    OBVIOUS
  <2>1. 0 \in 0 .. Limit + 1 /\ 0 \in 0 .. Limit + 2 /\ 0 \in 0 .. Window + 1
    OBVIOUS
  <2>2. Window + 1 \in 0 .. Window + 1 /\ Span + 1 \in 0 .. Span + 1
    OBVIOUS
  <2>3. Period \in 1 .. Period
    OBVIOUS
  <2> QED BY <2>1, <2>2, <2>3, Zenon DEF Init, TypeOK
<1>2. TypeOK /\ [Next]_vars => TypeOK'
  <2> SUFFICES ASSUME TypeOK, [Next]_vars PROVE TypeOK'
    OBVIOUS
  <2> USE DEF TypeOK
  <2>1. CASE Tick
    BY <2>1, UpToType DEF Tick, UpTo
  <2>2. CASE Cleanup
    <3> DEFINE idle == {ip \in visitors : age[ip] > Window}
    <3>1. visitors' \subseteq Ips
      BY <2>2 DEF Cleanup
    <3>2. count' \in [Ips -> 0 .. Limit + 1]
      BY <2>2 DEF Cleanup
    <3>3. age' \in [Ips -> 0 .. Window + 1]
      BY <2>2 DEF Cleanup
    <3>4. due' \in BOOLEAN
      BY <2>2 DEF Cleanup
    <3>5. UNCHANGED <<timer, verdict, pause, watch, passed>>
      BY <2>2 DEF Cleanup, observerVars
    <3> QED BY <3>1, <3>2, <3>3, <3>4, <3>5
  <2>3. ASSUME NEW ip \in Ips, StartBurst(ip) PROVE TypeOK'
    BY <2>3 DEF StartBurst, Seen, Answer, UpTo, tickerVars
  <2>4. ASSUME NEW ip \in Ips, ContinueBurst(ip) PROVE TypeOK'
    BY <2>4 DEF ContinueBurst, Seen, Answer, UpTo, tickerVars
  <2>5. ASSUME NEW ip \in Ips, Watch(ip) PROVE TypeOK'
    BY <2>5 DEF Watch, mapVars, tickerVars
  <2>6. CASE UNCHANGED vars
    BY <2>6 DEF vars, mapVars, tickerVars, observerVars
  <2> QED BY <2>1, <2>2, <2>3, <2>4, <2>5, <2>6 DEF Next, Allow
<1> QED BY <1>1, <1>2, PTL DEF Spec

(* lastSeen is the time of the last request, a visitor of the last window  *)
(* is never deleted, and its count covers what was admitted meanwhile.     *)
THEOREM CountInvariance == ASSUME Span <= Window PROVE Spec => []CountInv
<1> USE LimiterAssumption
<1>1. Init => CountInv
  <2> SUFFICES ASSUME Init, NEW ip \in Ips
               PROVE  /\ ip \notin visitors /\ pause[ip] > Window
                      /\ count[ip] = 0 /\ ~Watched(ip)
                      /\ passed[ip] <= Quota
    BY DEF CountInv
  <2>1. ip \notin visitors /\ count[ip] = 0
    BY DEF Init
  <2>2. pause[ip] > Window
    BY DEF Init
  <2>3. ~Watched(ip)
    BY DEF Init, Watched
  <2>4. passed[ip] <= Quota
    BY DEF Init, Quota
  <2> QED BY <2>1, <2>2, <2>3, <2>4
<1>2. TypeOK /\ CountInv /\ [Next]_vars => CountInv'
  <2> SUFFICES ASSUME TypeOK, CountInv, [Next]_vars PROVE CountInv'
    OBVIOUS
  <2> USE DEF TypeOK, CountInv, Watched, Quota
  <2>1. CASE Tick
    BY <2>1 DEF Tick, UpTo
  <2>2. CASE Cleanup
    BY <2>2 DEF Cleanup, observerVars
  <2>3. ASSUME NEW ip \in Ips, StartBurst(ip) PROVE CountInv'
    BY <2>3 DEF StartBurst, Seen, Answer, UpTo
  <2>4. ASSUME NEW ip \in Ips, ContinueBurst(ip) PROVE CountInv'
    BY <2>4 DEF ContinueBurst, Seen, Answer, UpTo
  <2>5. ASSUME NEW ip \in Ips, Watch(ip) PROVE CountInv'
    BY <2>5 DEF Watch, mapVars
  <2>6. CASE UNCHANGED vars
    BY <2>6 DEF vars, mapVars, tickerVars, observerVars
  <2> QED BY <2>1, <2>2, <2>3, <2>4, <2>5, <2>6 DEF Next, Allow
<1> QED BY <1>1, <1>2, TypeCorrect, PTL DEF Spec

(* No stretch of time as long as the window or shorter sees more than      *)
(* Limit admissions of an address (one, when the limit is zero).           *)
THEOREM LimitKept == ASSUME Span <= Window PROVE Spec => []LimitHolds
<1>1. CountInv => LimitHolds
  BY DEF CountInv, LimitHolds
<1> QED BY <1>1, CountInvariance, PTL

(* A client that pauses for longer than the window is admitted again,      *)
(* whether or not the cleanup has deleted it meanwhile.                    *)
THEOREM PauseAlwaysRestores ==
  ASSUME Span <= Window PROVE Spec => PauseRestores
<1> USE LimiterAssumption
<1>1. TypeOK /\ CountInv /\ [Next]_vars =>
        [\A ip \in Ips : pause[ip] > Window /\ pause'[ip] = 0 =>
           verdict'[ip] = "admitted"]_vars
  <2> SUFFICES ASSUME TypeOK, CountInv, Next, NEW ip \in Ips,
                      pause[ip] > Window, pause'[ip] = 0
               PROVE  verdict'[ip] = "admitted"
    OBVIOUS
  <2>0. pause[ip] # 0
    BY DEF TypeOK
  <2> USE DEF TypeOK
  <2>1. CASE Tick
    BY <2>1 DEF Tick, UpTo
  <2>2. CASE Cleanup
    BY <2>0, <2>2 DEF Cleanup, observerVars
  <2>3. ASSUME NEW a \in Ips, StartBurst(a) PROVE verdict'[ip] = "admitted"
    BY <2>0, <2>3 DEF StartBurst, Answer
  <2>4. ASSUME NEW a \in Ips, ContinueBurst(a) PROVE verdict'[ip] = "admitted"
    BY <2>0, <2>4 DEF ContinueBurst, Answer, CountInv
  <2>5. ASSUME NEW a \in Ips, Watch(a) PROVE verdict'[ip] = "admitted"
    BY <2>0, <2>5 DEF Watch
  <2> QED BY <2>1, <2>2, <2>3, <2>4, <2>5 DEF Next, Allow
<1> QED BY <1>1, TypeCorrect, CountInvariance, PTL DEF Spec, PauseRestores

(* The limiter implements BurstLimit: neither the map nor its cleanup, at  *)
(* whatever times its ticker fires, changes an answer.                     *)
THEOREM ImplementsBurst == ASSUME Span <= Window PROVE Spec => BurstSpec
<1> USE LimiterAssumption
<1> DEFINE burst == [ip \in Ips |-> IF pause[ip] > Window THEN 0 ELSE count[ip]]
<1>1. Init => Burst!Init
  BY DEF Init, Burst!Init
<1>2. TypeOK /\ CountInv /\ [Next]_vars => [Burst!Next]_Burst!vars
  <2> SUFFICES ASSUME TypeOK, CountInv, [Next]_vars
               PROVE  [Burst!Next]_<<burst, pause, verdict>>
    BY DEF Burst!vars
  <2> USE DEF TypeOK, CountInv
  <2>1. CASE Tick
    BY <2>1 DEF Tick, UpTo, Burst!Tick, Burst!Next
  <2>2. CASE Cleanup
    BY <2>2 DEF Cleanup, observerVars
  <2>3. ASSUME NEW ip \in Ips, StartBurst(ip) PROVE Burst!Ask(ip)
    <3>1. burst[ip] = 0
      BY <2>3 DEF StartBurst
    <3>2. burst' = [burst EXCEPT ![ip] = 1]
      <4>1. /\ count' = [count EXCEPT ![ip] = 1]
            /\ pause' = [pause EXCEPT ![ip] = 0]
        BY <2>3 DEF StartBurst, Seen, Answer
      <4>2. ASSUME NEW a \in Ips
            PROVE  (IF pause'[a] > Window THEN 0 ELSE count'[a])
                     = IF a = ip THEN 1 ELSE burst[a]
        BY <4>1
      <4> QED BY <4>2
    <3>3. /\ pause' = [pause EXCEPT ![ip] = 0]
          /\ verdict' = [verdict EXCEPT ![ip] = "admitted"]
      BY <2>3 DEF StartBurst, Answer
    <3> HIDE DEF burst
    <3>4. burst' = [burst EXCEPT ![ip] = IF @ <= Limit THEN @ + 1 ELSE @]
      BY <3>1, <3>2
    <3>5. verdict' = [verdict EXCEPT ![ip] =
            IF burst[ip] = 0 \/ burst[ip] < Limit THEN "admitted" ELSE "rejected"]
      BY <3>1, <3>3
    <3> QED BY <3>3, <3>4, <3>5 DEF Burst!Ask, burst
  <2>4. ASSUME NEW ip \in Ips, ContinueBurst(ip) PROVE Burst!Ask(ip)
    <3>1. burst[ip] = count[ip] /\ count[ip] > 0
      BY <2>4 DEF ContinueBurst
    <3>2. burst' = [burst EXCEPT ![ip] = UpTo(count[ip] + 1, Limit + 1)]
      <4>1. /\ count' = [count EXCEPT ![ip] = UpTo(count[ip] + 1, Limit + 1)]
            /\ pause' = [pause EXCEPT ![ip] = 0]
        BY <2>4 DEF ContinueBurst, Seen, Answer
      <4>2. ASSUME NEW a \in Ips
            PROVE  (IF pause'[a] > Window THEN 0 ELSE count'[a])
                     = IF a = ip THEN UpTo(count[ip] + 1, Limit + 1) ELSE burst[a]
        BY <4>1
      <4> QED BY <4>2
    <3>3. UpTo(count[ip] + 1, Limit + 1) =
            IF count[ip] <= Limit THEN count[ip] + 1 ELSE count[ip]
      BY DEF UpTo
    <3>4. /\ pause' = [pause EXCEPT ![ip] = 0]
          /\ verdict' = [verdict EXCEPT ![ip] =
               IF count[ip] + 1 <= Limit THEN "admitted" ELSE "rejected"]
      BY <2>4 DEF ContinueBurst, Answer
    <3>5. count[ip] + 1 <= Limit <=> count[ip] < Limit
      OBVIOUS
    <3> HIDE DEF burst
    <3>6. burst' = [burst EXCEPT ![ip] = IF @ <= Limit THEN @ + 1 ELSE @]
      BY <3>1, <3>2, <3>3
    <3>7. verdict' = [verdict EXCEPT ![ip] =
            IF burst[ip] = 0 \/ burst[ip] < Limit THEN "admitted" ELSE "rejected"]
      <4>1. (burst[ip] = 0 \/ burst[ip] < Limit) <=> count[ip] + 1 <= Limit
        BY <3>1, <3>5
      <4>2. (IF burst[ip] = 0 \/ burst[ip] < Limit THEN "admitted" ELSE "rejected")
              = IF count[ip] + 1 <= Limit THEN "admitted" ELSE "rejected"
        BY <4>1
      <4> QED BY <3>4, <4>2
    <3> QED BY <3>4, <3>6, <3>7 DEF Burst!Ask, burst
  <2>5. ASSUME NEW ip \in Ips, Watch(ip)
        PROVE  UNCHANGED <<burst, pause, verdict>>
    BY <2>5 DEF Watch, mapVars
  <2>6. CASE UNCHANGED vars
    BY <2>6 DEF vars, mapVars, observerVars
  <2> QED BY <2>1, <2>2, <2>3, <2>4, <2>5, <2>6 DEF Next, Allow, Burst!Next
<1> QED BY <1>1, <1>2, TypeCorrect, CountInvariance, PTL
        DEF Spec, BurstSpec, Burst!Spec
=============================================================================
