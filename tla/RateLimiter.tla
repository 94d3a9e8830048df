---------------------------- MODULE RateLimiter ----------------------------
(***************************************************************************)
(* The rate limiter of internal/middleware/ratelimit.go: a map of visitors *)
(* by client address, each with a count and the time it was last seen,     *)
(* read and updated under one mutex by every request (Allow) and by a      *)
(* goroutine that deletes idle visitors whenever its ticker fires.         *)
(*                                                                         *)
(* Time advances in ticks.  The code only asks whether more than Window    *)
(* has passed since lastSeen, and whether the count is within the limit,   *)
(* so ages stop at Window + 1 and counts at Limit + 1.                     *)
(***************************************************************************)
EXTENDS Naturals

CONSTANTS
  Ips,      \* client addresses
  Limit,    \* requests admitted per window; a negative limit installs nothing
  Window,   \* the window in ticks (a minute)
  Period,   \* the period of the cleanup ticker in ticks (ten minutes)
  Span      \* the time an observer watches an address, for the properties

ASSUME LimiterAssumption ==
  /\ Limit \in Nat
  /\ Window \in Nat \ {0}
  /\ Period \in Nat \ {0}
  /\ Span \in Nat

VARIABLES
  visitors,  \* the addresses in the map
  count,     \* count[ip]: the requests counted, up to Limit + 1
  age,       \* age[ip]: the time since lastSeen, up to Window + 1
  timer,     \* the time until the ticker fires
  due,       \* the ticker's channel holds a tick
  verdict,   \* verdict[ip]: what the last request was told
  pause,     \* pause[ip]: the time since the last request, up to Window + 1
  watch,     \* watch[ip]: how long the observer has watched; Span + 1: not
  passed     \* passed[ip]: requests admitted meanwhile, up to Limit + 2

mapVars == <<visitors, count, age>>
tickerVars == <<timer, due>>
observerVars == <<verdict, pause, watch, passed>>
vars == <<mapVars, tickerVars, observerVars>>

UpTo(n, bound) == IF n < bound THEN n ELSE bound

Init ==
  /\ visitors = {}
  /\ count = [ip \in Ips |-> 0]
  /\ age = [ip \in Ips |-> 0]
  /\ timer = Period
  /\ due = FALSE
  /\ verdict = [ip \in Ips |-> "none"]
  /\ pause = [ip \in Ips |-> Window + 1]
  /\ watch = [ip \in Ips |-> Span + 1]
  /\ passed = [ip \in Ips |-> 0]

Watched(ip) == watch[ip] <= Span

\* A request of ip is answered, and the observer notes it.
Answer(ip, ok) ==
  /\ verdict' = [verdict EXCEPT ![ip] = IF ok THEN "admitted" ELSE "rejected"]
  /\ pause' = [pause EXCEPT ![ip] = 0]
  /\ passed' = [passed EXCEPT ![ip] =
                 IF Watched(ip) /\ ok THEN UpTo(@ + 1, Limit + 2) ELSE @]
  /\ UNCHANGED watch

\* The entry of ip becomes a visitor seen now, with a count of n.
Seen(ip, n) ==
  /\ visitors' = visitors \cup {ip}
  /\ count' = [count EXCEPT ![ip] = n]
  /\ age' = [age EXCEPT ![ip] = 0]

\* Allow, for an unknown visitor or one not seen within the window: admitted
\* whatever the limit.
StartBurst(ip) ==
  /\ ip \in visitors => age[ip] > Window
  /\ Seen(ip, 1) /\ Answer(ip, TRUE)
  /\ UNCHANGED tickerVars

\* Fault: counts are compared before they are incremented.
ContinueBurstOffByOne(ip) ==
  /\ ip \in visitors /\ age[ip] <= Window
  /\ Seen(ip, UpTo(count[ip] + 1, Limit + 1))
  /\ Answer(ip, count[ip] <= Limit)
  /\ UNCHANGED tickerVars

\* Allow, within the window: a rejected request is counted and keeps the
\* visitor seen as well.
ContinueBurst(ip) ==
  /\ ip \in visitors /\ age[ip] <= Window
  /\ Seen(ip, UpTo(count[ip] + 1, Limit + 1))
  /\ Answer(ip, count[ip] + 1 <= Limit)
  /\ UNCHANGED tickerVars

Allow(ip) == StartBurst(ip) \/ ContinueBurst(ip)

\* Fault: cleanup empties the map.
CleanupAll ==
  /\ due /\ due' = FALSE
  /\ visitors' = {}
  /\ count' = [ip \in Ips |-> 0]
  /\ age' = [ip \in Ips |-> 0]
  /\ UNCHANGED <<timer, observerVars>>

\* Fault: cleanup deletes only the visitors that used up their limit.
CleanupSpent ==
  LET idle == {ip \in visitors : age[ip] > Window /\ count[ip] > Limit}
  IN  /\ due /\ due' = FALSE
      /\ visitors' = visitors \ idle
      /\ count' = [ip \in Ips |-> IF ip \in idle THEN 0 ELSE count[ip]]
      /\ age' = [ip \in Ips |-> IF ip \in idle THEN 0 ELSE age[ip]]
      /\ UNCHANGED <<timer, observerVars>>

\* One turn of the cleanup loop: the visitors not seen within the window go.
Cleanup ==
  LET idle == {ip \in visitors : age[ip] > Window}
  IN  /\ due /\ due' = FALSE
      /\ visitors' = visitors \ idle
      /\ count' = [ip \in Ips |-> IF ip \in idle THEN 0 ELSE count[ip]]
      /\ age' = [ip \in Ips |-> IF ip \in idle THEN 0 ELSE age[ip]]
      /\ UNCHANGED <<timer, observerVars>>

\* A tick of time.  The ticker's channel keeps one tick: a cleanup that is
\* late loses the others.
Tick ==
  /\ timer' = IF timer = 1 THEN Period ELSE timer - 1
  /\ due' = (due \/ timer = 1)
  /\ age' = [ip \in Ips |-> IF ip \in visitors THEN UpTo(age[ip] + 1, Window + 1)
                                              ELSE age[ip]]
  /\ pause' = [ip \in Ips |-> UpTo(pause[ip] + 1, Window + 1)]
  /\ watch' = [ip \in Ips |-> UpTo(watch[ip] + 1, Span + 1)]
  /\ UNCHANGED <<visitors, count, verdict, passed>>

\* The observer starts to watch an address at any moment.
Watch(ip) ==
  /\ ~Watched(ip)
  /\ watch' = [watch EXCEPT ![ip] = 0]
  /\ passed' = [passed EXCEPT ![ip] = 0]
  /\ UNCHANGED <<mapVars, tickerVars, verdict, pause>>

Next == Tick \/ Cleanup \/ \E ip \in Ips : Allow(ip) \/ Watch(ip)

Spec == Init /\ [][Next]_vars

\* Time passes and the cleanup goroutine runs; clients owe nothing.
FairSpec == Spec /\ WF_vars(Tick) /\ WF_vars(Cleanup)

-----------------------------------------------------------------------------
(* Properties.                                                             *)

\* Every variable keeps its type.
TypeOK ==
  /\ visitors \subseteq Ips
  /\ count \in [Ips -> 0 .. Limit + 1]
  /\ age \in [Ips -> 0 .. Window + 1]
  /\ timer \in 1 .. Period
  /\ due \in BOOLEAN
  /\ verdict \in [Ips -> {"none", "admitted", "rejected"}]
  /\ pause \in [Ips -> 0 .. Window + 1]
  /\ watch \in [Ips -> 0 .. Span + 1]
  /\ passed \in [Ips -> 0 .. Limit + 2]

\* The first request of a visitor is admitted even when the limit is zero.
Quota == IF Limit = 0 THEN 1 ELSE Limit

\* The inductive invariant: lastSeen is the time of the last request, whoever
\* made it within the window is still in the map, and a count is at least the
\* number of requests admitted while the address was watched.
CountInv == \A ip \in Ips :
  /\ ip \in visitors => age[ip] = pause[ip] /\ count[ip] > 0
  /\ ip \notin visitors => pause[ip] > Window /\ count[ip] = 0
  /\ Watched(ip) /\ passed[ip] > 0 =>
       pause[ip] <= watch[ip] /\ passed[ip] <= count[ip]
  /\ passed[ip] <= Quota

\* At most Limit requests of an address are admitted in any stretch of time no
\* longer than the window, although counts restart and visitors are deleted.
LimitHolds == \A ip \in Ips : Watched(ip) => passed[ip] <= Quota

\* A client that heeds "try again in 1 minute" is admitted: a request after a
\* pause longer than the window never fails.
PauseRestores ==
  [][\A ip \in Ips : pause[ip] > Window /\ pause'[ip] = 0 =>
       verdict'[ip] = "admitted"]_vars

\* The map, its cleanup and the ticker are invisible: the answers are those
\* of BurstLimit, which keeps every address for ever.
Burst == INSTANCE BurstLimit WITH
  burst <- [ip \in Ips |-> IF pause[ip] > Window THEN 0 ELSE count[ip]]

BurstSpec == Burst!Spec

\* The map does not grow for ever: a visitor that stays away is deleted.
IdleForgotten == \A ip \in Ips :
  ip \in visitors /\ pause[ip] > 0 ~> ip \notin visitors \/ pause[ip] = 0
=============================================================================
