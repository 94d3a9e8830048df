----------------------------- MODULE BurstLimit -----------------------------
(***************************************************************************)
(* What the rate limiter decides, without its map: the requests of an      *)
(* address between two pauses longer than the window are one burst, and    *)
(* the first Limit of them are admitted, the very first always.            *)
(***************************************************************************)
EXTENDS Naturals

CONSTANTS
  Ips,
  Limit,
  Window

VARIABLES
  burst,    \* burst[ip]: the requests of the burst so far, up to Limit + 1
  pause,    \* pause[ip]: the time since the last request, up to Window + 1
  verdict   \* verdict[ip]: what the last request was told

vars == <<burst, pause, verdict>>

Init ==
  /\ burst = [ip \in Ips |-> 0]
  /\ pause = [ip \in Ips |-> Window + 1]
  /\ verdict = [ip \in Ips |-> "none"]

Ask(ip) ==
  /\ burst' = [burst EXCEPT ![ip] = IF @ <= Limit THEN @ + 1 ELSE @]
  /\ pause' = [pause EXCEPT ![ip] = 0]
  /\ verdict' = [verdict EXCEPT ![ip] =
       IF burst[ip] = 0 \/ burst[ip] < Limit THEN "admitted" ELSE "rejected"]

Tick ==
  /\ pause' = [ip \in Ips |-> IF pause[ip] > Window THEN pause[ip]
                                                   ELSE pause[ip] + 1]
  /\ burst' = [ip \in Ips |-> IF pause[ip] >= Window THEN 0 ELSE burst[ip]]
  /\ UNCHANGED verdict

Next == Tick \/ \E ip \in Ips : Ask(ip)

Spec == Init /\ [][Next]_vars
=============================================================================
