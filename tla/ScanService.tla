---------------------------- MODULE ScanService ----------------------------
(***************************************************************************)
(* What the scan manager promises of a scan, without goroutines, locks or  *)
(* fields: every target is heard exactly once, the report appears at once  *)
(* when all of them are, holds what they reported, and never changes.      *)
(***************************************************************************)
EXTENDS Naturals, FiniteSets

CONSTANTS Jobs, Targets, Found, Nil

VARIABLES
  phase,      \* phase[j]: "new", "open", "done" or "lost"
  heard,      \* heard[j]: the targets that have answered or failed
  collected,  \* collected[j]: the findings of those that answered
  report      \* report[j]: the published findings, Nil before that

vars == <<phase, heard, collected, report>>

Init ==
  /\ phase = [j \in Jobs |-> "new"]
  /\ heard = [j \in Jobs |-> {}]
  /\ collected = [j \in Jobs |-> {}]
  /\ report = [j \in Jobs |-> Nil]

Accept(j) ==
  /\ phase[j] = "new"
  /\ phase' = [phase EXCEPT ![j] = "open"]
  /\ UNCHANGED <<heard, collected, report>>

Hear(j, t) ==
  /\ phase[j] = "open" /\ t \notin heard[j]
  /\ heard' = [heard EXCEPT ![j] = @ \cup {t}]
  /\ \E found \in SUBSET Found[t] :
       collected' = [collected EXCEPT ![j] = @ \cup found]
  /\ UNCHANGED <<phase, report>>

Publish(j) ==
  /\ phase[j] = "open" /\ heard[j] = Targets
  /\ phase' = [phase EXCEPT ![j] = "done"]
  /\ report' = [report EXCEPT ![j] = [scanned |-> Cardinality(Targets),
                                       findings |-> collected[j]]]
  /\ UNCHANGED <<heard, collected>>

\* A restart: every scan that was accepted is forgotten.
Lose ==
  /\ \E j \in Jobs : phase[j] \in {"open", "done"}
  /\ phase' = [j \in Jobs |-> IF phase[j] = "new" THEN "new" ELSE "lost"]
  /\ heard' = [j \in Jobs |-> {}]
  /\ collected' = [j \in Jobs |-> {}]
  /\ report' = [j \in Jobs |-> Nil]

Next ==
  \/ \E j \in Jobs : Accept(j) \/ Publish(j)
  \/ \E j \in Jobs, t \in Targets : Hear(j, t)
  \/ Lose

Spec == Init /\ [][Next]_vars
=============================================================================
