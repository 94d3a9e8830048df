--------------------------- MODULE MCConvergence ---------------------------
(* Convergence for TLC. *)
EXTENDS Convergence

\* An open-source server beside a server of each program.
MCCombinations ==
  {[s \in Servers |-> IF s = "s1" THEN "oss" ELSE other] : other \in {"oss", "combined", "tool"}}
=============================================================================
