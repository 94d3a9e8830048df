---------------------------- MODULE MCScanStream ----------------------------
(* Instances of ScanStream for TLC. *)
EXTENDS ScanStream

CONSTANTS s1, s2, i1, i2

\* Every request names a scan of its own.
OwnIds == [s \in {s1, s2} |-> IF s = s1 THEN i1 ELSE i2]
\* Two requests follow the same scan.
SameId == [s \in {s1, s2} |-> i1]
=============================================================================
