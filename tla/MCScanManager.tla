--------------------------- MODULE MCScanManager ---------------------------
(* Instances of ScanManager for TLC: a host with a TLS and an SSH endpoint. *)
EXTENDS ScanManager

CONSTANTS tls, ssh

MCTargets == {tls, ssh}
MCSshTargets == {ssh}
\* A weak certificate on TLS, a host key on SSH.
MCFound == [t \in MCTargets |-> IF t = tls THEN {"cert"} ELSE {"key"}]
\* Where no property asks what was found.
MCNothingFound == [t \in MCTargets |-> {}]
=============================================================================
