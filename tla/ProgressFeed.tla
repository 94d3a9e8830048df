---------------------------- MODULE ProgressFeed ----------------------------
(***************************************************************************)
(* What GET /scans/:id/stream promises a client: the progress events of    *)
(* one scan, each once and in order, the completed event last, and then    *)
(* the end of the stream, unless the client leaves before.                 *)
(***************************************************************************)
EXTENDS Naturals

CONSTANTS
  Streams,  \* the requests that open a stream
  N         \* the stages of a scan; event N + 1 says it is completed

VARIABLES
  phase,  \* phase[s]: "new", "open", "done" or "cut"
  heard   \* heard[s]: how many events stream s has been given

vars == <<phase, heard>>

Init ==
  /\ phase = [s \in Streams |-> "new"]
  /\ heard = [s \in Streams |-> 0]

Open(s) ==
  /\ phase[s] = "new"
  /\ phase' = [phase EXCEPT ![s] = "open"]
  /\ UNCHANGED heard

Hear(s) ==
  /\ phase[s] = "open" /\ heard[s] <= N
  /\ heard' = [heard EXCEPT ![s] = @ + 1]
  /\ UNCHANGED phase

End(s) ==
  /\ phase[s] = "open" /\ heard[s] = N + 1
  /\ phase' = [phase EXCEPT ![s] = "done"]
  /\ UNCHANGED heard

Leave(s) ==
  /\ phase[s] = "open"
  /\ phase' = [phase EXCEPT ![s] = "cut"]
  /\ UNCHANGED heard

Next == \E s \in Streams : Open(s) \/ Hear(s) \/ End(s) \/ Leave(s)

Spec == Init /\ [][Next]_vars
=============================================================================
