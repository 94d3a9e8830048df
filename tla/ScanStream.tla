----------------------------- MODULE ScanStream -----------------------------
(***************************************************************************)
(* The progress stream of internal/api/shared/events.go.  A request makes  *)
(* a session (two channels, a closed flag), stores it in the package's map *)
(* under the scan id and starts a simulator, which looks the session up    *)
(* by that id, sends an event per stage and closes the session.  The       *)
(* handler forwards the events until the channel is closed or its client   *)
(* leaves.  A session is named here by the stream whose request made it.   *)
(***************************************************************************)
EXTENDS Naturals, Sequences

CONSTANTS
  Streams,  \* requests to GET /scans/:id/stream
  Ids,      \* scan ids
  IdOf,     \* IdOf[s]: the scan id of the path of request s
  N,        \* the stages simulateScan goes through (5 in the code)
  Cap,      \* the capacity of a session's channel (64 in the code)
  Nil       \* no session

ASSUME StreamAssumption ==
  /\ IdOf \in [Streams -> Ids]
  /\ N \in Nat \ {0}
  /\ Cap \in Nat \ {0}
  /\ Nil \notin Streams

VARIABLES
  sessions,  \* sessions[i]: the map of sessions by scan id
  closed,    \* closed[s]: close has closed the channels of session s
  closing,   \* closing[s]: close still holds the lock of session s
  queue,     \* queue[s]: the events buffered in the channel of session s
  sim,       \* sim[s]: where the simulator that request s started is
  attached,  \* attached[s]: the session that simulator found
  stage,     \* stage[s]: the event that simulator sends next
  handler,   \* handler[s]: where the handler of request s is
  gone,      \* gone[s]: the client of request s has disconnected
  written    \* written[s]: the events the handler has written

sessionVars == <<sessions, closed, closing, queue>>
simVars == <<sim, attached, stage>>
handlerVars == <<handler, gone, written>>
vars == <<sessionVars, simVars, handlerVars>>

Event == 1 .. N + 1
Completed == N + 1
SimStage == {"none", "starting", "checking", "sending", "sleeping", "closing",
             "ended"}
HandlerStage == {"new", "waiting", "looping", "done", "cut"}

Init ==
  /\ sessions = [i \in Ids |-> Nil]
  /\ closed = [s \in Streams |-> FALSE]
  /\ closing = [s \in Streams |-> FALSE]
  /\ queue = [s \in Streams |-> <<>>]
  /\ sim = [s \in Streams |-> "none"]
  /\ attached = [s \in Streams |-> Nil]
  /\ stage = [s \in Streams |-> 1]
  /\ handler = [s \in Streams |-> "new"]
  /\ gone = [s \in Streams |-> FALSE]
  /\ written = [s \in Streams |-> <<>>]

-----------------------------------------------------------------------------
(* The session: send and close run under its lock.                         *)

\* Fault: send does not look at the closed flag.
SendUnchecked(s, e) ==
  /\ ~closing[s]
  /\ queue' = [queue EXCEPT ![s] = IF Len(@) < Cap THEN Append(@, e) ELSE @]

\* An event for a closed session, or one that finds the channel full, is
\* dropped.
SendEvent(s, e) ==
  /\ ~closing[s]
  /\ queue' = [queue EXCEPT ![s] = IF ~closed[s] /\ Len(@) < Cap
                                   THEN Append(@, e) ELSE @]

\* Fault: the channels are left open.
CloseNothing(s) ==
  /\ ~closing[s]
  /\ closing' = [closing EXCEPT ![s] = ~closed[s]]
  /\ UNCHANGED closed

\* close, up to the two closed channels: only the first call does anything.
CloseSession(s) ==
  /\ ~closing[s]
  /\ closed' = [closed EXCEPT ![s] = TRUE]
  /\ closing' = [closing EXCEPT ![s] = ~closed[s]]

\* Fault: close does not remove the session from the map.
ForgetNothing(s) ==
  /\ closing[s]
  /\ closing' = [closing EXCEPT ![s] = FALSE]
  /\ UNCHANGED <<sessions, closed, queue, simVars, handlerVars>>

\* The rest of close, under the map's lock as well: whatever session the scan
\* id now has is removed.  The caller of close has nothing left to do.
Forget(s) ==
  /\ closing[s]
  /\ closing' = [closing EXCEPT ![s] = FALSE]
  /\ sessions' = [sessions EXCEPT ![IdOf[s]] = Nil]
  /\ UNCHANGED <<closed, queue, simVars, handlerVars>>

-----------------------------------------------------------------------------
(* simulateScan.                                                           *)

\* getSession: the session of the scan id, which need not be that of the
\* request that started the simulator; none ends it.
Attach(s) ==
  /\ sim[s] = "starting"
  /\ attached' = [attached EXCEPT ![s] = sessions[IdOf[s]]]
  /\ sim' = [sim EXCEPT ![s] = IF sessions[IdOf[s]] = Nil THEN "ended"
                                                        ELSE "checking"]
  /\ stage' = [stage EXCEPT ![s] = 1]
  /\ UNCHANGED <<sessionVars, handlerVars>>

\* The look at done that starts a stage.
CheckDone(s) ==
  /\ sim[s] = "checking"
  /\ sim' = [sim EXCEPT ![s] = IF closed[attached[s]] THEN "ended" ELSE "sending"]
  /\ UNCHANGED <<sessionVars, attached, stage, handlerVars>>

SendStage(s) ==
  /\ sim[s] = "sending"
  /\ SendEvent(attached[s], stage[s])
  /\ sim' = [sim EXCEPT ![s] = IF stage[s] = Completed THEN "closing"
                                                     ELSE "sleeping"]
  /\ UNCHANGED <<sessions, closed, closing, attached, stage, handlerVars>>

\* Fault: the loop is followed by close without the completed event.
WakeToClose(s) ==
  /\ sim[s] = "sleeping"
  /\ IF closed[attached[s]]
     THEN /\ sim' = [sim EXCEPT ![s] = "ended"]
          /\ UNCHANGED stage
     ELSE /\ sim' = [sim EXCEPT ![s] = IF stage[s] = N THEN "closing"
                                                      ELSE "checking"]
          /\ stage' = [stage EXCEPT ![s] = @ + 1]
  /\ UNCHANGED <<sessionVars, attached, handlerVars>>

\* After 800 ms: the second look at done, then the next stage, or after the
\* last one the completed event, which is sent without another look.
Wake(s) ==
  /\ sim[s] = "sleeping"
  /\ IF closed[attached[s]]
     THEN /\ sim' = [sim EXCEPT ![s] = "ended"]
          /\ UNCHANGED stage
     ELSE /\ sim' = [sim EXCEPT ![s] = IF stage[s] = N THEN "sending"
                                                      ELSE "checking"]
          /\ stage' = [stage EXCEPT ![s] = @ + 1]
  /\ UNCHANGED <<sessionVars, attached, handlerVars>>

SimClose(s) ==
  /\ sim[s] = "closing"
  /\ CloseSession(attached[s])
  /\ sim' = [sim EXCEPT ![s] = "ended"]
  /\ UNCHANGED <<sessions, queue, attached, stage, handlerVars>>

-----------------------------------------------------------------------------
(* StreamScanProgress and the loop of gin's Stream around its step.        *)

\* createSession replaces the session another request has under the same id.
Open(s) ==
  /\ handler[s] = "new"
  /\ handler' = [handler EXCEPT ![s] = "waiting"]
  /\ sessions' = [sessions EXCEPT ![IdOf[s]] = s]
  /\ sim' = [sim EXCEPT ![s] = "starting"]
  /\ UNCHANGED <<closed, closing, queue, attached, stage, gone, written>>

\* The step receives an event and writes it.
Deliver(s) ==
  /\ handler[s] = "waiting" /\ queue[s] # <<>>
  /\ handler' = [handler EXCEPT ![s] = "looping"]
  /\ written' = [written EXCEPT ![s] = Append(@, Head(queue[s]))]
  /\ queue' = [queue EXCEPT ![s] = Tail(@)]
  /\ UNCHANGED <<sessions, closed, closing, simVars, gone>>

\* Fault: a drained channel ends the stream whether it is closed or not.
EndWhenDrained(s) ==
  /\ handler[s] = "waiting" /\ queue[s] = <<>>
  /\ handler' = [handler EXCEPT ![s] = "done"]
  /\ UNCHANGED <<sessionVars, simVars, gone, written>>

\* The channel is closed and drained: the done event ends the stream.
End(s) ==
  /\ handler[s] = "waiting" /\ queue[s] = <<>> /\ closed[s]
  /\ handler' = [handler EXCEPT ![s] = "done"]
  /\ UNCHANGED <<sessionVars, simVars, gone, written>>

\* The step finds the request's context done; it may as well have received.
Leave(s) ==
  /\ handler[s] = "waiting" /\ gone[s]
  /\ CloseSession(s)
  /\ handler' = [handler EXCEPT ![s] = "cut"]
  /\ UNCHANGED <<sessions, queue, simVars, gone, written>>

\* Between two steps gin looks for a client that has gone, and then returns
\* without another step, hence without close.
Loop(s) ==
  /\ handler[s] = "looping"
  /\ \/ handler' = [handler EXCEPT ![s] = "waiting"]
     \/ gone[s] /\ handler' = [handler EXCEPT ![s] = "cut"]
  /\ UNCHANGED <<sessionVars, simVars, gone, written>>

Disconnect(s) ==
  /\ handler[s] \in {"waiting", "looping"} /\ ~gone[s]
  /\ gone' = [gone EXCEPT ![s] = TRUE]
  /\ UNCHANGED <<sessionVars, simVars, handler, written>>

-----------------------------------------------------------------------------
Simulate(s) ==
  \/ Attach(s) \/ CheckDone(s) \/ SendStage(s) \/ Wake(s) \/ SimClose(s)

Handle(s) == Deliver(s) \/ End(s) \/ Leave(s) \/ Loop(s)

Next == \E s \in Streams :
  Open(s) \/ Handle(s) \/ Disconnect(s) \/ Simulate(s) \/ Forget(s)

Spec == Init /\ [][Next]_vars

\* Goroutines and handlers that can run do; clients owe nothing.
FairSpec == Spec /\ \A s \in Streams :
  WF_vars(Simulate(s)) /\ WF_vars(Handle(s)) /\ WF_vars(Forget(s))

-----------------------------------------------------------------------------
(* Properties.                                                             *)

SessionTypes ==
  /\ sessions \in [Ids -> Streams \cup {Nil}]
  /\ closed \in [Streams -> BOOLEAN]
  /\ closing \in [Streams -> BOOLEAN]
  /\ queue \in [Streams -> Seq(Event)]
  /\ \A s \in Streams : Len(queue[s]) <= Cap

SimTypes ==
  /\ sim \in [Streams -> SimStage]
  /\ attached \in [Streams -> Streams \cup {Nil}]
  /\ stage \in [Streams -> Event]

HandlerTypes ==
  /\ handler \in [Streams -> HandlerStage]
  /\ gone \in [Streams -> BOOLEAN]
  /\ written \in [Streams -> Seq(Event)]

\* Every variable keeps its type, and no channel holds more than it can.
TypeOK == SessionTypes /\ SimTypes /\ HandlerTypes

\* The stage of a simulator fits the place it is at, and from its first event
\* on it has a session.
SimInv == \A s \in Streams :
  /\ sim[s] \in {"checking", "sending", "sleeping", "closing"} =>
       attached[s] \in Streams
  /\ sim[s] \in {"checking", "sleeping"} => stage[s] <= N
  /\ sim[s] = "closing" => stage[s] = Completed

\* The requests that follow a scan nobody else follows, and a channel with
\* room for all events of one.
OwnScans == \A s, t \in Streams : IdOf[s] = IdOf[t] => s = t
Roomy == Cap >= N + 1

\* How many events a simulator has sent that never found its session closed.
Sent(s) == CASE sim[s] \in {"none", "starting"} -> 0
             [] sim[s] \in {"checking", "sending"} -> stage[s] - 1
             [] OTHER -> stage[s]

\* The inductive invariant for such a request.  Its simulator, if it found a
\* session, found the request's own; what was written and what is still
\* buffered are the events from 1 on; and the channel is closed only after
\* all of them or after the client left.
OwnAt(s) ==
  /\ sessions[IdOf[s]] \in {s, Nil}
  /\ sim[s] \in {"checking", "sending", "sleeping", "closing"} => attached[s] = s
  /\ handler[s] = "new" <=> sim[s] = "none"
  /\ \A i \in 1 .. Len(written[s]) : written[s][i] = i
  /\ \A i \in 1 .. Len(queue[s]) : queue[s][i] = Len(written[s]) + i
  /\ ~closed[s] /\ sim[s] # "ended" => Len(written[s]) + Len(queue[s]) = Sent(s)
  /\ closed[s] => \/ handler[s] = "cut"
                  \/ Len(written[s]) + Len(queue[s]) = Completed
  /\ handler[s] = "done" => closed[s] /\ queue[s] = <<>>

OwnInv == SimInv /\ \A s \in Streams : OwnAt(s)

\* A closed channel is never sent to (the runtime would panic), although the
\* simulator looks at done long before it sends and the handler may close in
\* between.
NoSendOnClosed ==
  [][\A s \in Streams : closed[s] => Len(queue'[s]) <= Len(queue[s])]_vars

\* A client that is told "done" and has not left was told "completed" before,
\* also when the simulators of several requests share its session.
DoneMeansCompleted ==
  \A s \in Streams : handler[s] = "done" /\ ~gone[s] =>
    \E i \in 1 .. Len(written[s]) : written[s][i] = Completed

\* When no two requests name the same scan the stream is a ProgressFeed:
\* every event once, in order, and the end after the completed event.
Phase(s) == CASE handler[s] \in {"waiting", "looping"} -> "open"
              [] OTHER -> handler[s]

Feed == INSTANCE ProgressFeed WITH
  phase <- [s \in Streams |-> Phase(s)],
  heard <- [s \in Streams |-> IF written[s] = <<>> THEN 0
                              ELSE written[s][Len(written[s])]]

FeedSpec == Feed!Spec

\* No session stays in the map for ever.
SessionReleased ==
  \A s \in Streams : sessions[IdOf[s]] = s ~> sessions[IdOf[s]] # s

\* A client that opened a stream sees it end, if only because it leaves.
StreamEnds ==
  \A s \in Streams : handler[s] = "waiting" ~> handler[s] \in {"done", "cut"}
=============================================================================
