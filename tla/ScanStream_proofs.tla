------------------------- MODULE ScanStream_proofs -------------------------
(***************************************************************************)
(* Proofs about ScanStream for any set of requests and scan ids, any       *)
(* number of stages and any channel capacity.                              *)
(***************************************************************************)
EXTENDS ScanStream, FiniteSetTheorems, TLAPS

(* Every variable keeps its type, a channel never holds more than its      *)
(* capacity, and a simulator past getSession has a session to send to,     *)
(* however the requests of one scan id replace each other's sessions.      *)
THEOREM TypeCorrect == Spec => [](TypeOK /\ SimInv)
<1> USE StreamAssumption DEF TypeOK, SimStage, HandlerStage, Event, Completed
<1>1. Init => TypeOK /\ SimInv
  BY DEF Init, SessionTypes, SimTypes, HandlerTypes, SimInv
<1>2. TypeOK /\ SimInv /\ [Next]_vars => TypeOK' /\ SimInv'
  <2> SUFFICES ASSUME TypeOK, SimInv, [Next]_vars PROVE TypeOK' /\ SimInv'
    OBVIOUS
  <2>a. UNCHANGED sessionVars => SessionTypes'
    BY DEF sessionVars, SessionTypes
  <2>b. UNCHANGED simVars => SimTypes' /\ SimInv'
    BY DEF simVars, SimTypes, SimInv
  <2>c. UNCHANGED handlerVars => HandlerTypes'
    BY DEF handlerVars, HandlerTypes
  <2>1. ASSUME NEW s \in Streams, Open(s) PROVE TypeOK' /\ SimInv'
    <3>1. SessionTypes' BY <2>1 DEF Open, SessionTypes
    <3>2. SimTypes' /\ SimInv' BY <2>1 DEF Open, SimTypes, SimInv
    <3>3. HandlerTypes' BY <2>1 DEF Open, HandlerTypes
    <3> QED BY <3>1, <3>2, <3>3
  <2>2. ASSUME NEW s \in Streams, Deliver(s) PROVE TypeOK' /\ SimInv'
    <3>1. SessionTypes'
      BY <2>2 DEF Deliver, SessionTypes
    <3>2. HandlerTypes'
      BY <2>2 DEF Deliver, HandlerTypes, SessionTypes
    <3> QED BY <2>2, <3>1, <3>2, <2>b DEF Deliver
  <2>3. ASSUME NEW s \in Streams, End(s) PROVE TypeOK' /\ SimInv'
    BY <2>3, <2>a, <2>b DEF End, HandlerTypes
  <2>4. ASSUME NEW s \in Streams, Leave(s) PROVE TypeOK' /\ SimInv'
    <3>1. SessionTypes' BY <2>4 DEF Leave, CloseSession, SessionTypes
    <3>2. HandlerTypes' BY <2>4 DEF Leave, HandlerTypes
    <3> QED BY <2>4, <3>1, <3>2, <2>b DEF Leave
  <2>5. ASSUME NEW s \in Streams, Loop(s) PROVE TypeOK' /\ SimInv'
    BY <2>5, <2>a, <2>b DEF Loop, HandlerTypes
  <2>6. ASSUME NEW s \in Streams, Disconnect(s) PROVE TypeOK' /\ SimInv'
    BY <2>6, <2>a, <2>b DEF Disconnect, HandlerTypes
  <2>7. ASSUME NEW s \in Streams, Attach(s) PROVE TypeOK' /\ SimInv'
    <3>1. sessions[IdOf[s]] \in Streams \cup {Nil}
      BY DEF SessionTypes
    <3>2. SimTypes' BY <2>7, <3>1 DEF Attach, SimTypes
    <3>3. SimInv' BY <2>7, <3>1 DEF Attach, SimTypes, SimInv
    <3> QED BY <2>7, <3>2, <3>3, <2>a, <2>c DEF Attach
  <2>8. ASSUME NEW s \in Streams, CheckDone(s) PROVE TypeOK' /\ SimInv'
    BY <2>8, <2>a, <2>c DEF CheckDone, SimTypes, SimInv
  <2>9. ASSUME NEW s \in Streams, SendStage(s) PROVE TypeOK' /\ SimInv'
    <3>0. /\ attached[s] \in Streams
          /\ stage[s] \in Event
          /\ queue[attached[s]] \in Seq(Event)
          /\ Len(queue[attached[s]]) <= Cap
      BY <2>9 DEF SendStage, SessionTypes, SimTypes, SimInv
    <3>1. SessionTypes'
      <4> DEFINE q == queue[attached[s]]
      <4>1. Append(q, stage[s]) \in Seq(Event)
        BY <3>0
      <4>2. Len(Append(q, stage[s])) = Len(q) + 1 /\ Len(q) \in Nat
        BY <3>0
      <4> DEFINE r == IF ~closed[attached[s]] /\ Len(q) < Cap
                      THEN Append(q, stage[s]) ELSE q
      <4>3. queue' = [queue EXCEPT ![attached[s]] = r]
        BY <2>9 DEF SendStage, SendEvent
      <4>r. r \in Seq(Event) /\ Len(r) <= Cap
        <5>1. CASE ~closed[attached[s]] /\ Len(q) < Cap
          <6>1. r = Append(q, stage[s])  BY <5>1
          <6>2. Len(q) + 1 <= Cap  BY <5>1, <4>2
          <6> HIDE DEF q, r
          <6> QED BY <6>1, <6>2, <4>1, <4>2
        <5>2. CASE ~(~closed[attached[s]] /\ Len(q) < Cap)
          BY <5>2, <3>0
        <5> QED BY <5>1, <5>2
      <4> HIDE DEF r, q
      <4>4. queue' \in [Streams -> Seq(Event)]
        BY <4>3, <4>r, <3>0 DEF SessionTypes
      <4>5. \A u \in Streams : Len(queue'[u]) <= Cap
        BY <4>3, <4>r, <3>0 DEF SessionTypes
      <4> QED BY <2>9, <4>4, <4>5 DEF SendStage, SessionTypes
    <3>2. SimTypes' /\ SimInv'
      BY <2>9 DEF SendStage, SimTypes, SimInv
    <3> QED BY <2>9, <3>1, <3>2, <2>c DEF SendStage
  <2>10. ASSUME NEW s \in Streams, Wake(s) PROVE TypeOK' /\ SimInv'
    BY <2>10, <2>a, <2>c DEF Wake, SimTypes, SimInv
  <2>11. ASSUME NEW s \in Streams, SimClose(s) PROVE TypeOK' /\ SimInv'
    <3>1. SessionTypes'
      BY <2>11 DEF SimClose, CloseSession, SessionTypes
    <3>2. SimTypes' /\ SimInv'
      BY <2>11 DEF SimClose, SimTypes, SimInv
    <3> QED BY <2>11, <3>1, <3>2, <2>c DEF SimClose
  <2>12. ASSUME NEW s \in Streams, Forget(s) PROVE TypeOK' /\ SimInv'
    BY <2>12, <2>b, <2>c DEF Forget, SessionTypes
  <2>13. CASE UNCHANGED vars
    BY <2>13, <2>a, <2>b, <2>c DEF vars
  <2> QED BY <2>1, <2>2, <2>3, <2>4, <2>5, <2>6, <2>7, <2>8, <2>9, <2>10,
             <2>11, <2>12, <2>13 DEF Next, Handle, Simulate
<1> QED BY <1>1, <1>2, PTL DEF Spec

(* A closed channel is never sent to: the simulator's look at done is      *)
(* stale when it sends, the flag read under the session's lock is not.     *)
THEOREM ClosedNeverSentTo == Spec => NoSendOnClosed
<1>1. TypeOK /\ SimInv /\ [Next]_vars =>
        [\A s \in Streams : closed[s] => Len(queue'[s]) <= Len(queue[s])]_vars
  <2> SUFFICES ASSUME TypeOK, SimInv, Next, NEW t \in Streams, closed[t]
               PROVE Len(queue'[t]) <= Len(queue[t])
    OBVIOUS
  <2> USE DEF TypeOK, SessionTypes
  <2>0. Len(queue[t]) \in Nat  OBVIOUS
  <2>1. ASSUME queue' = queue PROVE Len(queue'[t]) <= Len(queue[t])
    BY <2>0, <2>1
  <2>2. ASSUME NEW s \in Streams, Deliver(s)
        PROVE Len(queue'[t]) <= Len(queue[t])
    BY <2>0, <2>2 DEF Deliver
  <2>3. ASSUME NEW s \in Streams, SendStage(s)
        PROVE Len(queue'[t]) <= Len(queue[t])
    BY <2>0, <2>3 DEF SendStage, SendEvent, SimInv
  <2> QED BY <2>1, <2>2, <2>3 DEF Next, Handle, Simulate, Open, End, Leave, Loop,
        Disconnect, Attach, CheckDone, Wake, SimClose, Forget, sessionVars
<1> QED BY <1>1, TypeCorrect, PTL DEF Spec, NoSendOnClosed

-----------------------------------------------------------------------------
(* Appending the number after a run of consecutive numbers, and removing   *)
(* the first of them, leave a run of consecutive numbers.                  *)
LEMMA AppendRun ==
  ASSUME NEW S, NEW q \in Seq(S), NEW e \in S, NEW k \in Nat,
         \A i \in 1 .. Len(q) : q[i] = k + i, e = k + Len(q) + 1
  PROVE  /\ Len(Append(q, e)) = Len(q) + 1
         /\ \A i \in 1 .. Len(Append(q, e)) : Append(q, e)[i] = k + i
  OBVIOUS

LEMMA TailRun ==
  ASSUME NEW S, NEW q \in Seq(S), q # <<>>, NEW k \in Nat,
         \A i \in 1 .. Len(q) : q[i] = k + i
  PROVE  /\ Head(q) = k + 1
         /\ Len(Tail(q)) = Len(q) - 1
         /\ \A i \in 1 .. Len(Tail(q)) : Tail(q)[i] = k + 1 + i
  OBVIOUS

(* For requests whose scans nobody else follows: OwnInv is invariant.      *)
THEOREM OwnInvariance ==
  ASSUME OwnScans, Roomy PROVE Spec => []OwnInv
<1> USE StreamAssumption
<1> DEFINE Types == TypeOK /\ SimInv
<1>1. Init => OwnInv
  <2> SUFFICES ASSUME Init, NEW t \in Streams PROVE OwnAt(t)
    BY DEF OwnInv, Init, SimInv
  <2> QED BY DEF Init, OwnAt, Sent
<1>2. Types /\ Types' /\ OwnInv /\ [Next]_vars => OwnInv'
  <2> SUFFICES ASSUME Types, Types', OwnInv, [Next]_vars, NEW t \in Streams
               PROVE  OwnAt(t)'
    BY DEF OwnInv
  <2>0. OwnAt(t) /\ IdOf[t] \in Ids /\ SimInv
    BY DEF OwnInv
  <2>t. /\ queue[t] \in Seq(Event) /\ written[t] \in Seq(Event)
        /\ Len(queue[t]) \in Nat /\ Len(written[t]) \in Nat
        /\ stage[t] \in Event
    BY DEF TypeOK, SessionTypes, SimTypes, HandlerTypes
  <2>u. ASSUME UNCHANGED <<sessions[IdOf[t]], closed[t], queue[t], sim[t],
                           attached[t], stage[t], handler[t], written[t]>>
        PROVE  OwnAt(t)'
    BY <2>0, <2>u DEF OwnAt, Sent
  <2> USE DEF Types, TypeOK
  <2>1. ASSUME NEW s \in Streams, Open(s) PROVE OwnAt(t)'
    BY <2>0, <2>1 DEF Open, OwnAt, Sent, OwnScans, SessionTypes, SimTypes, HandlerTypes
  <2>2. ASSUME NEW s \in Streams, Deliver(s) PROVE OwnAt(t)'
    <3>1. CASE s # t
      BY <2>0, <2>2, <3>1 DEF Deliver, OwnAt, Sent, SessionTypes, HandlerTypes, simVars
    <3>2. CASE s = t
      <4> DEFINE w == written[t]
                 q == queue[t]
      <4>1. /\ q # <<>> /\ Head(q) \in Event
            /\ written'[t] = Append(w, Head(q)) /\ queue'[t] = Tail(q)
        BY <2>t, <2>2, <3>2 DEF Deliver, SessionTypes, HandlerTypes
      <4>2. /\ \A i \in 1 .. Len(w) : w[i] = 0 + i
            /\ \A i \in 1 .. Len(q) : q[i] = Len(w) + i
        BY <2>0, <2>t DEF OwnAt
      <4>t. /\ w \in Seq(Event) /\ q \in Seq(Event)
            /\ Len(w) \in Nat /\ Len(q) \in Nat
        BY <2>t
      <4> HIDE DEF w, q
      <4>3. /\ Head(q) = Len(w) + 1
            /\ Len(Tail(q)) = Len(q) - 1
            /\ \A i \in 1 .. Len(Tail(q)) : Tail(q)[i] = Len(w) + 1 + i
        BY <4>t, <4>1, <4>2, TailRun
      <4>4. /\ Len(Append(w, Head(q))) = Len(w) + 1
            /\ \A i \in 1 .. Len(Append(w, Head(q))) : Append(w, Head(q))[i] = i
        BY <4>t, <4>1, <4>2, <4>3
      <4>5. /\ \A i \in 1 .. Len(written'[t]) : written'[t][i] = i
            /\ \A i \in 1 .. Len(queue'[t]) : queue'[t][i] = Len(written'[t]) + i
            /\ Len(written'[t]) + Len(queue'[t]) = Len(w) + Len(q)
        BY <4>t, <4>1, <4>3, <4>4
      <4>6. /\ UNCHANGED <<sessions[IdOf[t]], sim[t], attached[t], stage[t], closed[t]>>
            /\ handler[t] = "waiting" /\ handler'[t] = "looping"
        BY <2>2, <3>2 DEF Deliver, HandlerTypes, simVars
      <4> QED BY <2>0, <4>5, <4>6 DEF OwnAt, Sent, w, q
    <3> QED BY <3>1, <3>2
  <2>3. ASSUME NEW s \in Streams, End(s) PROVE OwnAt(t)'
    BY <2>0, <2>3 DEF End, OwnAt, Sent, HandlerTypes, sessionVars, simVars
  <2>4. ASSUME NEW s \in Streams, Leave(s) PROVE OwnAt(t)'
    BY <2>0, <2>4 DEF Leave, CloseSession, OwnAt, Sent, SessionTypes, HandlerTypes, simVars
  <2>5. ASSUME NEW s \in Streams, Loop(s) PROVE OwnAt(t)'
    BY <2>0, <2>5 DEF Loop, OwnAt, Sent, HandlerTypes, sessionVars, simVars
  <2>6. ASSUME NEW s \in Streams, Disconnect(s) PROVE OwnAt(t)'
    BY <2>0, <2>6 DEF Disconnect, OwnAt, Sent, sessionVars, simVars
  <2>7. ASSUME NEW s \in Streams, Attach(s) PROVE OwnAt(t)'
    <3>1. CASE s # t
      BY <2>u, <2>7, <3>1 DEF Attach, SimTypes, sessionVars, handlerVars
    <3>2. CASE s = t
      <4>1. /\ UNCHANGED <<sessions[IdOf[t]], closed[t], queue[t], handler[t],
                            written[t]>>
            /\ sim[t] = "starting" /\ stage'[t] = 1
            /\ \/ sim'[t] = "ended"
               \/ sim'[t] = "checking" /\ attached'[t] = t
        BY <2>0, <2>7, <3>2 DEF Attach, OwnAt, SimTypes, sessionVars, handlerVars
      <4>2. CASE sim'[t] = "ended"
        BY <2>0, <4>1, <4>2 DEF OwnAt, Sent
      <4>3. CASE sim'[t] = "checking" /\ attached'[t] = t
        <5>1. stage'[t] - 1 = 0  BY <4>1
        <5> QED BY <2>0, <4>1, <4>3, <5>1 DEF OwnAt, Sent
      <4> QED BY <4>1, <4>2, <4>3
    <3> QED BY <3>1, <3>2
  <2>8. ASSUME NEW s \in Streams, CheckDone(s) PROVE OwnAt(t)'
    BY <2>0, <2>8 DEF CheckDone, OwnAt, Sent, SimTypes, sessionVars, handlerVars
  <2>9. ASSUME NEW s \in Streams, SendStage(s) PROVE OwnAt(t)'
    <3>0. attached[s] = s
      BY <2>9 DEF SendStage, OwnInv, OwnAt
    <3>1. CASE s # t
      BY <2>0, <2>9, <3>0, <3>1
         DEF SendStage, SendEvent, OwnAt, Sent, SessionTypes, SimTypes, handlerVars
    <3>2. CASE s = t /\ closed[t]
      BY <2>0, <2>9, <3>0, <3>2
         DEF SendStage, SendEvent, OwnAt, Sent, SessionTypes, SimTypes, handlerVars
    <3>3. CASE s = t /\ ~closed[t]
      <4> DEFINE q == queue[t]
                 e == stage[t]
                 k == Len(written[t])
      <4>t. q \in Seq(Event) /\ Len(q) \in Nat /\ k \in Nat /\ e \in Event
        BY <2>t
      <4>1. sim[t] = "sending" /\ k + Len(q) = e - 1
        BY <2>0, <2>9, <3>3 DEF SendStage, OwnAt, Sent
      <4>2. \A i \in 1 .. Len(q) : q[i] = k + i
        BY <2>0 DEF OwnAt
      <4>s. queue'[t] = IF Len(q) < Cap THEN Append(q, e) ELSE q
        BY <2>9, <3>0, <3>3 DEF SendStage, SendEvent, SessionTypes
      <4>6. /\ UNCHANGED <<sessions[IdOf[t]], attached[t], stage[t], closed[t],
                            handler[t], written[t]>>
            /\ sim'[t] = IF e = Completed THEN "closing" ELSE "sleeping"
        BY <2>9, <3>3 DEF SendStage, SimTypes, handlerVars
      <4>w. Len(written'[t]) = k
        BY <4>6
      <4> HIDE DEF q, e, k
      <4>3. Len(q) < Cap
        BY <4>t, <4>1, Roomy DEF Event, Roomy
      <4>e. e = k + Len(q) + 1
        BY <4>t, <4>1 DEF Event
      <4>4. /\ Len(Append(q, e)) = Len(q) + 1
            /\ \A i \in 1 .. Len(Append(q, e)) : Append(q, e)[i] = k + i
        BY <4>t, <4>2, <4>e, AppendRun
      <4>5. /\ Len(written'[t]) + Len(queue'[t]) = e
            /\ \A i \in 1 .. Len(queue'[t]) : queue'[t][i] = Len(written'[t]) + i
        BY <4>t, <4>e, <4>s, <4>3, <4>4, <4>w
      <4>7. attached[t] = t
        BY <3>0, <3>3
      <4> QED BY <2>0, <3>3, <4>1, <4>5, <4>6, <4>7 DEF OwnAt, Sent, q, e, k
    <3> QED BY <3>1, <3>2, <3>3
  <2>10. ASSUME NEW s \in Streams, Wake(s) PROVE OwnAt(t)'
    <3>1. CASE s # t
      BY <2>u, <2>10, <3>1 DEF Wake, SimTypes, sessionVars, handlerVars
    <3>2. CASE s = t
      <4>1. /\ UNCHANGED <<sessions[IdOf[t]], closed[t], queue[t], attached[t],
                            handler[t], written[t]>>
            /\ sim[t] = "sleeping"
            /\ \/ sim'[t] = "ended" /\ closed[t] /\ stage'[t] = stage[t]
               \/ sim'[t] \in {"sending", "checking"} /\ stage'[t] = stage[t] + 1
        BY <2>0, <2>10, <3>2 DEF Wake, OwnAt, SimTypes, sessionVars, handlerVars
      <4>2. CASE sim'[t] = "ended"
        BY <2>0, <4>1, <4>2 DEF OwnAt, Sent
      <4>3. CASE sim'[t] \in {"sending", "checking"}
        <5>1. stage'[t] - 1 = stage[t]
          BY <2>t, <4>1, <4>3 DEF Event
        <5> QED BY <2>0, <4>1, <4>3, <5>1 DEF OwnAt, Sent
      <4> QED BY <4>1, <4>2, <4>3
    <3> QED BY <3>1, <3>2
  <2>11. ASSUME NEW s \in Streams, SimClose(s) PROVE OwnAt(t)'
    <3>0. attached[s] = s
      BY <2>11 DEF SimClose, OwnInv, OwnAt
    <3>1. CASE s # t
      BY <2>0, <2>11, <3>0, <3>1
         DEF SimClose, CloseSession, OwnAt, Sent, SessionTypes, SimTypes, handlerVars
    <3>2. CASE s = t
      <4>1. /\ UNCHANGED <<sessions[IdOf[t]], queue[t], attached[t], stage[t],
                            handler[t], written[t]>>
            /\ sim[t] = "closing" /\ sim'[t] = "ended" /\ closed'[t]
        BY <2>11, <3>0, <3>2
           DEF SimClose, CloseSession, SessionTypes, SimTypes, handlerVars
      <4> QED BY <2>0, <4>1 DEF OwnAt, Sent, SimInv
    <3> QED BY <3>1, <3>2
  <2>12. ASSUME NEW s \in Streams, Forget(s) PROVE OwnAt(t)'
    BY <2>0, <2>12 DEF Forget, OwnAt, Sent, SessionTypes, simVars, handlerVars
  <2>13. CASE UNCHANGED vars
    BY <2>0, <2>13 DEF vars, OwnAt, Sent, sessionVars, simVars, handlerVars
  <2> QED BY <2>1, <2>2, <2>3, <2>4, <2>5, <2>6, <2>7, <2>8, <2>9, <2>10,
             <2>11, <2>12, <2>13 DEF Next, Handle, Simulate
<1> QED BY <1>1, <1>2, TypeCorrect, PTL DEF Spec, Types

-----------------------------------------------------------------------------
(* The requests of the scan that s names: their simulators may all find the *)
(* session of s.  A channel has room for all of them if it holds the events *)
(* of each: 64 for ten requests of one scan in the code.                    *)
Sharers(s) == {u \in Streams : IdOf[u] = IdOf[s]}
RoomForAll ==
  \A s \in Streams : IsFiniteSet(Sharers(s)) /\ Cardinality(Sharers(s)) * (N + 1) <= Cap

(* What simulators may have sent to the session of s so far: who, and which. *)
Sendings(s) == {p \in Sharers(s) \X Event : attached[p[1]] = s /\ p[2] <= Sent(p[1])}
(* The completed event has been written to the client of s or is buffered. *)
Told(s) == \/ \E i \in 1 .. Len(written[s]) : written[s][i] = Completed
           \/ \E i \in 1 .. Len(queue[s]) : queue[s][i] = Completed

(* The invariant for requests that share sessions.  Sessions are of the scan *)
(* they are found by; whoever closes one has told its client completed, or   *)
(* the client has left; and no session has more events than were sent to it. *)
NotBegun(s) == handler[s] = "new" => sim[s] = "none"
OfOneScan(s) ==
  /\ sessions[IdOf[s]] # Nil => IdOf[sessions[IdOf[s]]] = IdOf[s]
  /\ attached[s] # Nil => IdOf[attached[s]] = IdOf[s]
ToldBeforeClosing(s) ==
  /\ sim[s] = "closing" => closed[attached[s]] \/ Told(attached[s])
  /\ closed[s] => gone[s] \/ Told(s)
DoneIsDrained(s) == handler[s] = "done" => closed[s] /\ queue[s] = <<>>
SentAtMost(s) == Len(written[s]) + Len(queue[s]) <= Cardinality(Sendings(s))
SharedInv == \A s \in Streams :
  NotBegun(s) /\ OfOneScan(s) /\ ToldBeforeClosing(s) /\ DoneIsDrained(s) /\ SentAtMost(s)

(* All that can be sent to one session fits into its channel. *)
LEMMA RoomOfSendings ==
  ASSUME RoomForAll, NEW s \in Streams
  PROVE  /\ IsFiniteSet(Sharers(s) \X Event) /\ Cardinality(Sharers(s) \X Event) <= Cap
         /\ Cardinality(Sharers(s) \X Event) \in Nat
<1> USE StreamAssumption
<1>1. IsFiniteSet(Event) /\ Cardinality(Event) = N + 1
  <2>1. 1 \in Int /\ N + 1 \in Int /\ ~(1 > N + 1) /\ (N + 1) - 1 + 1 = N + 1
    OBVIOUS
  <2> QED
    BY <2>1, FS_Interval DEF Event
<1>2. IsFiniteSet(Sharers(s)) /\ Cardinality(Sharers(s)) * (N + 1) <= Cap
  BY DEF RoomForAll
<1>3. /\ IsFiniteSet(Sharers(s) \X Event)
      /\ Cardinality(Sharers(s) \X Event) = Cardinality(Sharers(s)) * Cardinality(Event)
  BY <1>1, <1>2, FS_Product
<1>4. Cardinality(Sharers(s) \X Event) \in Nat
  BY <1>3, FS_CardinalityType
<1> QED
  BY <1>1, <1>2, <1>3, <1>4

(* A request that shares its scan with nobody needs room for its own events. *)
LEMMA OwnRoom == ASSUME OwnScans, Roomy PROVE RoomForAll
<1> SUFFICES ASSUME NEW s \in Streams
             PROVE  IsFiniteSet(Sharers(s)) /\ Cardinality(Sharers(s)) * (N + 1) <= Cap
  BY DEF RoomForAll
<1>1. Sharers(s) = {s}
  BY DEF OwnScans, Sharers
<1>2. IsFiniteSet({s}) /\ Cardinality({s}) = 1
  BY FS_Singleton
<1>3. 1 * (N + 1) <= Cap
  BY StreamAssumption DEF Roomy
<1> QED
  BY <1>1, <1>2, <1>3

LEMMA SendingsFinite ==
  ASSUME RoomForAll, NEW s \in Streams
  PROVE  /\ IsFiniteSet(Sendings(s)) /\ Cardinality(Sendings(s)) \in Nat
         /\ IsFiniteSet(Sendings(s)') /\ Cardinality(Sendings(s)') \in Nat
<1>1. Sendings(s) \subseteq Sharers(s) \X Event /\ Sendings(s)' \subseteq Sharers(s) \X Event
  BY DEF Sendings, Sharers, Event
<1> QED
  BY <1>1, RoomOfSendings, FS_Subset, FS_CardinalityType

(* Neither the move of the head of one sequence to the end of another nor an *)
(* element more at its end lose what is in them.                             *)
LEMMA HeadMoves ==
  ASSUME NEW w \in Seq(Event), NEW q \in Seq(Event), q # <<>>, NEW e,
         (\E i \in 1 .. Len(w) : w[i] = e) \/ (\E i \in 1 .. Len(q) : q[i] = e)
  PROVE  \/ \E i \in 1 .. Len(Append(w, Head(q))) : Append(w, Head(q))[i] = e
         \/ \E i \in 1 .. Len(Tail(q)) : Tail(q)[i] = e
<1>1. /\ Len(Append(w, Head(q))) = Len(w) + 1 /\ Len(w) \in Nat
      /\ \A i \in 1 .. Len(w) : Append(w, Head(q))[i] = w[i]
      /\ Append(w, Head(q))[Len(w) + 1] = Head(q)
  OBVIOUS
<1>2. /\ Head(q) = q[1] /\ Len(Tail(q)) = Len(q) - 1 /\ Len(q) \in Nat
      /\ \A i \in 1 .. Len(q) - 1 : Tail(q)[i] = q[i + 1]
  OBVIOUS
<1> DEFINE v == Append(w, Head(q))
           r == Tail(q)
<1> HIDE DEF v, r
<1>3. ASSUME NEW i \in 1 .. Len(w), w[i] = e PROVE \E j \in 1 .. Len(v) : v[j] = e
  BY <1>1, <1>3 DEF v
<1>4. ASSUME NEW i \in 1 .. Len(q), q[i] = e
      PROVE  (\E j \in 1 .. Len(v) : v[j] = e) \/ (\E j \in 1 .. Len(r) : r[j] = e)
  <2>1. CASE i = 1
    <3>1. v[Len(w) + 1] = e /\ Len(w) + 1 \in 1 .. Len(v)
      BY <1>1, <1>2, <1>4, <2>1 DEF v
    <3> QED
      BY <3>1
  <2>2. CASE i # 1
    <3>1. i - 1 \in 1 .. Len(r) /\ r[i - 1] = e
      BY <1>2, <1>4, <2>2 DEF r
    <3> QED
      BY <3>1
  <2> QED
    BY <2>1, <2>2
<1> QED
  BY <1>3, <1>4 DEF v, r

LEMMA EndAdded ==
  ASSUME NEW S, NEW q \in Seq(S), NEW e \in S
  PROVE  /\ \A d : (\E i \in 1 .. Len(q) : q[i] = d)
                     => \E i \in 1 .. Len(Append(q, e)) : Append(q, e)[i] = d
         /\ \E i \in 1 .. Len(Append(q, e)) : Append(q, e)[i] = e
         /\ Len(Append(q, e)) = Len(q) + 1
<1>1. /\ Len(Append(q, e)) = Len(q) + 1 /\ Len(q) \in Nat
      /\ \A i \in 1 .. Len(q) : Append(q, e)[i] = q[i]
      /\ Append(q, e)[Len(q) + 1] = e
  OBVIOUS
<1> DEFINE v == Append(q, e)
<1> HIDE DEF v
<1>2. Len(q) + 1 \in 1 .. Len(v) /\ \A i \in 1 .. Len(q) : i \in 1 .. Len(v)
  BY <1>1 DEF v
<1> QED
  BY <1>1, <1>2 DEF v

(* What a step of a simulator does to the session it is attached to. *)
LEMMA SendStep ==
  ASSUME TypeOK, SimInv, NEW u \in Streams, SendStage(u), NEW s \in Streams
  PROVE  /\ attached[u] \in Streams /\ stage[u] \in Event
         /\ s # attached[u] \/ closed[s] \/ Len(queue[s]) >= Cap => queue'[s] = queue[s]
         /\ s = attached[u] /\ ~closed[s] /\ Len(queue[s]) < Cap
              => queue'[s] = Append(queue[s], stage[u])
<1>1. /\ attached[u] \in Streams /\ stage[u] \in Event
      /\ queue \in [Streams -> Seq(Event)] /\ Len(queue[s]) \in Nat /\ Cap \in Nat
  BY StreamAssumption DEF TypeOK, SessionTypes, SimTypes, SimInv, SendStage
<1>2. queue' = [queue EXCEPT ![attached[u]] =
                  IF ~closed[attached[u]] /\ Len(queue[attached[u]]) < Cap
                  THEN Append(queue[attached[u]], stage[u]) ELSE queue[attached[u]]]
  BY <1>1 DEF SendStage, SendEvent
<1>3. ~(Len(queue[s]) >= Cap /\ Len(queue[s]) < Cap)
  BY <1>1
<1> QED
  BY <1>1, <1>2, <1>3

(* A client that has been told completed, or soon will be, stays so. *)
LEMMA ToldStays ==
  ASSUME TypeOK, SimInv, [Next]_vars, NEW s \in Streams, Told(s) PROVE Told(s)'
<1>0. queue[s] \in Seq(Event) /\ written[s] \in Seq(Event)
  BY DEF TypeOK, SessionTypes, HandlerTypes
<1>1. ASSUME queue'[s] = queue[s], written'[s] = written[s] PROVE Told(s)'
  BY <1>1 DEF Told, Completed
<1>2. ASSUME NEW u \in Streams, Deliver(u) PROVE Told(s)'
  <2>1. CASE u # s
    BY <1>1, <1>2, <2>1 DEF Deliver, TypeOK, SessionTypes, HandlerTypes
  <2>2. CASE u = s
    <3>1. /\ queue[s] # <<>> /\ queue'[s] = Tail(queue[s])
          /\ written'[s] = Append(written[s], Head(queue[s]))
      BY <1>2, <2>2 DEF Deliver, TypeOK, SessionTypes, HandlerTypes
    <3> DEFINE w == written[s]
               q == queue[s]
    <3>2. (\E i \in 1 .. Len(w) : w[i] = Completed) \/ (\E i \in 1 .. Len(q) : q[i] = Completed)
      BY DEF Told
    <3>3. w \in Seq(Event) /\ q \in Seq(Event) /\ q # <<>>
      BY <1>0, <3>1
    <3> HIDE DEF w, q
    <3>4. \/ \E i \in 1 .. Len(Append(w, Head(q))) : Append(w, Head(q))[i] = Completed
          \/ \E i \in 1 .. Len(Tail(q)) : Tail(q)[i] = Completed
      <4>1. \A e : (\E i \in 1 .. Len(w) : w[i] = e) \/ (\E i \in 1 .. Len(q) : q[i] = e)
                  => \/ \E i \in 1 .. Len(Append(w, Head(q))) : Append(w, Head(q))[i] = e
                     \/ \E i \in 1 .. Len(Tail(q)) : Tail(q)[i] = e
        BY <3>3, HeadMoves, Zenon
      <4> QED
        BY <3>2, <4>1, Zenon
    <3>5. Completed' = Completed /\ written'[s] = Append(w, Head(q)) /\ queue'[s] = Tail(q)
      BY <3>1 DEF w, q, Completed
    <3> QED
      BY <3>4, <3>5, Zenon DEF Told
  <2> QED
    BY <2>1, <2>2
<1>3. ASSUME NEW u \in Streams, SendStage(u) PROVE Told(s)'
  <2>1. written' = written
    BY <1>3 DEF SendStage, handlerVars
  <2>2. \/ queue'[s] = queue[s]
        \/ queue'[s] = Append(queue[s], stage[u]) /\ stage[u] \in Event
    <3>1. Len(queue[s]) \in Nat /\ Cap \in Nat
      BY <1>0, StreamAssumption
    <3> QED
      BY <1>3, <3>1, SendStep
  <2>3. CASE queue'[s] = Append(queue[s], stage[u]) /\ stage[u] \in Event
    <3>1. Completed' = Completed
      BY DEF Completed
    <3>2. \A d : (\E i \in 1 .. Len(queue[s]) : queue[s][i] = d)
                  => \E i \in 1 .. Len(queue'[s]) : queue'[s][i] = d
      BY <1>0, <2>3, EndAdded
    <3> QED
      BY <2>1, <3>1, <3>2, Zenon DEF Told
  <2> QED
    BY <1>1, <2>1, <2>2, <2>3
<1>4. ASSUME UNCHANGED <<queue, written>> PROVE Told(s)'
  BY <1>1, <1>4
<1> QED
  BY <1>2, <1>3, <1>4 DEF Next, Handle, Simulate, Open, End, Leave, Loop, Disconnect, Attach,
       CheckDone, Wake, SimClose, Forget, sessionVars, handlerVars, vars

(* No session is opened again, and no client comes back. *)
LEMMA EndsAreFinal ==
  ASSUME TypeOK, SimInv, [Next]_vars, NEW s \in Streams
  PROVE  (closed[s] => closed'[s]) /\ (gone[s] => gone'[s])
BY DEF TypeOK, SessionTypes, HandlerTypes, Next, Handle, Simulate, Open, Deliver, End, Leave,
     Loop, Disconnect, Attach, CheckDone, SendStage, Wake, SimClose, Forget, CloseSession,
     SimInv, sessionVars, simVars, handlerVars, vars

(* Simulators count up and keep the session they found. *)
LEMMA SimulatorsGoOn ==
  ASSUME TypeOK, SimInv, [Next]_vars, NEW u \in Streams, NotBegun(u)
  PROVE  /\ Sent(u) > 0 => attached'[u] = attached[u]
         /\ Sent(u) \in Nat /\ Sent(u)' \in Nat /\ Sent(u) <= Sent(u)'
<1> USE StreamAssumption
<1>0. sim[u] \in SimStage /\ stage[u] \in Nat /\ stage[u] >= 1
  BY DEF TypeOK, SimTypes, Event
<1>1. ASSUME sim'[u] = sim[u], stage'[u] = stage[u], attached'[u] = attached[u]
      PROVE  /\ attached'[u] = attached[u]
             /\ Sent(u) \in Nat /\ Sent(u)' \in Nat /\ Sent(u) <= Sent(u)'
  <2>1. Sent(u)' = Sent(u)
    BY <1>1 DEF Sent
  <2>2. Sent(u) \in Nat
    BY <1>0 DEF Sent
  <2> QED
    BY <1>1, <2>1, <2>2
<1>2. ASSUME NEW s \in Streams, s # u, Open(s) \/ Simulate(s)
      PROVE  sim'[u] = sim[u] /\ stage'[u] = stage[u] /\ attached'[u] = attached[u]
  BY <1>2 DEF TypeOK, SimTypes, Open, Simulate, Attach, CheckDone, SendStage, Wake, SimClose
<1>3. CASE Open(u)
  <2>1. sim[u] = "none" /\ sim'[u] = "starting"
    BY <1>3 DEF Open, NotBegun, TypeOK, SimTypes
  <2>2. Sent(u) = 0 /\ Sent(u)' = 0
    BY <2>1 DEF Sent
  <2> QED
    BY <2>2
<1>4. CASE Attach(u)
  <2>1. /\ sim[u] = "starting" /\ sim'[u] \in {"ended", "checking"} /\ stage'[u] = 1
    BY <1>4 DEF Attach, TypeOK, SimTypes
  <2>2. Sent(u) = 0 /\ Sent(u)' \in {0, 1}
    BY <2>1 DEF Sent
  <2> QED
    BY <2>2
<1>5. CASE CheckDone(u) \/ SimClose(u)
  <2>1. /\ attached'[u] = attached[u] /\ stage'[u] = stage[u]
        /\ \/ sim[u] = "checking" /\ sim'[u] \in {"ended", "sending"}
           \/ sim[u] = "closing" /\ sim'[u] = "ended"
    BY <1>5 DEF CheckDone, SimClose, TypeOK, SimTypes
  <2> QED
    BY <1>0, <2>1 DEF Sent
<1>6. CASE SendStage(u)
  <2>1. /\ attached'[u] = attached[u] /\ stage'[u] = stage[u]
        /\ sim[u] = "sending" /\ sim'[u] \in {"closing", "sleeping"}
    BY <1>6 DEF SendStage, TypeOK, SimTypes
  <2> QED
    BY <1>0, <2>1 DEF Sent
<1>7. CASE Wake(u)
  <2>1. /\ attached'[u] = attached[u] /\ sim[u] = "sleeping"
        /\ \/ sim'[u] = "ended" /\ stage'[u] = stage[u]
           \/ sim'[u] \in {"sending", "checking"} /\ stage'[u] = stage[u] + 1
    BY <1>7 DEF Wake, TypeOK, SimTypes
  <2> QED
    BY <1>0, <2>1 DEF Sent
<1>8. ASSUME UNCHANGED simVars
      PROVE  sim'[u] = sim[u] /\ stage'[u] = stage[u] /\ attached'[u] = attached[u]
  BY <1>8 DEF simVars
<1>9. \/ \E s \in Streams : s # u /\ (Open(s) \/ Simulate(s))
      \/ Open(u) \/ Simulate(u) \/ UNCHANGED simVars
  BY DEF Next, Handle, Deliver, End, Leave, Loop, Disconnect, Forget, vars
<1> QED
  BY <1>1, <1>2, <1>3, <1>4, <1>5, <1>6, <1>7, <1>8, <1>9 DEF Simulate

(* What has been sent stays sent. *)
LEMMA SendingsGrow ==
  ASSUME TypeOK, SimInv, SharedInv, [Next]_vars, NEW s \in Streams
  PROVE  Sendings(s) \subseteq Sendings(s)'
<1> SUFFICES ASSUME NEW u \in Sharers(s), NEW e \in Event, attached[u] = s, e <= Sent(u)
             PROVE  attached'[u] = s /\ e <= Sent(u)'
  BY DEF Sendings, Sharers, Event
<1>1. u \in Streams /\ NotBegun(u)
  BY DEF Sharers, SharedInv
<1>2. e \in Nat /\ e >= 1
  BY StreamAssumption DEF Event
<1> QED
  BY <1>1, <1>2, SimulatorsGoOn

(* An event is sent once: before, it is not among the sendings, and room is  *)
(* left for it.                                                              *)
LEMMA RoomLeft ==
  ASSUME TypeOK, SimInv, SharedInv, RoomForAll, [Next]_vars, NEW u \in Streams, SendStage(u),
         NEW s \in Streams, s = attached[u]
  PROVE  Len(queue[s]) < Cap /\ Cardinality(Sendings(s)') >= Cardinality(Sendings(s)) + 1
<1> DEFINE p == <<u, stage[u]>>
<1>1. stage[u] \in Event /\ u \in Sharers(s) /\ p \in Sharers(s) \X Event
  <2>1. s \in Streams /\ stage[u] \in Event
    BY SendStep
  <2>2. attached[u] # Nil
    BY <2>1, StreamAssumption
  <2>3. IdOf[s] = IdOf[u]
    BY <2>2 DEF SharedInv, OfOneScan
  <2> QED
    BY <2>1, <2>3 DEF Sharers
<1>2. /\ sim[u] = "sending" /\ sim'[u] \in {"closing", "sleeping"}
      /\ stage'[u] = stage[u] /\ attached'[u] = s /\ stage[u] \in Nat
  BY <1>1, StreamAssumption DEF SendStage, TypeOK, SimTypes, Event
<1>3. Sent(u) = stage[u] - 1 /\ Sent(u)' = stage[u]
  BY <1>2 DEF Sent
<1>4. p \notin Sendings(s)
  BY <1>2, <1>3 DEF Sendings
<1>5. p \in Sendings(s)'
  BY <1>1, <1>2, <1>3 DEF Sendings, Sharers, Event
<1> HIDE DEF p
<1>6. /\ IsFiniteSet(Sendings(s)) /\ Cardinality(Sendings(s)) \in Nat
      /\ IsFiniteSet(Sendings(s)') /\ Cardinality(Sendings(s)') \in Nat
  BY <1>1, SendingsFinite
<1>7. Cardinality(Sendings(s) \cup {p}) = Cardinality(Sendings(s)) + 1
  BY <1>4, <1>6, FS_AddElement
<1>8. Sendings(s) \cup {p} \subseteq Sendings(s)'
  BY <1>1, <1>5, SendingsGrow
<1>9. Cardinality(Sendings(s)') >= Cardinality(Sendings(s)) + 1
  <2>1. Cardinality(Sendings(s) \cup {p}) <= Cardinality(Sendings(s)')
    BY <1>6, <1>8, FS_Subset
  <2> QED
    BY <1>7, <2>1
<1>10. Len(queue[s]) < Cap
  <2>1. Cardinality(Sendings(s) \cup {p}) <= Cardinality(Sharers(s) \X Event)
    <3>1. Sendings(s) \cup {p} \subseteq Sharers(s) \X Event
      BY <1>1 DEF Sendings
    <3> QED
      BY <1>1, <3>1, RoomOfSendings, FS_Subset
  <2>2. Len(written[s]) + Len(queue[s]) <= Cardinality(Sendings(s))
    BY <1>1 DEF SharedInv, SentAtMost
  <2>3. Len(written[s]) \in Nat /\ Len(queue[s]) \in Nat
    BY <1>1 DEF TypeOK, SessionTypes, HandlerTypes
  <2>4. /\ Cardinality(Sharers(s) \X Event) <= Cap /\ Cap \in Nat
        /\ Cardinality(Sharers(s) \X Event) \in Nat
    BY <1>1, RoomOfSendings, StreamAssumption
  <2> DEFINE a == Len(written[s])
             b == Len(queue[s])
             c == Cardinality(Sendings(s))
             d == Cardinality(Sharers(s) \X Event)
  <2>5. c + 1 <= d
    BY <1>7, <2>1
  <2>6. a \in Nat /\ b \in Nat /\ c \in Nat /\ d \in Nat /\ Cap \in Nat /\ a + b <= c /\ d <= Cap
    BY <1>6, <2>2, <2>3, <2>4
  <2> HIDE DEF a, b, c, d
  <2>7. b < Cap
    BY <2>5, <2>6
  <2> QED
    BY <2>7 DEF b
<1> QED
  BY <1>9, <1>10

LEMMA SharedInit == ASSUME RoomForAll PROVE Init => SharedInv
<1> SUFFICES ASSUME Init, NEW s \in Streams
             PROVE  NotBegun(s) /\ OfOneScan(s) /\ ToldBeforeClosing(s) /\ DoneIsDrained(s) /\ SentAtMost(s)
  BY DEF SharedInv
<1> USE StreamAssumption
<1>1. NotBegun(s) /\ OfOneScan(s) /\ ToldBeforeClosing(s) /\ DoneIsDrained(s)
  BY DEF Init, NotBegun, OfOneScan, ToldBeforeClosing, DoneIsDrained
<1>2. SentAtMost(s)
  <2>1. Len(written[s]) = 0 /\ Len(queue[s]) = 0
    BY DEF Init
  <2>2. Cardinality(Sendings(s)) \in Nat
    BY SendingsFinite
  <2> QED
    BY <2>1, <2>2 DEF SentAtMost
<1> QED
  BY <1>1, <1>2

LEMMA NotBegunStep ==
  ASSUME TypeOK, SharedInv, [Next]_vars, NEW s \in Streams PROVE NotBegun(s)'
<1>0. NotBegun(s)
  BY DEF SharedInv
<1>1. ASSUME NEW u \in Streams, Open(u) PROVE NotBegun(s)'
  BY <1>0, <1>1 DEF Open, NotBegun, TypeOK, SimTypes, HandlerTypes
<1>2. ASSUME NEW u \in Streams, Handle(u) PROVE NotBegun(s)'
  BY <1>0, <1>2 DEF Handle, Deliver, End, Leave, Loop, NotBegun, TypeOK, HandlerTypes, simVars
<1>3. ASSUME NEW u \in Streams, Simulate(u) PROVE NotBegun(s)'
  BY <1>0, <1>3 DEF Simulate, Attach, CheckDone, SendStage, Wake, SimClose, NotBegun, TypeOK,
       SimTypes, handlerVars
<1> QED
  BY <1>0, <1>1, <1>2, <1>3 DEF Next, Disconnect, Forget, NotBegun, simVars, handlerVars, vars

LEMMA OfOneScanStep ==
  ASSUME TypeOK, SharedInv, [Next]_vars, NEW s \in Streams PROVE OfOneScan(s)'
<1> USE StreamAssumption
<1>0. OfOneScan(s) /\ IdOf[s] \in Ids
  BY DEF SharedInv
<1>1. ASSUME NEW u \in Streams, Open(u) PROVE OfOneScan(s)'
  BY <1>0, <1>1 DEF Open, OfOneScan, TypeOK, SessionTypes
<1>2. ASSUME NEW u \in Streams, Attach(u) PROVE OfOneScan(s)'
  BY <1>0, <1>2 DEF Attach, OfOneScan, TypeOK, SimTypes, sessionVars
<1>3. ASSUME NEW u \in Streams, Forget(u) PROVE OfOneScan(s)'
  BY <1>0, <1>3 DEF Forget, OfOneScan, TypeOK, SessionTypes, simVars
<1>4. ASSUME UNCHANGED <<sessions, attached>> PROVE OfOneScan(s)'
  BY <1>0, <1>4 DEF OfOneScan
<1> QED
  BY <1>1, <1>2, <1>3, <1>4 DEF Next, Handle, Simulate, Deliver, End, Leave, Loop, Disconnect,
       CheckDone, SendStage, Wake, SimClose, sessionVars, simVars, vars

LEMMA ToldBeforeClosingStep ==
  ASSUME TypeOK, SimInv, SharedInv, RoomForAll, [Next]_vars, NEW s \in Streams
  PROVE  ToldBeforeClosing(s)'
<1>1. ASSUME sim'[s] = "closing" PROVE (closed[attached[s]] \/ Told(attached[s]))'
  <2>1. CASE sim[s] = "closing"
    <3>1. attached[s] \in Streams /\ (closed[attached[s]] \/ Told(attached[s]))
      BY <2>1 DEF SharedInv, ToldBeforeClosing, SimInv
    <3>2. attached'[s] = attached[s]
      BY <1>1, <2>1 DEF TypeOK, SimTypes, Next, Handle, Simulate, Open, Deliver, End, Leave, Loop,
           Disconnect, Attach, CheckDone, SendStage, Wake, SimClose, Forget, simVars, vars
    <3>3. (closed[attached[s]] => closed'[attached[s]]) /\ (Told(attached[s]) => Told(attached[s])')
      <4>1. \A t \in Streams : (closed[t] => closed'[t]) /\ (Told(t) => Told(t)')
        BY ToldStays, EndsAreFinal
      <4> QED
        BY <3>1, <3>2, <4>1 DEF Told
    <3> QED
      BY <3>1, <3>2, <3>3
  <2>2. CASE sim[s] # "closing"
    <3>1. SendStage(s) /\ stage[s] = Completed
      BY <1>1, <2>2 DEF TypeOK, SimTypes, Next, Handle, Simulate, Open, Deliver, End, Leave, Loop,
           Disconnect, Attach, CheckDone, SendStage, Wake, SimClose, Forget, simVars, vars
    <3>2. attached[s] \in Streams /\ stage[s] \in Event
      BY <3>1, SendStep
    <3>6. PICK t \in Streams : t = attached[s]
      BY <3>2, Zenon
    <3>3. Len(queue[t]) < Cap
      BY <3>1, <3>6, RoomLeft
    <3>4. attached'[s] = t /\ closed'[t] = closed[t]
      BY <3>1, <3>6 DEF SendStage
    <3>5. CASE ~closed[t]
      <4>1. queue'[t] = Append(queue[t], Completed)
        BY <3>1, <3>3, <3>5, <3>6, SendStep
      <4>2. queue[t] \in Seq(Event) /\ Completed \in Event
        BY <3>1, <3>2 DEF TypeOK, SessionTypes
      <4>3. \E i \in 1 .. Len(queue'[t]) : queue'[t][i] = Completed
        BY <4>1, <4>2, EndAdded
      <4>4. Completed' = Completed
        BY DEF Completed
      <4>5. Told(t)'
        BY <4>3, <4>4, Zenon DEF Told
      <4> QED
        BY <3>4, <4>5 DEF Told
    <3> QED
      BY <3>4, <3>5
  <2> QED
    BY <2>1, <2>2
<1>2. ASSUME closed'[s] PROVE gone'[s] \/ Told(s)'
  <2>1. CASE closed[s]
    BY <2>1, ToldStays, EndsAreFinal DEF SharedInv, ToldBeforeClosing
  <2>2. CASE ~closed[s]
    <3>1. (Leave(s) /\ gone[s]) \/ \E u \in Streams : SimClose(u) /\ attached[u] = s
      BY <1>2, <2>2 DEF TypeOK, SessionTypes, Next, Handle, Simulate, Open, Deliver, End, Leave,
           Loop, Disconnect, Attach, CheckDone, SendStage, Wake, SimClose, Forget, CloseSession,
           sessionVars, vars
    <3>2. ASSUME NEW u \in Streams, SimClose(u), attached[u] = s PROVE Told(s)
      BY <2>2, <3>2 DEF SimClose, SharedInv, ToldBeforeClosing
    <3> QED
      BY <3>1, <3>2, ToldStays, EndsAreFinal
  <2> QED
    BY <2>1, <2>2
<1> QED
  BY <1>1, <1>2 DEF ToldBeforeClosing

LEMMA DoneIsDrainedStep ==
  ASSUME TypeOK, SimInv, SharedInv, [Next]_vars, NEW s \in Streams PROVE DoneIsDrained(s)'
<1> SUFFICES ASSUME handler'[s] = "done" PROVE closed'[s] /\ queue'[s] = <<>>
  BY DEF DoneIsDrained
<1>1. CASE handler[s] = "done"
  <2>1. closed[s] /\ queue[s] = <<>>
    BY <1>1 DEF SharedInv, DoneIsDrained
  <2>2. closed'[s]
    BY <2>1, EndsAreFinal
  <2>3. ASSUME NEW u \in Streams, Deliver(u) PROVE queue'[s] = queue[s]
    BY <1>1, <2>3 DEF Deliver, TypeOK, SessionTypes
  <2>4. ASSUME NEW u \in Streams, SendStage(u) PROVE queue'[s] = queue[s]
    BY <2>1, <2>4, SendStep DEF TypeOK, SessionTypes
  <2>5. queue'[s] = queue[s]
    BY <2>3, <2>4 DEF Next, Handle, Simulate, Open, End, Leave, Loop, Disconnect, Attach,
         CheckDone, Wake, SimClose, Forget, sessionVars, vars
  <2> QED
    BY <2>1, <2>2, <2>5
<1>2. CASE handler[s] # "done"
  <2>1. End(s)
    BY <1>2 DEF TypeOK, HandlerTypes, Next, Handle, Simulate, Open, Deliver, End, Leave, Loop,
         Disconnect, Attach, CheckDone, SendStage, Wake, SimClose, Forget, handlerVars, vars
  <2> QED
    BY <2>1 DEF End, sessionVars
<1> QED
  BY <1>1, <1>2

(* What is received in a step and what was sent in it keep their distance. *)
LEMMA Below ==
  ASSUME NEW a \in Nat, NEW b \in Nat, NEW c \in Nat, NEW a1 \in Nat, NEW b1 \in Nat,
         NEW c1 \in Nat, a + b <= c
  PROVE  /\ a1 + b1 = a + b /\ c <= c1 => a1 + b1 <= c1
         /\ a1 = a /\ b1 = b + 1 /\ c + 1 <= c1 => a1 + b1 <= c1
         /\ a1 = a + 1 /\ b1 = b - 1 => a1 + b1 = a + b
OBVIOUS

LEMMA SentAtMostStep ==
  ASSUME TypeOK, TypeOK', SimInv, SharedInv, RoomForAll, [Next]_vars, NEW s \in Streams
  PROVE  SentAtMost(s)'
<1>0. /\ queue[s] \in Seq(Event) /\ written[s] \in Seq(Event)
      /\ Len(queue[s]) \in Nat /\ Len(written[s]) \in Nat
      /\ Len(queue'[s]) \in Nat /\ Len(written'[s]) \in Nat
  BY DEF TypeOK, SessionTypes, HandlerTypes
<1>1. Len(written[s]) + Len(queue[s]) <= Cardinality(Sendings(s))
  BY DEF SharedInv, SentAtMost
<1>2. /\ Cardinality(Sendings(s)) \in Nat /\ Cardinality(Sendings(s)') \in Nat
      /\ Cardinality(Sendings(s)) <= Cardinality(Sendings(s)')
  <2>1. /\ IsFiniteSet(Sendings(s)') /\ Sendings(s) \subseteq Sendings(s)'
        /\ Cardinality(Sendings(s)) \in Nat /\ Cardinality(Sendings(s)') \in Nat
    BY SendingsFinite, SendingsGrow
  <2> QED
    BY <2>1, FS_Subset
<1> DEFINE a == Len(written[s])
           b == Len(queue[s])
           c == Cardinality(Sendings(s))
           a1 == Len(written'[s])
           b1 == Len(queue'[s])
           c1 == Cardinality(Sendings(s)')
<1>b. /\ a1 + b1 = a + b => a1 + b1 <= c1
      /\ a1 = a /\ b1 = b + 1 /\ c + 1 <= c1 => a1 + b1 <= c1
      /\ a1 = a + 1 /\ b1 = b - 1 => a1 + b1 = a + b
  <2>1. /\ a \in Nat /\ b \in Nat /\ c \in Nat /\ a1 \in Nat /\ b1 \in Nat /\ c1 \in Nat
        /\ a + b <= c /\ c <= c1
    BY <1>0, <1>1, <1>2
  <2> HIDE DEF a, b, c, a1, b1, c1
  <2> QED
    BY <2>1, Below
<1>3. ASSUME Len(written'[s]) + Len(queue'[s]) = Len(written[s]) + Len(queue[s])
      PROVE  SentAtMost(s)'
  <2>1. Len(written'[s]) + Len(queue'[s]) <= Cardinality(Sendings(s)')
    BY <1>b, <1>3
  <2> QED
    BY <2>1 DEF SentAtMost
<1>4. ASSUME NEW u \in Streams, Deliver(u) PROVE SentAtMost(s)'
  <2>1. CASE u # s
    BY <1>3, <1>4, <2>1 DEF Deliver, TypeOK, SessionTypes, HandlerTypes
  <2>2. CASE u = s
    <3>1. /\ queue[s] # <<>> /\ queue'[s] = Tail(queue[s])
          /\ written'[s] = Append(written[s], Head(queue[s]))
      BY <1>4, <2>2 DEF Deliver, TypeOK, SessionTypes, HandlerTypes
    <3>2. Len(queue'[s]) = Len(queue[s]) - 1
      <4> DEFINE q == queue[s]
      <4>1. q \in Seq(Event) /\ q # <<>>
        BY <1>0, <3>1
      <4> HIDE DEF q
      <4>2. Len(Tail(q)) = Len(q) - 1
        BY <4>1
      <4> QED
        BY <3>1, <4>2 DEF q
    <3>3. Len(written'[s]) = Len(written[s]) + 1
      BY <1>0, <3>1
    <3>4. Len(written'[s]) + Len(queue'[s]) = Len(written[s]) + Len(queue[s])
      BY <1>b, <3>2, <3>3
    <3> QED
      BY <1>3, <3>4
  <2> QED
    BY <2>1, <2>2
<1>5. ASSUME NEW u \in Streams, SendStage(u) PROVE SentAtMost(s)'
  <2>0. written' = written
    BY <1>5 DEF SendStage, handlerVars
  <2>1. CASE queue'[s] = queue[s]
    BY <1>3, <2>0, <2>1
  <2>2. CASE queue'[s] # queue[s]
    <3>1. /\ attached[u] = s /\ stage[u] \in Event
          /\ queue'[s] = Append(queue[s], stage[u])
      <4>1. Len(queue[s]) >= Cap \/ Len(queue[s]) < Cap
        BY <1>0, StreamAssumption
      <4> QED
        BY <1>5, <2>2, <4>1, SendStep
    <3>2. Len(queue'[s]) = Len(queue[s]) + 1
      BY <1>0, <3>1, EndAdded
    <3>3. Cardinality(Sendings(s)') >= Cardinality(Sendings(s)) + 1
      BY <1>5, <3>1, RoomLeft
    <3>4. Len(written'[s]) + Len(queue'[s]) <= Cardinality(Sendings(s)')
      <4>1. a1 = a /\ b1 = b + 1
        BY <2>0, <3>2
      <4>2. c + 1 <= c1
        BY <1>2, <3>3
      <4> HIDE DEF a, b, c, a1, b1, c1
      <4>3. a1 + b1 <= c1
        BY <1>b, <4>1, <4>2
      <4> QED
        BY <4>3 DEF a1, b1, c1
    <3> QED
      BY <3>4 DEF SentAtMost
  <2> QED
    BY <2>1, <2>2
<1>6. ASSUME UNCHANGED <<queue, written>> PROVE SentAtMost(s)'
  BY <1>3, <1>6
<1> QED
  BY <1>4, <1>5, <1>6 DEF Next, Handle, Simulate, Open, End, Leave, Loop, Disconnect, Attach,
       CheckDone, Wake, SimClose, Forget, sessionVars, handlerVars, vars

(* For requests that share scans, and channels with room for all of them.   *)
THEOREM SharedInvariance == ASSUME RoomForAll PROVE Spec => []SharedInv
<1>1. Init => SharedInv
  BY SharedInit
<1>2. TypeOK /\ TypeOK' /\ SimInv /\ SharedInv /\ [Next]_vars => SharedInv'
  BY NotBegunStep, OfOneScanStep, ToldBeforeClosingStep, DoneIsDrainedStep, SentAtMostStep
     DEF SharedInv
<1> QED
  BY <1>1, <1>2, TypeCorrect, PTL DEF Spec

(* A client told "done" that has not left was told "completed", whosever     *)
(* simulator closed its session: nobody closes one before completed is in    *)
(* it, and End that nothing is buffered any more.                            *)
THEOREM DoneAfterCompleted == ASSUME RoomForAll PROVE Spec => []DoneMeansCompleted
<1>1. TypeOK /\ SharedInv => DoneMeansCompleted
  <2> SUFFICES ASSUME TypeOK, SharedInv, NEW s \in Streams, handler[s] = "done", ~gone[s]
               PROVE  \E i \in 1 .. Len(written[s]) : written[s][i] = Completed
    BY DEF DoneMeansCompleted
  <2>1. closed[s] /\ queue[s] = <<>>
    BY DEF SharedInv, DoneIsDrained
  <2>2. Told(s)
    BY <2>1 DEF SharedInv, ToldBeforeClosing
  <2>3. ~ \E i \in 1 .. Len(queue[s]) : queue[s][i] = Completed
    BY <2>1
  <2> QED
    BY <2>2, <2>3 DEF Told
<1> QED
  BY <1>1, SharedInvariance, TypeCorrect, PTL

-----------------------------------------------------------------------------
(* The stream implements ProgressFeed: two sessions, a simulator that may  *)
(* attach late and a handler that drains at its own pace are, to a client  *)
(* of its own scan, a counter that goes to N + 1 and ends.                 *)
THEOREM ImplementsFeed ==
  ASSUME OwnScans, Roomy PROVE Spec => FeedSpec
<1> USE StreamAssumption
<1> DEFINE heard == [s \in Streams |-> IF written[s] = <<>> THEN 0
                                       ELSE written[s][Len(written[s])]]
           phase == [s \in Streams |-> Phase(s)]
<1>1. Init => Feed!Init
  BY DEF Init, Feed!Init, Phase
<1>2. TypeOK /\ SimInv /\ OwnInv /\ [Next]_vars => [Feed!Next]_Feed!vars
  <2> SUFFICES ASSUME TypeOK, SimInv, OwnInv, [Next]_vars
               PROVE  [Feed!Next]_<<phase, heard>>
    BY DEF Feed!vars
  <2>q. ASSUME UNCHANGED <<handler, written>> PROVE UNCHANGED <<phase, heard>>
    BY <2>q DEF Phase
  <2>h. ASSUME UNCHANGED written PROVE UNCHANGED heard
    BY <2>h
  <2>p. ASSUME NEW s \in Streams, NEW h \in HandlerStage,
               handler' = [handler EXCEPT ![s] = h]
        PROVE  phase' = [phase EXCEPT ![s] =
                 IF h \in {"waiting", "looping"} THEN "open" ELSE h]
    BY <2>p DEF Phase, TypeOK, HandlerTypes
  <2> USE DEF HandlerStage
  <2>1. ASSUME NEW s \in Streams, Open(s) PROVE Feed!Open(s)
    BY <2>1, <2>p, <2>h DEF Open, Feed!Open, Phase
  <2>2. ASSUME NEW s \in Streams, Deliver(s) PROVE Feed!Hear(s)
    <3>1. phase[s] = "open" /\ phase' = phase
      BY <2>2 DEF Deliver, Phase, TypeOK, HandlerTypes
    <3>2. heard[s] = Len(written[s]) /\ Len(written[s]) \in Nat
      BY DEF OwnInv, OwnAt, TypeOK, HandlerTypes
    <3>3. Head(queue[s]) = Len(written[s]) + 1 /\ Head(queue[s]) \in Event
      <4>1. \A i \in 1 .. Len(queue[s]) : queue[s][i] = Len(written[s]) + i
        BY DEF OwnInv, OwnAt
      <4>2. queue[s] \in Seq(Event) /\ queue[s] # <<>>
        BY <2>2 DEF Deliver, TypeOK, SessionTypes
      <4> QED BY <3>2, <4>1, <4>2, TailRun
    <3>4. heard' = [heard EXCEPT ![s] = Head(queue[s])]
      <4> DEFINE e == Head(queue[s])
      <4>1. /\ written' = [written EXCEPT ![s] = Append(@, e)]
            /\ written \in [Streams -> Seq(Event)] /\ written[s] \in Seq(Event)
        BY <2>2 DEF Deliver, TypeOK, HandlerTypes
      <4>2. e \in Event  BY <3>3
      <4> HIDE DEF e
      <4>3. /\ Append(written[s], e) # <<>>
            /\ Append(written[s], e)[Len(Append(written[s], e))] = e
        BY <4>1, <4>2
      <4>4. \A u \in Streams :
              written'[u] = IF u = s THEN Append(written[s], e) ELSE written[u]
        BY <4>1
      <4>5. \A u \in Streams : heard'[u] = IF u = s THEN e ELSE heard[u]
        BY <4>3, <4>4
      <4> QED BY <4>5 DEF e
    <3>5. heard[s] <= N
      BY <3>2, <3>3 DEF Event
    <3> HIDE DEF heard, phase
    <3>6. heard' = [heard EXCEPT ![s] = @ + 1]
      BY <3>2, <3>3, <3>4
    <3> QED BY <3>1, <3>5, <3>6 DEF Feed!Hear, heard, phase
  <2>3. ASSUME NEW s \in Streams, End(s) PROVE Feed!End(s)
    <3>1. Len(written[s]) = N + 1 /\ Len(written[s]) \in Nat
      BY <2>3 DEF End, OwnInv, OwnAt, TypeOK, HandlerTypes, Completed
    <3>2. heard[s] = N + 1
      <4>1. \A i \in 1 .. Len(written[s]) : written[s][i] = i
        BY DEF OwnInv, OwnAt
      <4>2. written[s] # <<>> /\ written[s][Len(written[s])] = N + 1
        BY <3>1, <4>1
      <4> QED BY <4>2
    <3> QED BY <2>3, <3>2, <2>p, <2>h DEF End, Feed!End, Phase
  <2>4. ASSUME NEW s \in Streams, Leave(s) PROVE Feed!Leave(s)
    BY <2>4, <2>p, <2>h DEF Leave, Feed!Leave, Phase
  <2>5. ASSUME NEW s \in Streams, Loop(s)
        PROVE  UNCHANGED <<phase, heard>> \/ Feed!Leave(s)
    <3>1. CASE handler' = [handler EXCEPT ![s] = "waiting"]
      BY <2>5, <3>1, <2>h DEF Loop, Phase, TypeOK, HandlerTypes
    <3>2. CASE handler' = [handler EXCEPT ![s] = "cut"]
      BY <2>5, <3>2, <2>p, <2>h DEF Loop, Feed!Leave, Phase
    <3> QED BY <2>5, <3>1, <3>2 DEF Loop
  <2>6. ASSUME NEW s \in Streams, Disconnect(s) \/ Simulate(s) \/ Forget(s)
        PROVE  UNCHANGED <<handler, written>>
    BY <2>6 DEF Disconnect, Simulate, Attach, CheckDone, SendStage, Wake,
                SimClose, Forget, handlerVars
  <2>7. CASE UNCHANGED vars
    BY <2>7, <2>q DEF vars, handlerVars
  <2> QED BY <2>1, <2>2, <2>3, <2>4, <2>5, <2>6, <2>7, <2>q
             DEF Next, Handle, Feed!Next
<1> QED BY <1>1, <1>2, OwnInvariance, TypeCorrect, PTL
        DEF Spec, FeedSpec, Feed!Spec
=============================================================================
