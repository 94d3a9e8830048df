--------------------------- MODULE ScanPage_proofs ---------------------------
(* Proofs about ScanPage, for any number of scans and requests in flight. *)
EXTENDS ScanPage, TLAPS

(* Every step keeps the types. *)
LEMMA TypeStep == TypeOK /\ [Next]_vars => TypeOK'
<1> SUFFICES ASSUME TypeOK, [Next]_vars PROVE TypeOK'
  OBVIOUS
<1> USE PageAssumption DEF TypeOK, Server, Trigger, Reply, Shown
<1>1. ASSUME NEW j \in Jobs, Start(j) PROVE TypeOK'
  <2>1. scanning' \in BOOLEAN /\ mounted' \in BOOLEAN
    BY <1>1, Zenon DEF Start
  <2>2. bar' \in {0, 30, 100} /\ attempts' \in 0 .. MaxAttempts
    BY <1>1 DEF Start
  <2>3. /\ server' \in [Jobs -> Server] /\ poll' \in [Polls -> Request \cup {Free}]
        /\ timer' \in Jobs \cup {Nil}
    BY <1>1 DEF Start, ClearPolling
  <2>4. trigger' \in [Jobs -> Trigger] /\ shown' \in [Jobs -> Shown]
    BY <1>1 DEF Start, Show
  <2> QED
    BY <2>1, <2>2, <2>3, <2>4
<1>2. ASSUME NEW j \in Jobs, Post(j) PROVE TypeOK'
  <2>1. scanning' \in BOOLEAN /\ mounted' \in BOOLEAN
    <3>1. scanning' = scanning \/ scanning' = FALSE
      BY <1>2, Zenon DEF Post, Accept, BeginPolling, TriggerFails, pageVars
    <3>2. mounted' = mounted
      BY <1>2, Zenon DEF Post, Accept, BeginPolling, TriggerFails, pageVars
    <3> QED
      BY <3>1, <3>2, Zenon
  <2>2. bar' \in {0, 30, 100} /\ attempts' \in 0 .. MaxAttempts
    BY <1>2 DEF Post, Accept, BeginPolling, TriggerFails, refVars, pageVars
  <2>3. /\ server' \in [Jobs -> Server] /\ poll' \in [Polls -> Request \cup {Free}]
        /\ timer' \in Jobs \cup {Nil}
    BY <1>2 DEF Post, Accept, BeginPolling, TriggerFails, ClearPolling, refVars
  <2>4. trigger' \in [Jobs -> Trigger] /\ shown' \in [Jobs -> Shown]
    BY <1>2 DEF Post, Accept, BeginPolling, TriggerFails, Show, pageVars
  <2> QED
    BY <2>1, <2>2, <2>3, <2>4
<1>3. ASSUME NEW j \in Jobs, Finish(j) PROVE TypeOK'
  BY <1>3 DEF Finish, refVars, pageVars
<1>4. ASSUME NEW p \in Polls, Poll(p) PROVE TypeOK'
  <2>1. [job |-> timer, state |-> "sent"] \in Request
    BY <1>4 DEF Poll, Request
  <2>2. poll' \in [Polls -> Request \cup {Free}]
    BY <1>4, <2>1 DEF Poll
  <2>3. attempts' \in 0 .. MaxAttempts
    BY <1>4 DEF Poll
  <2> QED
    BY <1>4, <2>2, <2>3 DEF Poll, pageVars
<1>5. ASSUME NEW p \in Polls, Callback(p) PROVE TypeOK'
  <2>1. poll[p] # Free => poll[p] \in Request
    OBVIOUS
  <2>2. poll[p].state \in {"sent", "running", "completed", "error"} =>
          poll[p].job \in Jobs
    BY <2>1 DEF Free, Request
  <2>3. CASE Answer(p) \/ Lose(p)
    <3>0. poll[p].job \in Jobs
      BY <2>2, <2>3 DEF Answer, Lose
    <3>1. \A s \in Reply : [job |-> poll[p].job, state |-> s] \in Request
      BY <3>0 DEF Request
    <3>2. poll' \in [Polls -> Request \cup {Free}]
      BY <2>3, <3>1 DEF Answer, Lose, Becomes
    <3> QED
      BY <2>3, <3>2 DEF Answer, Lose, refVars, pageVars
  <2>4. CASE Receive(p)
    <3>1. scanning' \in BOOLEAN /\ mounted' \in BOOLEAN
      BY <2>4, Zenon DEF Receive
    <3>2. /\ server' \in [Jobs -> Server] /\ trigger' \in [Jobs -> Trigger]
          /\ poll' \in [Polls -> Request \cup {Free}]
      BY <2>4 DEF Receive
    <3>3. timer' \in Jobs \cup {Nil} /\ attempts' \in 0 .. MaxAttempts
      BY <2>4 DEF Receive, ClearPolling
    <3>4. shown' \in [Jobs -> Shown] /\ bar' \in {0, 30, 100}
      BY <2>2, <2>4 DEF Receive, Show
    <3> QED
      BY <3>1, <3>2, <3>3, <3>4
  <2>5. CASE ReceiveError(p)
    <3>1. scanning' \in BOOLEAN /\ mounted' \in BOOLEAN
      BY <2>5, Zenon DEF ReceiveError
    <3>2. /\ server' \in [Jobs -> Server] /\ trigger' \in [Jobs -> Trigger]
          /\ poll' \in [Polls -> Request \cup {Free}]
      BY <2>5 DEF ReceiveError
    <3>3. timer' \in Jobs \cup {Nil} /\ attempts' \in 0 .. MaxAttempts
      BY <2>5 DEF ReceiveError, ClearPolling
    <3>4. shown' \in [Jobs -> Shown] /\ bar' \in {0, 30, 100}
      BY <2>2, <2>5 DEF ReceiveError, Show
    <3> QED
      BY <3>1, <3>2, <3>3, <3>4
  <2> QED
    BY <1>5, <2>3, <2>4, <2>5 DEF Callback
<1>6. CASE Leave
  BY <1>6 DEF Leave, ClearPolling, netVars
<1>7. CASE Restart
  BY <1>7 DEF Restart, Forgotten, refVars, pageVars
<1>8. CASE UNCHANGED vars
  BY <1>8 DEF vars, netVars, refVars, pageVars
<1> QED
  BY <1>1, <1>2, <1>3, <1>4, <1>5, <1>6, <1>7, <1>8 DEF Next

(* In every reachable state each variable of the page has its type: no       *)
(* callback brings a status, a count or a timer the page does not know.      *)
THEOREM TypeCorrect == Spec => []TypeOK
<1>1. Init => TypeOK
  <2> SUFFICES ASSUME Init PROVE TypeOK
    OBVIOUS
  <2>1. scanning \in BOOLEAN /\ mounted \in BOOLEAN
    BY Zenon DEF Init
  <2>2. /\ server \in [Jobs -> Server] /\ trigger \in [Jobs -> Trigger]
        /\ poll \in [Polls -> Request \cup {Free}] /\ timer \in Jobs \cup {Nil}
        /\ shown \in [Jobs -> Shown]
    BY DEF Init, Server, Trigger, Shown
  <2>3. attempts \in 0 .. MaxAttempts /\ bar \in {0, 30, 100}
    BY PageAssumption DEF Init
  <2> QED
    BY <2>1, <2>2, <2>3 DEF TypeOK
<1> QED
  BY <1>1, TypeStep, PTL DEF Spec

-----------------------------------------------------------------------------
(* The status of the request of p in an action that continues its callback. *)
LEMMA CallbackJob ==
  ASSUME TypeOK, NEW p \in Polls, Callback(p)
  PROVE  poll[p] # Free /\ poll[p] \in Request /\ poll[p].job \in Jobs
<1>1. poll[p] # Free
  BY DEF Callback, Answer, Lose, Receive, ReceiveError, Free
<1>2. poll[p] \in Request
  BY <1>1 DEF TypeOK
<1> QED
  BY <1>1, <1>2 DEF Request

(* A step of the page keeps what is known of scans, requests and the button. *)
LEMMA PageStep == TypeOK /\ PageInv /\ [Next]_vars => PageInv'
<1> SUFFICES ASSUME TypeOK, PageInv, [Next]_vars PROVE PageInv'
  OBVIOUS
<1> USE PageAssumption DEF TypeOK, PageInv, NetInv, CompletedIsTrue,
      ButtonHasCause, Pending, Completed
<1>1. ASSUME NEW j \in Jobs, Start(j) PROVE PageInv'
  BY <1>1 DEF Start, ClearPolling, Show
<1>2. ASSUME NEW j \in Jobs, Accept(j) PROVE PageInv'
  BY <1>2 DEF Accept, refVars, pageVars
<1>3. ASSUME NEW j \in Jobs, BeginPolling(j) PROVE PageInv'
  BY <1>3 DEF BeginPolling, Show
<1>4. ASSUME NEW j \in Jobs, TriggerFails(j) PROVE PageInv'
  BY <1>4 DEF TriggerFails, ClearPolling, Show
<1>5. ASSUME NEW j \in Jobs, Finish(j) PROVE PageInv'
  BY <1>5 DEF Finish, refVars, pageVars
<1>6. ASSUME NEW p \in Polls, Poll(p) PROVE PageInv'
  BY <1>6 DEF Poll, pageVars
<1>7. ASSUME NEW p \in Polls, Answer(p) \/ Lose(p) PROVE PageInv'
  <2>1. poll[p] # Free /\ poll[p] \in Request /\ poll[p].job \in Jobs
    BY <1>7, CallbackJob DEF Callback
  <2>2. /\ poll'[p].job = poll[p].job
        /\ poll'[p].state = "completed" => server[poll[p].job] = "completed"
                                           \/ poll[p].state = "completed"
    BY <1>7, <2>1 DEF Answer, Lose, Becomes, Reply, Request
  <2>3. \A q \in Polls : q # p => poll'[q] = poll[q]
    BY <1>7 DEF Answer, Lose, Becomes
  <2>4. UNCHANGED <<server, trigger, timer, shown, scanning, mounted>>
    BY <1>7 DEF Answer, Lose, refVars, pageVars
  <2>5. \A q \in Polls : poll'[q] # Free => poll[q] # Free /\ poll'[q].job = poll[q].job
    BY <2>1, <2>2, <2>3
  <2>6. ASSUME NEW q \in Polls, poll'[q].state = "completed", poll'[q] # Free
        PROVE  Completed(poll[q].job)
    <3>1. CASE q = p
      BY <2>1, <2>2, <2>6, <3>1
    <3>2. CASE q # p
      BY <2>3, <2>6, <3>2
    <3> QED
      BY <3>1, <3>2
  <2>7. \A q \in Polls : poll'[q] # Free =>
          /\ trigger'[poll'[q].job] = "over"
          /\ poll'[q].state = "completed" => server'[poll'[q].job] \in {"completed", "gone"}
    <3> SUFFICES ASSUME NEW q \in Polls, poll'[q] # Free
                 PROVE  /\ trigger'[poll'[q].job] = "over"
                        /\ poll'[q].state = "completed" =>
                             server'[poll'[q].job] \in {"completed", "gone"}
      OBVIOUS
    <3>1. poll[q] # Free /\ poll'[q].job = poll[q].job
      BY <2>5
    <3>2. trigger[poll[q].job] = "over"
      BY <3>1
    <3>3. trigger'[poll'[q].job] = "over"
      BY <2>4, <3>1, <3>2
    <3>4. poll'[q].state = "completed" => server'[poll'[q].job] \in {"completed", "gone"}
      BY <2>4, <2>6, <3>1
    <3> QED
      BY <3>3, <3>4
  <2>8. NetInv'
    BY <2>4, <2>7
  <2>9. CompletedIsTrue'
    BY <2>4
  <2>10. ButtonHasCause'
    BY <2>4
  <2> QED
    BY <2>8, <2>9, <2>10
<1>8. ASSUME NEW p \in Polls, Receive(p) PROVE PageInv'
  <2>1. poll[p] # Free /\ poll[p] \in Request /\ poll[p].job \in Jobs
    BY <1>8, CallbackJob DEF Callback
  <2> QED
    BY <1>8, <2>1 DEF Receive, ClearPolling, Show
<1>9. ASSUME NEW p \in Polls, ReceiveError(p) PROVE PageInv'
  <2>1. poll[p] # Free /\ poll[p] \in Request /\ poll[p].job \in Jobs
    BY <1>9, CallbackJob DEF Callback
  <2> QED
    BY <1>9, <2>1 DEF ReceiveError, ClearPolling, Show
<1>10. CASE Leave
  BY <1>10 DEF Leave, ClearPolling, netVars
<1>11. CASE Restart
  <2>1. \A j \in Jobs : /\ Completed(j) => Completed(j)'
                        /\ server[j] = "none" => server'[j] = "none"
    BY <1>11 DEF Restart, Forgotten
  <2>2. UNCHANGED <<trigger, poll, timer, attempts, shown, scanning, bar, mounted>>
    BY <1>11 DEF Restart, refVars, pageVars
  <2>3. \A q \in Polls : poll[q] # Free => poll[q].job \in Jobs
    BY DEF Request
  <2> HIDE DEF Completed
  <2> QED
    BY <2>1, <2>2, <2>3
<1>12. CASE UNCHANGED vars
  BY <1>12 DEF vars, netVars, refVars, pageVars
<1> QED
  BY <1>1, <1>2, <1>3, <1>4, <1>5, <1>6, <1>7, <1>8, <1>9, <1>10, <1>11, <1>12
  DEF Next, Post, Callback

(* The invariant of the page holds however many requests overlap and in      *)
(* whatever order they are answered: what is polled was accepted, what is    *)
(* shown as completed is, and a disabled button has a cause.                 *)
THEOREM PageInvariance == Spec => []PageInv
<1>1. Init => PageInv
  BY DEF Init, PageInv, NetInv, CompletedIsTrue, ButtonHasCause, Pending, Free
<1> QED
  BY <1>1, PageStep, TypeCorrect, PTL DEF Spec

(* A scan shown as completed has been completed by the server.               *)
THEOREM CompletedShown == Spec => []CompletedIsTrue
<1>1. PageInv => CompletedIsTrue
  BY DEF PageInv
<1> QED
  BY <1>1, PageInvariance, PTL

(* The button is only disabled while something is under way to enable it.    *)
THEOREM ButtonCause == Spec => []ButtonHasCause
<1>1. PageInv => ButtonHasCause
  BY DEF PageInv
<1> QED
  BY <1>1, PageInvariance, PTL

=============================================================================
