------------------------------ MODULE ScanPage ------------------------------
(***************************************************************************)
(* The scanner page of web/src/pages/Scanner.tsx.  A click posts a scan;   *)
(* when the server has accepted it an interval timer sends a status        *)
(* request every 1.5 s, whether or not the last one has been answered.     *)
(* Answers may come late and in any order, each continues the callback     *)
(* that sent its request, and all callbacks share one timer, one count of  *)
(* attempts, one progress bar and one flag isScanning.                     *)
(*                                                                         *)
(* The server is what ScanManager makes of it: a scan is running, and may  *)
(* be so for ever; or it is completed; after a restart it is unknown, lost *)
(* or, if it was completed, gone.                                          *)
(***************************************************************************)
EXTENDS Naturals

CONSTANTS
  Jobs,         \* scans the user may start
  Polls,        \* status requests that may be in flight at a time
  MaxAttempts,  \* MAX_POLL_ATTEMPTS (40 in the code)
  Nil           \* no timer

ASSUME PageAssumption == MaxAttempts \in Nat \ {0} /\ Nil \notin Jobs

VARIABLES
  server,    \* server[j]: the scan of job j on the server
  trigger,   \* trigger[j]: the POST that starts job j
  poll,      \* poll[p]: a status request: its job and what became of it
  timer,     \* pollTimerRef: the job the interval polls, or Nil
  attempts,  \* pollAttemptsRef, up to MaxAttempts
  shown,     \* shown[j]: the status of job j in scanJobs
  scanning,  \* isScanning
  bar,       \* scanProgress
  mounted    \* the page is on the screen

netVars == <<server, trigger, poll>>
refVars == <<timer, attempts>>
pageVars == <<shown, scanning, bar, mounted>>
vars == <<netVars, refVars, pageVars>>

Server == {"none", "running", "completed", "lost", "gone"}
Trigger == {"none", "sent", "accepted", "over"}
Reply == {"running", "completed", "error"}
Request == [job : Jobs, state : {"sent"} \cup Reply]
Free == [job |-> Nil, state |-> "free"]
Shown == {"absent", "running", "completed", "failed"}

Init ==
  /\ server = [j \in Jobs |-> "none"]
  /\ trigger = [j \in Jobs |-> "none"]
  /\ poll = [p \in Polls |-> Free]
  /\ timer = Nil
  /\ attempts = 0
  /\ shown = [j \in Jobs |-> "absent"]
  /\ scanning = FALSE
  /\ bar = 0
  /\ mounted = TRUE

Show(j, status) == shown' = [shown EXCEPT ![j] = status]
ClearPolling == timer' = Nil

-----------------------------------------------------------------------------
(* startScan.                                                              *)

\* A click on the button, which is disabled while isScanning.
Start(j) ==
  /\ mounted /\ ~scanning /\ shown[j] = "absent"
  /\ ClearPolling
  /\ scanning' = TRUE
  /\ bar' = 0
  /\ Show(j, "running")
  /\ trigger' = [trigger EXCEPT ![j] = "sent"]
  /\ UNCHANGED <<server, poll, attempts, mounted>>

\* The server accepts the POST.
Accept(j) ==
  /\ trigger[j] = "sent"
  /\ trigger' = [trigger EXCEPT ![j] = "accepted"]
  /\ server' = [server EXCEPT ![j] = "running"]
  /\ UNCHANGED <<poll, refVars, pageVars>>

\* The answer to the POST continues startScan: pollScanStatus replaces the
\* timer there is, also after the page was left.
BeginPolling(j) ==
  /\ trigger[j] = "accepted"
  /\ trigger' = [trigger EXCEPT ![j] = "over"]
  /\ Show(j, "running")
  /\ timer' = j
  /\ attempts' = 0
  /\ UNCHANGED <<server, poll, scanning, bar, mounted>>

\* Fault: isScanning stays set when the POST fails.
TriggerFailsBusy(j) ==
  /\ trigger[j] \in {"sent", "accepted"}
  /\ trigger' = [trigger EXCEPT ![j] = "over"]
  /\ ClearPolling
  /\ Show(j, "failed")
  /\ UNCHANGED <<server, poll, attempts, scanning, bar, mounted>>

\* The POST or its answer is lost: the catch branch of startScan.
TriggerFails(j) ==
  /\ trigger[j] \in {"sent", "accepted"}
  /\ trigger' = [trigger EXCEPT ![j] = "over"]
  /\ ClearPolling
  /\ scanning' = FALSE
  /\ Show(j, "failed")
  /\ UNCHANGED <<server, poll, attempts, bar, mounted>>

-----------------------------------------------------------------------------
(* The callback of the interval: its start, and its continuation when the  *)
(* request is answered.                                                    *)

Poll(p) ==
  /\ timer # Nil /\ poll[p] = Free
  /\ attempts' = IF attempts < MaxAttempts THEN attempts + 1 ELSE attempts
  /\ poll' = [poll EXCEPT ![p] = [job |-> timer, state |-> "sent"]]
  /\ UNCHANGED <<server, trigger, timer, pageVars>>

Becomes(p, state) ==
  poll' = [poll EXCEPT ![p] = [job |-> poll[p].job, state |-> state]]

\* Fault: the status endpoint takes an unknown scan for a completed one.
AnswerLostCompleted(p) ==
  /\ poll[p].state = "sent"
  /\ Becomes(p, IF server[poll[p].job] = "running" THEN "running"
                                                  ELSE "completed")
  /\ UNCHANGED <<server, trigger, refVars, pageVars>>

\* The server answers; an unknown scan is 404, an error to the page.
Answer(p) ==
  /\ poll[p].state = "sent"
  /\ Becomes(p, IF server[poll[p].job] \in Reply THEN server[poll[p].job]
                                                 ELSE "error")
  /\ UNCHANGED <<server, trigger, refVars, pageVars>>

Lose(p) ==
  /\ poll[p].state \in {"sent", "running", "completed"}
  /\ Becomes(p, "error")
  /\ UNCHANGED <<server, trigger, refVars, pageVars>>

\* The answer is shown for the job of the request; a completed one stops the
\* timer, whichever job that polls.
Receive(p) ==
  /\ poll[p].state \in {"running", "completed"}
  /\ poll' = [poll EXCEPT ![p] = Free]
  /\ Show(poll[p].job, poll[p].state)
  /\ \/ /\ poll[p].state = "running"
        /\ bar' = 30
        /\ UNCHANGED <<timer, scanning>>
     \/ /\ poll[p].state = "completed"
        /\ bar' = 100
        /\ ClearPolling
        /\ scanning' = FALSE
  /\ UNCHANGED <<server, trigger, attempts, mounted>>

\* Fault: failed polls are never counted out.
ReceiveErrorIgnored(p) ==
  /\ poll[p].state = "error"
  /\ poll' = [poll EXCEPT ![p] = Free]
  /\ UNCHANGED <<server, trigger, refVars, pageVars>>

\* The catch branch: an error ends the polling once attempts, those of the
\* job polled now, has reached the bound.
ReceiveError(p) ==
  /\ poll[p].state = "error"
  /\ poll' = [poll EXCEPT ![p] = Free]
  /\ \/ /\ attempts < MaxAttempts
        /\ UNCHANGED <<timer, shown, scanning>>
     \/ /\ attempts >= MaxAttempts
        /\ ClearPolling
        /\ scanning' = FALSE
        /\ Show(poll[p].job, "failed")
  /\ UNCHANGED <<server, trigger, attempts, bar, mounted>>

-----------------------------------------------------------------------------
\* The effect's cleanup clears the timer, not the callbacks under way; what
\* these still make of the page's state nobody sees.
Leave ==
  /\ mounted
  /\ mounted' = FALSE
  /\ ClearPolling
  /\ UNCHANGED <<netVars, attempts, shown, scanning, bar>>

Finish(j) ==
  /\ server[j] = "running"
  /\ server' = [server EXCEPT ![j] = "completed"]
  /\ UNCHANGED <<trigger, poll, refVars, pageVars>>

Forgotten(state) ==
  IF state = "running" THEN "lost"
  ELSE IF state = "completed" THEN "gone" ELSE state

Restart ==
  /\ \E j \in Jobs : server[j] \in {"running", "completed"}
  /\ server' = [j \in Jobs |-> Forgotten(server[j])]
  /\ UNCHANGED <<trigger, poll, refVars, pageVars>>

-----------------------------------------------------------------------------
Post(j) == Accept(j) \/ BeginPolling(j) \/ TriggerFails(j)
Callback(p) == Answer(p) \/ Lose(p) \/ Receive(p) \/ ReceiveError(p)

Next ==
  \/ \E j \in Jobs : Start(j) \/ Post(j) \/ Finish(j)
  \/ \E p \in Polls : Poll(p) \/ Callback(p)
  \/ Leave \/ Restart

Spec == Init /\ [][Next]_vars

\* Requests are answered or fail and timers fire.  Nothing is owed by the users,
\* nor by the server that it completes a scan: an SSH peer may hold it for ever.
FairSpec ==
  /\ Spec
  /\ \A j \in Jobs : WF_vars(Post(j))
  /\ \A p \in Polls : WF_vars(Callback(p))
  /\ WF_vars(\E p \in Polls : Poll(p))

-----------------------------------------------------------------------------
(* Properties.                                                             *)

\* Every variable keeps its type.
TypeOK ==
  /\ server \in [Jobs -> Server]
  /\ trigger \in [Jobs -> Trigger]
  /\ poll \in [Polls -> Request \cup {Free}]
  /\ timer \in Jobs \cup {Nil}
  /\ attempts \in 0 .. MaxAttempts
  /\ shown \in [Jobs -> Shown]
  /\ scanning \in BOOLEAN
  /\ bar \in {0, 30, 100}
  /\ mounted \in BOOLEAN

Pending(j) == trigger[j] \in {"sent", "accepted"}
Completed(j) == server[j] \in {"completed", "gone"}

\* Where a scan is on its way from the click to the server, and what a request
\* may still bring of it.
NetInv ==
  /\ \A j \in Jobs :
       /\ trigger[j] = "none" <=> shown[j] = "absent"
       /\ trigger[j] \in {"none", "sent"} => server[j] = "none"
  /\ timer # Nil => trigger[timer] = "over"
  /\ \A p \in Polls : poll[p] # Free =>
       /\ trigger[poll[p].job] = "over"
       /\ poll[p].state = "completed" => Completed(poll[p].job)

\* The page never shows a scan as completed that the server has not completed,
\* although callbacks of several scans write the same state.
CompletedIsTrue == \A j \in Jobs : shown[j] = "completed" => Completed(j)

\* The button is not disabled for nothing: while it is, a POST is under way
\* or the timer runs, whichever callback touched them last.
ButtonHasCause ==
  mounted /\ scanning => timer # Nil \/ \E j \in Jobs : Pending(j)

\* The inductive invariant for any number of overlapping requests.
PageInv == NetInv /\ CompletedIsTrue /\ ButtonHasCause

\* The scan of j runs on the server from some time on for ever.
Hangs(j) == <>[](server[j] = "running")

\* The button is enabled again in the end, whatever callbacks touched isScanning
\* last, unless the server never comes to an end with a scan.
ButtonReturns == (\E j \in Jobs : Hangs(j)) \/ (scanning ~> ~scanning \/ ~mounted)

\* A scan that does not run for ever is not polled for ever either, not even by
\* a page that was left: a completed one stops the timer, a lost one runs out of
\* attempts.
PollingEnds == \A j \in Jobs : Hangs(j) \/ (timer = j ~> timer # j)

\* What MAX_POLL_ATTEMPTS and its message "polling timed out" say of every scan:
\* a number of requests ends the polling.
PollingTimesOut == \A j \in Jobs : timer = j ~> timer # j

\* What the badge says, "Scan running" or "Ready": as long as the history shows a
\* scan as running the page is not ready.
BadgeTrue == \A j \in Jobs : mounted /\ shown[j] = "running" => scanning
=============================================================================
