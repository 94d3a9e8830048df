---------------------------- MODULE ScanManager ----------------------------
(***************************************************************************)
(* The scan manager of internal/discovery: StartScan registers a job and   *)
(* starts a goroutine (executeScan) that marks the job running, fans out   *)
(* one goroutine per target (Scanner.ScanAll), waits for all of them and   *)
(* publishes the result.  GET /scans/:id (GetCBOMScanStatus) takes the     *)
(* read lock only to find the job: it loads the job's fields afterwards,   *)
(* without the lock, while executeScan may be storing them.                *)
(*                                                                         *)
(* That race is modelled by what the Go memory model allows for it: the    *)
(* stores of one critical section, and the loads of one handler, happen in *)
(* any order, and the replacement of the string "running" by the longer    *)
(* "completed" (two words, pointer and length) may be seen half done.      *)
(***************************************************************************)
EXTENDS Naturals, FiniteSets

CONSTANTS
  Jobs,        \* scan ids StartScan may issue
  Targets,     \* the endpoints buildTargets makes of one target host
  SshTargets,  \* those scanned by the SSH scanner
  Found,       \* Found[t]: the findings a scan of t can report
  Clients,     \* pollers of GET /scans/:id
  Nil          \* no value: a nil pointer, or the free lock

ASSUME ScanAssumption ==
  /\ IsFiniteSet(Targets)
  /\ SshTargets \subseteq Targets
  /\ Nil \notin Jobs

VARIABLES
  mu,        \* the holder of ScanManager.mu for writing, Nil when free
  exec,      \* exec[j]: where the goroutine of job j is
  stores,    \* stores[j]: field stores the open critical section has left
  status, progress, result,                  \* the ScanJob's fields
  worker,    \* worker[j][t]: where the goroutine of target t is
  outcome,   \* outcome[j][t]: its targetFindings and err
  scanned, findings,                         \* ScanAll's accumulators
  expired,   \* expired[j]: the 120 s context of job j is done
  serving, loads, draft, \* a status request: job, loads left, values loaded
  answer     \* answer[c]: the last answer client c received

jobVars == <<mu, exec, stores, status, progress, result>>
scanVars == <<worker, outcome, scanned, findings, expired>>
clientVars == <<serving, loads, draft, answer>>
vars == <<jobVars, scanVars, clientVars>>

Finding == UNION {Found[t] : t \in Targets}
Result == [scanned : Nat, findings : SUBSET Finding]

ASSUME NilAssumption == Nil \notin Result

Stage == {"none", "spawned", "marking", "marked", "scanning", "publishing",
          "finished", "lost"}
Locked == {"marking", "publishing"}
Status == {"unset", "pending", "running", "torn", "completed"}
Progress == {0, 10, 30, 100}
Field == {"status", "progress", "result"}
WorkerStage == {"idle", "dialing", "connected", "redialing", "reconnected",
                "answered", "merged"}
Outcome == [err : BOOLEAN, found : SUBSET Finding]
Load == {"status", "progress", "guard", "result"}
Draft == [status : Status, progress : Progress, guard : Status,
          result : Result \cup {Nil}]
Answer == [job : Jobs \cup {Nil}, status : Status \cup {"unknown"},
           progress : Progress, report : Result \cup {Nil}]

NoDraft == [status |-> "unset", progress |-> 0, guard |-> "unset", result |-> Nil]
NoAnswer == [job |-> Nil, status |-> "unset", progress |-> 0, report |-> Nil]

Idle == [t \in Targets |-> "idle"]
Silent == [t \in Targets |-> [err |-> FALSE, found |-> {}]]

Init ==
  /\ mu = Nil
  /\ exec = [j \in Jobs |-> "none"]
  /\ stores = [j \in Jobs |-> {}]
  /\ status = [j \in Jobs |-> "unset"]
  /\ progress = [j \in Jobs |-> 0]
  /\ result = [j \in Jobs |-> Nil]
  /\ worker = [j \in Jobs |-> Idle]
  /\ outcome = [j \in Jobs |-> Silent]
  /\ scanned = [j \in Jobs |-> 0]
  /\ findings = [j \in Jobs |-> {}]
  /\ expired = [j \in Jobs |-> FALSE]
  /\ serving = [c \in Clients |-> Nil]
  /\ loads = [c \in Clients |-> {}]
  /\ draft = [c \in Clients |-> NoDraft]
  /\ answer = [c \in Clients |-> NoAnswer]

-----------------------------------------------------------------------------
(* StartScan and executeScan.                                              *)

\* POST /scans: the job is published under the lock, its goroutine started.
StartScan(j) ==
  /\ exec[j] = "none" /\ mu = Nil
  /\ exec' = [exec EXCEPT ![j] = "spawned"]
  /\ status' = [status EXCEPT ![j] = "pending"]
  /\ UNCHANGED <<mu, stores, progress, result, scanVars, clientVars>>

\* executeScan's first critical section is entered: running, 10.
BeginMark(j) ==
  /\ exec[j] = "spawned" /\ mu = Nil
  /\ mu' = j
  /\ exec' = [exec EXCEPT ![j] = "marking"]
  /\ stores' = [stores EXCEPT ![j] = {"status", "progress"}]
  /\ UNCHANGED <<status, progress, result, scanVars, clientVars>>

EndMark(j) ==
  /\ exec[j] = "marking" /\ stores[j] = {}
  /\ mu' = Nil
  /\ exec' = [exec EXCEPT ![j] = "marked"]
  /\ UNCHANGED <<stores, status, progress, result, scanVars, clientVars>>

\* Progress 30 under the lock, then ScanAll starts a goroutine per target.
FanOut(j) ==
  /\ exec[j] = "marked" /\ mu = Nil
  /\ exec' = [exec EXCEPT ![j] = "scanning"]
  /\ progress' = [progress EXCEPT ![j] = 30]
  /\ worker' = [worker EXCEPT ![j] = [t \in Targets |-> "dialing"]]
  /\ UNCHANGED <<mu, stores, status, result, outcome, scanned, findings,
                 expired, clientVars>>

AllMerged(j) == \A t \in Targets : worker[j][t] = "merged"

\* Fault: no wg.Wait, the result is made of what has been merged so far.
BeginPublishEarly(j) ==
  /\ exec[j] = "scanning" /\ mu = Nil
  /\ mu' = j
  /\ exec' = [exec EXCEPT ![j] = "publishing"]
  /\ stores' = [stores EXCEPT ![j] = Field]
  /\ UNCHANGED <<status, progress, result, scanVars, clientVars>>

\* wg.Wait has returned and the last critical section is entered.
BeginPublish(j) ==
  /\ exec[j] = "scanning" /\ AllMerged(j) /\ mu = Nil
  /\ mu' = j
  /\ exec' = [exec EXCEPT ![j] = "publishing"]
  /\ stores' = [stores EXCEPT ![j] = Field]
  /\ UNCHANGED <<status, progress, result, scanVars, clientVars>>

StoreResult(j) ==
  /\ "result" \in stores[j]
  /\ result' = [result EXCEPT ![j] = [scanned |-> scanned[j],
                                       findings |-> findings[j]]]
  /\ stores' = [stores EXCEPT ![j] = @ \ {"result"}]
  /\ UNCHANGED <<mu, exec, status, progress, scanVars, clientVars>>

\* The first of the two word stores that replace "running" by "completed".
TearStatus(j) ==
  /\ "status" \in stores[j] /\ exec[j] = "publishing" /\ status[j] = "running"
  /\ status' = [status EXCEPT ![j] = "torn"]
  /\ UNCHANGED <<mu, exec, stores, progress, result, scanVars, clientVars>>

\* Fault: the completed status is never written in full.
StoreStatusDropped(j) ==
  /\ "status" \in stores[j]
  /\ \/ exec[j] = "marking" /\ status' = [status EXCEPT ![j] = "running"]
     \/ status[j] = "torn" /\ UNCHANGED status
  /\ stores' = [stores EXCEPT ![j] = @ \ {"status"}]
  /\ UNCHANGED <<mu, exec, progress, result, scanVars, clientVars>>

StoreStatus(j) ==
  /\ "status" \in stores[j]
  /\ \/ exec[j] = "marking" /\ status' = [status EXCEPT ![j] = "running"]
     \/ status[j] = "torn" /\ status' = [status EXCEPT ![j] = "completed"]
  /\ stores' = [stores EXCEPT ![j] = @ \ {"status"}]
  /\ UNCHANGED <<mu, exec, progress, result, scanVars, clientVars>>

\* Fault: success resets the progress as the failure branch does.
StoreProgressReset(j) ==
  /\ "progress" \in stores[j]
  /\ progress' = [progress EXCEPT ![j] = IF exec[j] = "marking" THEN 10 ELSE 0]
  /\ stores' = [stores EXCEPT ![j] = @ \ {"progress"}]
  /\ UNCHANGED <<mu, exec, status, result, scanVars, clientVars>>

StoreProgress(j) ==
  /\ "progress" \in stores[j]
  /\ progress' = [progress EXCEPT ![j] =
                    IF exec[j] = "marking" THEN 10 ELSE 100]
  /\ stores' = [stores EXCEPT ![j] = @ \ {"progress"}]
  /\ UNCHANGED <<mu, exec, status, result, scanVars, clientVars>>

EndPublish(j) ==
  /\ exec[j] = "publishing" /\ stores[j] = {}
  /\ mu' = Nil
  /\ exec' = [exec EXCEPT ![j] = "finished"]
  /\ UNCHANGED <<stores, status, progress, result, scanVars, clientVars>>

-----------------------------------------------------------------------------
(* The goroutine of one target.                                            *)

Step(j, t, to) == worker' = [worker EXCEPT ![j][t] = to]
Answered(j, t, err, found) ==
  /\ Step(j, t, "answered")
  /\ outcome' = [outcome EXCEPT ![j][t] = [err |-> err, found |-> found]]

\* Fault: the scanners are given a context without a deadline.
ExpireNever(j) == FALSE

\* The 120 s deadline of the job's context passes.
Expire(j) ==
  /\ exec[j] = "scanning" /\ ~expired[j]
  /\ expired' = [expired EXCEPT ![j] = TRUE]
  /\ UNCHANGED <<jobVars, worker, outcome, scanned, findings, clientVars>>

\* A dial fails, at the latest when the context is done; the target's error
\* is dropped by ScanAll, never returned.
DialFails(j, t) ==
  /\ worker[j][t] \in {"dialing", "redialing"}
  /\ Answered(j, t, TRUE, {})
  /\ UNCHANGED <<jobVars, scanned, findings, expired, clientVars>>

\* The TLS and HTTP scanners hold the context until they return.
PeerReplies(j, t) ==
  /\ t \notin SshTargets /\ worker[j][t] = "dialing"
  /\ \E found \in SUBSET Found[t] : Answered(j, t, FALSE, found)
  /\ UNCHANGED <<jobVars, scanned, findings, expired, clientVars>>

\* The SSH scanner honours the context only while it dials.
SshConnects(j, t) ==
  /\ t \in SshTargets /\ ~expired[j]
  /\ \/ worker[j][t] = "dialing" /\ Step(j, t, "connected")
     \/ worker[j][t] = "redialing" /\ Step(j, t, "reconnected")
  /\ UNCHANGED <<jobVars, outcome, scanned, findings, expired, clientVars>>

\* The server rejects the login, or closes the connection whose channels the
\* scanner drains: only then does the scan of a connected target return.
SshPeerEnds(j, t) ==
  /\ worker[j][t] \in {"connected", "reconnected"}
  /\ \E found \in SUBSET Found[t] : Answered(j, t, FALSE, found)
  /\ UNCHANGED <<jobVars, scanned, findings, expired, clientVars>>

\* The handshake fails for another reason: scanBanner dials once more.
SshFallsBack(j, t) ==
  /\ worker[j][t] = "connected"
  /\ Step(j, t, "redialing")
  /\ UNCHANGED <<jobVars, outcome, scanned, findings, expired, clientVars>>

\* Fault: a failed target returns before wg.Done.
MergeAnsweredOnly(j, t) ==
  /\ worker[j][t] = "answered" /\ ~outcome[j][t].err
  /\ Step(j, t, "merged")
  /\ scanned' = [scanned EXCEPT ![j] = @ + 1]
  /\ findings' = [findings EXCEPT ![j] = @ \cup outcome[j][t].found]
  /\ UNCHANGED <<jobVars, outcome, expired, clientVars>>

\* Fault: the goroutine copies the findings outside the lock and overwrites
\* those another target has appended.
MergeOverwrites(j, t) ==
  /\ worker[j][t] = "answered"
  /\ Step(j, t, "merged")
  /\ scanned' = [scanned EXCEPT ![j] = @ + 1]
  /\ findings' = [findings EXCEPT ![j] = outcome[j][t].found]
  /\ UNCHANGED <<jobVars, outcome, expired, clientVars>>

\* The locked tail of the goroutine: the target counts as scanned even when
\* it failed, its findings only when it did not.
Merge(j, t) ==
  /\ worker[j][t] = "answered"
  /\ Step(j, t, "merged")
  /\ scanned' = [scanned EXCEPT ![j] = @ + 1]
  /\ findings' = [findings EXCEPT ![j] =
                    IF outcome[j][t].err THEN @ ELSE @ \cup outcome[j][t].found]
  /\ UNCHANGED <<jobVars, outcome, expired, clientVars>>

-----------------------------------------------------------------------------
(* GET /scans/:id, called by a page that polls one job until it reads      *)
(* "completed" or the job is gone.                                         *)

Registered(j) == exec[j] \notin {"none", "lost"}

\* GetScan: the read lock covers the lookup only.
GetScan(c, j) ==
  /\ serving[c] = Nil /\ mu = Nil
  /\ answer[c].job \in {Nil, j}
  /\ answer[c].status \notin {"completed", "unknown"}
  /\ exec[j] # "none"
  /\ IF Registered(j)
     THEN /\ serving' = [serving EXCEPT ![c] = j]
          /\ loads' = [loads EXCEPT ![c] = Load]
          /\ draft' = [draft EXCEPT ![c] = NoDraft]
          /\ UNCHANGED answer
     ELSE /\ answer' = [answer EXCEPT ![c] =
                [NoAnswer EXCEPT !.job = j, !.status = "unknown"]]
          /\ UNCHANGED <<serving, loads, draft>>
  /\ UNCHANGED <<jobVars, scanVars>>

\* One unlocked load of a field of the job being answered.
LoadField(c) ==
  /\ serving[c] # Nil
  /\ \E f \in loads[c] :
       /\ loads' = [loads EXCEPT ![c] = @ \ {f}]
       /\ draft' = [draft EXCEPT ![c] =
            CASE f = "status" -> [@ EXCEPT !.status = status[serving[c]]]
              [] f = "progress" -> [@ EXCEPT !.progress = progress[serving[c]]]
              [] f = "guard" -> [@ EXCEPT !.guard = status[serving[c]]]
              [] f = "result" -> [@ EXCEPT !.result = result[serving[c]]]]
  /\ UNCHANGED <<jobVars, scanVars, serving, answer>>

\* Fault: the handler reports the findings collected so far.
RespondPartial(c) ==
  /\ serving[c] # Nil /\ loads[c] = {}
  /\ answer' = [answer EXCEPT ![c] =
       [job |-> serving[c], status |-> draft[c].status,
        progress |-> draft[c].progress,
        report |-> [scanned |-> scanned[serving[c]],
                    findings |-> findings[serving[c]]]]]
  /\ serving' = [serving EXCEPT ![c] = Nil]
  /\ draft' = [draft EXCEPT ![c] = NoDraft]
  /\ UNCHANGED <<jobVars, scanVars, loads>>

\* The findings are added only to a completed job with a result.
Respond(c) ==
  /\ serving[c] # Nil /\ loads[c] = {}
  /\ answer' = [answer EXCEPT ![c] =
       [job |-> serving[c], status |-> draft[c].status,
        progress |-> draft[c].progress,
        report |-> IF draft[c].guard = "completed" THEN draft[c].result
                                                   ELSE Nil]]
  /\ serving' = [serving EXCEPT ![c] = Nil]
  /\ draft' = [draft EXCEPT ![c] = NoDraft]
  /\ UNCHANGED <<jobVars, scanVars, loads>>

-----------------------------------------------------------------------------
(* The process exits (shutdown, then os.Exit) and starts again: the jobs   *)
(* are only in memory, and requests in flight are cut.                     *)

Restart ==
  /\ \E j \in Jobs : Registered(j)
  /\ mu' = Nil
  /\ exec' = [j \in Jobs |-> IF Registered(j) THEN "lost" ELSE exec[j]]
  /\ stores' = [j \in Jobs |-> {}]
  /\ status' = [j \in Jobs |-> "unset"]
  /\ progress' = [j \in Jobs |-> 0]
  /\ result' = [j \in Jobs |-> Nil]
  /\ worker' = [j \in Jobs |-> Idle]
  /\ outcome' = [j \in Jobs |-> Silent]
  /\ scanned' = [j \in Jobs |-> 0]
  /\ findings' = [j \in Jobs |-> {}]
  /\ expired' = [j \in Jobs |-> FALSE]
  /\ serving' = [c \in Clients |-> Nil]
  /\ loads' = [c \in Clients |-> {}]
  /\ draft' = [c \in Clients |-> NoDraft]
  /\ UNCHANGED answer

-----------------------------------------------------------------------------
Execute(j) ==
  \/ BeginMark(j) \/ EndMark(j) \/ FanOut(j) \/ BeginPublish(j)
  \/ StoreResult(j) \/ TearStatus(j) \/ StoreStatus(j) \/ StoreProgress(j)
  \/ EndPublish(j)

Scan(j, t) ==
  \/ DialFails(j, t) \/ PeerReplies(j, t) \/ SshConnects(j, t)
  \/ SshPeerEnds(j, t) \/ SshFallsBack(j, t) \/ Merge(j, t)

Serve(c) == LoadField(c) \/ Respond(c)

Next ==
  \/ \E j \in Jobs : StartScan(j) \/ Execute(j) \/ Expire(j)
  \/ \E j \in Jobs, t \in Targets : Scan(j, t)
  \/ \E c \in Clients : Serve(c) \/ \E j \in Jobs : GetScan(c, j)
  \/ Restart

Spec == Init /\ [][Next]_vars

\* What the runtime owes: goroutines and handlers run, a lock that is free
\* again is taken (sync.Mutex does not starve), the context's timer fires and
\* then ends a dial; the page keeps polling.  Peers owe nothing.
Fairness ==
  /\ \A j \in Jobs : WF_vars(Execute(j)) /\ WF_vars(Expire(j))
  /\ \A j \in Jobs, t \in Targets :
       WF_vars(Merge(j, t)) /\ WF_vars(expired[j] /\ DialFails(j, t))
  /\ \A c \in Clients :
       WF_vars(Serve(c)) /\ WF_vars(\E j \in Jobs : GetScan(c, j))

FairSpec == Spec /\ Fairness

\* The same with SSH servers that end every connection sooner or later.
HangUpSpec ==
  FairSpec /\ \A j \in Jobs, t \in Targets : WF_vars(SshPeerEnds(j, t))

-----------------------------------------------------------------------------
(* Properties.                                                             *)

JobTypes ==
  /\ mu \in Jobs \cup {Nil}
  /\ exec \in [Jobs -> Stage]
  /\ stores \in [Jobs -> SUBSET Field]
  /\ status \in [Jobs -> Status]
  /\ progress \in [Jobs -> Progress]
  /\ result \in [Jobs -> Result \cup {Nil}]

ScanTypes ==
  /\ worker \in [Jobs -> [Targets -> WorkerStage]]
  /\ outcome \in [Jobs -> [Targets -> Outcome]]
  /\ scanned \in [Jobs -> Nat]
  /\ findings \in [Jobs -> SUBSET Finding]
  /\ expired \in [Jobs -> BOOLEAN]

ClientTypes ==
  /\ serving \in [Clients -> Jobs \cup {Nil}]
  /\ loads \in [Clients -> SUBSET Load]
  /\ draft \in [Clients -> Draft]
  /\ answer \in [Clients -> Answer]

\* Every variable keeps its type.
TypeOK == JobTypes /\ ScanTypes /\ ClientTypes

\* What a finished scan of job j has to report: every target counted, and the
\* findings of exactly the targets whose scan did not fail.
FullReport(j) ==
  [scanned |-> Cardinality(Targets),
   findings |-> UNION {outcome[j][t].found :
                         t \in {u \in Targets : ~outcome[j][u].err}}]

Merged(j) == {t \in Targets : worker[j][t] = "merged"}

\* The inductive invariant.  The lock is held by the job whose goroutine is in
\* a critical section, and only that job has stores left to do.
LockInv ==
  \A j \in Jobs : /\ exec[j] \in Locked <=> mu = j
                  /\ exec[j] \notin Locked => stores[j] = {}
                  /\ exec[j] = "marking" => "result" \notin stores[j]

\* What each field holds at each stage, before and after its pending store.
FieldsAt(j) ==
  CASE exec[j] \in {"none", "lost"} ->
         status[j] = "unset" /\ progress[j] = 0 /\ result[j] = Nil
    [] exec[j] = "spawned" ->
         status[j] = "pending" /\ progress[j] = 0 /\ result[j] = Nil
    [] exec[j] = "marking" ->
         /\ status[j] = IF "status" \in stores[j] THEN "pending" ELSE "running"
         /\ progress[j] = IF "progress" \in stores[j] THEN 0 ELSE 10
         /\ result[j] = Nil
    [] exec[j] = "marked" ->
         status[j] = "running" /\ progress[j] = 10 /\ result[j] = Nil
    [] exec[j] = "scanning" ->
         status[j] = "running" /\ progress[j] = 30 /\ result[j] = Nil
    [] exec[j] = "publishing" ->
         /\ IF "status" \in stores[j] THEN status[j] \in {"running", "torn"}
                                     ELSE status[j] = "completed"
         /\ progress[j] = IF "progress" \in stores[j] THEN 30 ELSE 100
         /\ IF "result" \in stores[j] THEN result[j] = Nil
                                     ELSE result[j] = FullReport(j)
    [] exec[j] = "finished" ->
         /\ status[j] = "completed" /\ progress[j] = 100
         /\ result[j] = FullReport(j)

FieldInv == \A j \in Jobs : FieldsAt(j)

\* ScanAll's accumulators hold what the merged goroutines added, and no
\* goroutine runs before the fan-out or after the wait.
AccumulatorInv ==
  \A j \in Jobs :
    /\ exec[j] \in {"publishing", "finished"} => AllMerged(j)
    /\ exec[j] \notin {"scanning", "publishing", "finished"} => worker[j] = Idle
    /\ scanned[j] = Cardinality(Merged(j))
    /\ findings[j] = UNION {outcome[j][t].found :
                             t \in {u \in Merged(j) : ~outcome[j][u].err}}

\* A result that a status request has loaded is the result of the job it
\* serves, and a job being served is not lost.
RequestInv ==
  \A c \in Clients :
    /\ serving[c] # Nil => exec[serving[c]] \notin {"none", "lost"}
    /\ draft[c].result # Nil =>
         serving[c] # Nil /\ draft[c].result = result[serving[c]]

\* A report that was answered is still the result of its job, if the job is.
AnswerInv ==
  \A c \in Clients : answer[c].report # Nil =>
    /\ answer[c].job \in Jobs
    /\ \/ exec[answer[c].job] = "lost"
       \/ answer[c].report = result[answer[c].job]

IInv == LockInv /\ FieldInv /\ AccumulatorInv /\ RequestInv /\ AnswerInv

\* Whoever holds the lock finds each job in one of the states the code means
\* it to have: a handler that kept the read lock while it loads would never
\* see status, progress and result disagree.
LockedSnapshotConsistent ==
  mu = Nil => \A j \in Jobs :
    /\ status[j] = "completed" <=> result[j] # Nil
    /\ status[j] = "completed" <=> progress[j] = 100
    /\ status[j] \in {"unset", "pending"} <=> progress[j] = 0
    /\ status[j] # "torn"

\* A published result is complete, whatever the order in which the targets
\* returned, failed and took the accumulators' lock.
ReportComplete ==
  \A j \in Jobs : result[j] # Nil => AllMerged(j) /\ result[j] = FullReport(j)

\* Findings a client was given are those of the finished scan of the job it
\* asked for: never a part of them, though the handler reads without the lock.
AnsweredReportIsFinal ==
  \A c \in Clients : answer[c].report # Nil =>
    LET j == answer[c].job
    IN  \/ exec[j] = "lost"
        \/ AllMerged(j) /\ answer[c].report = FullReport(j)

Rank(s) == CASE s = "unset" -> 0 [] s = "pending" -> 1 [] s = "running" -> 2
             [] s = "torn" -> 3 [] s = "completed" -> 4 [] s = "unknown" -> 5

\* Unlocked as it is, the status endpoint never goes backwards for a client:
\* of two successive answers the later one has no lower status or progress,
\* until a restart makes the job unknown.
PollsNeverRegress ==
  [][\A c \in Clients :
       /\ Rank(answer[c].status) <= Rank(answer'[c].status)
       /\ answer'[c].status # "unknown" =>
            answer[c].progress <= answer'[c].progress]_answer

\* The scan manager implements ScanService: the goroutines, the field by field
\* stores and the races between them add no behaviour to it.
Phase(j) == CASE exec[j] = "none" -> "new" [] exec[j] = "lost" -> "lost"
              [] exec[j] = "finished" -> "done" [] OTHER -> "open"

Service == INSTANCE ScanService WITH
  phase <- [j \in Jobs |-> Phase(j)],
  heard <- [j \in Jobs |-> {t \in Targets : worker[j][t] = "merged"}],
  collected <- findings,
  report <- [j \in Jobs |-> IF exec[j] = "finished" THEN result[j] ELSE Nil]

ServiceSpec == Service!Spec

\* The deadline of the job's context bounds the scan of every target whose
\* scanner holds the context.
ContextBoundsScan ==
  \A j \in Jobs, t \in Targets \ SshTargets :
    worker[j][t] = "dialing" ~> worker[j][t] \in {"merged", "idle"}

\* A scan that was accepted is finished in the end, or lost in a restart.
ScansEnd ==
  \A j \in Jobs : exec[j] = "spawned" ~> exec[j] \in {"finished", "lost"}

\* A page that polls is told in the end that the scan is completed or gone.
PollersStop ==
  \A c \in Clients :
    answer[c].job # Nil ~> answer[c].status \in {"completed", "unknown"}

\* What the scanner page makes of a completed scan: progress 100.
CompletedMeansHundred ==
  \A c \in Clients : answer[c].status = "completed" => answer[c].progress = 100
=============================================================================
