------------------------ MODULE ScanManager_proofs -------------------------
(***************************************************************************)
(* Proofs about ScanManager for any set of jobs, targets and pollers.      *)
(***************************************************************************)
EXTENDS ScanManager, FiniteSetTheorems, TLAPS

(* A subset of a target's findings is a set of findings.                   *)
LEMMA FoundType == \A t \in Targets : \A f \in SUBSET Found[t] : f \in SUBSET Finding
  BY DEF Finding

(* The values a goroutine's outcome, a status request's draft and an answer*)
(* start from have the type of their record.                               *)
LEMMA RecordTypes ==
  /\ Idle \in [Targets -> WorkerStage]
  /\ Silent \in [Targets -> Outcome]
  /\ NoDraft \in Draft
  /\ NoAnswer \in Answer
<1>1. Idle \in [Targets -> WorkerStage]  BY DEF Idle, WorkerStage
<1>2. Silent \in [Targets -> Outcome]    BY DEF Silent, Outcome
<1>3. NoDraft \in Draft    BY DEF NoDraft, Draft, Status, Progress
<1>4. NoAnswer \in Answer  BY DEF NoAnswer, Answer, Status, Progress
<1> QED BY <1>1, <1>2, <1>3, <1>4

(* An outcome built from a subset of the findings has the outcome type.    *)
LEMMA OutcomeType ==
  \A e \in BOOLEAN, f \in SUBSET Finding : [err |-> e, found |-> f] \in Outcome
  BY DEF Outcome

(* Every variable keeps its type: no operation of the scan manager, of a   *)
(* target's goroutine or of the status handler leaves the domain the code  *)
(* declares, whatever the interleaving.                                    *)
THEOREM TypeCorrect == Spec => []TypeOK
<1> USE ScanAssumption DEF TypeOK
<1>1. Init => TypeOK
  <2> SUFFICES ASSUME Init PROVE TypeOK
    OBVIOUS
  <2>1. JobTypes
    BY DEF Init, JobTypes, Stage, Status, Progress
  <2>2. ScanTypes
    BY RecordTypes DEF Init, ScanTypes
  <2>3. ClientTypes
    BY RecordTypes DEF Init, ClientTypes
  <2> QED BY <2>1, <2>2, <2>3
<1>2. TypeOK /\ [Next]_vars => TypeOK'
  <2> SUFFICES ASSUME TypeOK, [Next]_vars PROVE TypeOK'
    OBVIOUS
  <2>a. UNCHANGED jobVars => JobTypes'       BY DEF jobVars, JobTypes
  <2>b. UNCHANGED scanVars => ScanTypes'     BY DEF scanVars, ScanTypes
  <2>c. UNCHANGED clientVars => ClientTypes' BY DEF clientVars, ClientTypes
  <2>1. ASSUME NEW j \in Jobs, StartScan(j) PROVE TypeOK'
    BY <2>1, <2>b, <2>c DEF StartScan, JobTypes, Stage, Status
  <2>2. ASSUME NEW j \in Jobs, Execute(j) PROVE TypeOK'
    <3>1. CASE BeginMark(j)
      BY <3>1, <2>b, <2>c DEF BeginMark, JobTypes, Stage, Field
    <3>2. CASE EndMark(j)
      BY <3>2, <2>b, <2>c DEF EndMark, JobTypes, Stage
    <3>3. CASE FanOut(j)
      <4>1. JobTypes'    BY <3>3 DEF FanOut, JobTypes, Stage, Progress
      <4>2. ScanTypes'   BY <3>3 DEF FanOut, ScanTypes, WorkerStage
      <4> QED BY <3>3, <4>1, <4>2, <2>c DEF FanOut
    <3>4. CASE BeginPublish(j)
      BY <3>4, <2>b, <2>c DEF BeginPublish, JobTypes, Stage
    <3>5. CASE StoreResult(j)
      <4>1. [scanned |-> scanned[j], findings |-> findings[j]] \in Result
        BY DEF ScanTypes, Result
      <4> QED BY <3>5, <4>1, <2>b, <2>c DEF StoreResult, JobTypes
    <3>6. CASE TearStatus(j)
      BY <3>6, <2>b, <2>c DEF TearStatus, JobTypes, Status
    <3>7. CASE StoreStatus(j)
      BY <3>7, <2>b, <2>c DEF StoreStatus, JobTypes, Status
    <3>8. CASE StoreProgress(j)
      BY <3>8, <2>b, <2>c DEF StoreProgress, JobTypes, Progress
    <3>9. CASE EndPublish(j)
      BY <3>9, <2>b, <2>c DEF EndPublish, JobTypes, Stage
    <3> QED BY <2>2, <3>1, <3>2, <3>3, <3>4, <3>5, <3>6, <3>7, <3>8, <3>9
            DEF Execute
  <2>3. ASSUME NEW j \in Jobs, Expire(j) PROVE TypeOK'
    BY <2>3, <2>a, <2>c DEF Expire, ScanTypes
  <2>4. ASSUME NEW j \in Jobs, NEW t \in Targets, Scan(j, t) PROVE TypeOK'
    <3>1. ASSUME NEW to \in WorkerStage, Step(j, t, to)
          PROVE  worker' \in [Jobs -> [Targets -> WorkerStage]]
      BY <3>1 DEF Step, ScanTypes
    <3>2. ASSUME NEW e \in BOOLEAN, NEW f \in SUBSET Finding,
                 Answered(j, t, e, f)
          PROVE  /\ worker' \in [Jobs -> [Targets -> WorkerStage]]
                 /\ outcome' \in [Jobs -> [Targets -> Outcome]]
      <4>1. worker' \in [Jobs -> [Targets -> WorkerStage]]
        BY <3>1, <3>2 DEF Answered, WorkerStage
      <4>2. outcome' \in [Jobs -> [Targets -> Outcome]]
        BY <3>2, OutcomeType DEF Answered, ScanTypes
      <4> QED BY <4>1, <4>2
    <3>3. CASE DialFails(j, t)
      <4>1. {} \in SUBSET Finding /\ TRUE \in BOOLEAN
        OBVIOUS
      <4>2. Answered(j, t, TRUE, {})
        BY <3>3 DEF DialFails
      <4>3. /\ worker' \in [Jobs -> [Targets -> WorkerStage]]
            /\ outcome' \in [Jobs -> [Targets -> Outcome]]
        BY <3>2, <4>1, <4>2
      <4> QED BY <3>3, <4>3, <2>a, <2>c DEF DialFails, ScanTypes
    <3>4. CASE PeerReplies(j, t)
      BY <3>4, <3>2, FoundType, <2>a, <2>c DEF PeerReplies, ScanTypes
    <3>5. CASE SshConnects(j, t)
      BY <3>5, <3>1, <2>a, <2>c DEF SshConnects, ScanTypes, WorkerStage
    <3>6. CASE SshPeerEnds(j, t)
      BY <3>6, <3>2, FoundType, <2>a, <2>c DEF SshPeerEnds, ScanTypes
    <3>7. CASE SshFallsBack(j, t)
      BY <3>7, <3>1, <2>a, <2>c DEF SshFallsBack, ScanTypes, WorkerStage
    <3>8. CASE Merge(j, t)
      <4>1. worker' \in [Jobs -> [Targets -> WorkerStage]]
        BY <3>8, <3>1 DEF Merge, WorkerStage
      <4>2. outcome[j][t].found \in SUBSET Finding
        BY DEF ScanTypes, Outcome
      <4>3. findings' \in [Jobs -> SUBSET Finding]
        BY <3>8, <4>2 DEF Merge, ScanTypes
      <4> QED BY <3>8, <4>1, <4>3, <2>a, <2>c DEF Merge, ScanTypes
    <3> QED BY <2>4, <3>3, <3>4, <3>5, <3>6, <3>7, <3>8 DEF Scan
  <2>5. ASSUME NEW c \in Clients, Serve(c) PROVE TypeOK'
    <3>1. CASE LoadField(c)
      <4> PICK f \in loads[c] :
            /\ loads' = [loads EXCEPT ![c] = @ \ {f}]
            /\ draft' = [draft EXCEPT ![c] =
                 CASE f = "status" -> [@ EXCEPT !.status = status[serving[c]]]
                   [] f = "progress" -> [@ EXCEPT !.progress = progress[serving[c]]]
                   [] f = "guard" -> [@ EXCEPT !.guard = status[serving[c]]]
                   [] f = "result" -> [@ EXCEPT !.result = result[serving[c]]]]
        BY <3>1 DEF LoadField
      <4>1. serving[c] \in Jobs
        BY <3>1 DEF LoadField, ClientTypes
      <4>2. /\ status[serving[c]] \in Status
            /\ progress[serving[c]] \in Progress
            /\ result[serving[c]] \in Result \cup {Nil}
        BY <4>1 DEF JobTypes
      <4>3. draft[c] \in Draft /\ f \in Load
        BY DEF ClientTypes
      <4>4. draft'[c] \in Draft
        <5>1. CASE f = "status"    BY <5>1, <4>2, <4>3 DEF ClientTypes, Draft
        <5>2. CASE f = "progress"  BY <5>2, <4>2, <4>3 DEF ClientTypes, Draft
        <5>3. CASE f = "guard"     BY <5>3, <4>2, <4>3 DEF ClientTypes, Draft
        <5>4. CASE f = "result"    BY <5>4, <4>2, <4>3 DEF ClientTypes, Draft
        <5> QED BY <4>3, <5>1, <5>2, <5>3, <5>4 DEF Load
      <4>5. draft' \in [Clients -> Draft]
        BY <4>4 DEF ClientTypes
      <4> QED BY <3>1, <4>5, <2>a, <2>b DEF LoadField, ClientTypes
    <3>2. CASE Respond(c)
      <4>1. draft[c] \in Draft /\ serving[c] \in Jobs
        BY <3>2 DEF Respond, ClientTypes
      <4>2. answer'[c] \in Answer
        BY <3>2, <4>1 DEF Respond, ClientTypes, Draft, Answer
      <4>3. answer' \in [Clients -> Answer]
        BY <3>2, <4>2 DEF Respond, ClientTypes
      <4> QED BY <3>2, <4>3, RecordTypes, <2>a, <2>b DEF Respond, ClientTypes
    <3> QED BY <2>5, <3>1, <3>2 DEF Serve
  <2>6. ASSUME NEW c \in Clients, NEW j \in Jobs, GetScan(c, j) PROVE TypeOK'
    <3>1. [NoAnswer EXCEPT !.job = j, !.status = "unknown"] \in Answer
      BY RecordTypes DEF Answer
    <3> QED BY <2>6, <3>1, RecordTypes, <2>a, <2>b DEF GetScan, ClientTypes
  <2>7. CASE Restart
    <3>1. JobTypes'    BY <2>7 DEF Restart, JobTypes, Stage, Status, Progress
    <3>2. ScanTypes'   BY <2>7, RecordTypes DEF Restart, ScanTypes
    <3>3. ClientTypes' BY <2>7, RecordTypes DEF Restart, ClientTypes
    <3> QED BY <3>1, <3>2, <3>3
  <2>8. CASE UNCHANGED vars
    BY <2>8, <2>a, <2>b, <2>c DEF vars
  <2> QED BY <2>1, <2>2, <2>3, <2>4, <2>5, <2>6, <2>7, <2>8 DEF Next
<1> QED BY <1>1, <1>2, PTL DEF Spec

-----------------------------------------------------------------------------
(* The inductive invariant.                                                *)

(* Nothing of job k changes.                                               *)
SameJob(k) ==
  /\ exec'[k] = exec[k] /\ stores'[k] = stores[k] /\ status'[k] = status[k]
  /\ progress'[k] = progress[k] /\ result'[k] = result[k]
  /\ worker'[k] = worker[k] /\ outcome'[k] = outcome[k]
  /\ scanned'[k] = scanned[k] /\ findings'[k] = findings[k]

(* A step of one job's goroutines leaves every other job alone.            *)
LEMMA Frame ==
  ASSUME TypeOK, NEW j \in Jobs, NEW k \in Jobs, k # j,
         \/ StartScan(j) \/ Execute(j) \/ Expire(j)
         \/ \E t \in Targets : Scan(j, t)
  PROVE  SameJob(k)
<1> USE DEF SameJob, TypeOK, JobTypes, ScanTypes, jobVars, scanVars
<1>1. CASE StartScan(j)  BY <1>1 DEF StartScan
<1>2. CASE Execute(j)
  BY <1>2 DEF Execute, BeginMark, EndMark, FanOut, BeginPublish, StoreResult,
              TearStatus, StoreStatus, StoreProgress, EndPublish
<1>3. CASE Expire(j)     BY <1>3 DEF Expire
<1>4. ASSUME NEW t \in Targets, Scan(j, t) PROVE SameJob(k)
  BY <1>4 DEF Scan, DialFails, PeerReplies, SshConnects, SshPeerEnds,
              SshFallsBack, Merge, Answered, Step
<1> QED BY <1>1, <1>2, <1>3, <1>4

(* A target's goroutine runs only between the fan-out and the wait.        *)
LEMMA ScanStage ==
  ASSUME TypeOK, AccumulatorInv, NEW j \in Jobs, NEW t \in Targets, Scan(j, t)
  PROVE  exec[j] = "scanning" /\ worker[j][t] # "merged"
<1>1. worker[j][t] \in {"dialing", "redialing", "connected", "reconnected",
                        "answered"}
  BY DEF Scan, DialFails, PeerReplies, SshConnects, SshPeerEnds, SshFallsBack,
         Merge
<1>2. worker[j] # Idle
  BY <1>1 DEF Idle
<1>3. ~AllMerged(j)
  BY <1>1 DEF AllMerged
<1> QED BY <1>1, <1>2, <1>3 DEF AccumulatorInv

(* A critical section is entered only when the lock is free, and left only *)
(* when its stores are done.                                               *)
LEMMA LockStep == TypeOK /\ LockInv /\ [Next]_vars => LockInv'
<1> SUFFICES ASSUME TypeOK, LockInv, [Next]_vars PROVE LockInv'
  OBVIOUS
<1> USE ScanAssumption DEF LockInv, TypeOK, JobTypes, Locked
<1>1. ASSUME NEW j \in Jobs, StartScan(j) PROVE LockInv'
  BY <1>1 DEF StartScan
<1>2. ASSUME NEW j \in Jobs, Execute(j) PROVE LockInv'
  <2>1. CASE BeginMark(j)     BY <2>1 DEF BeginMark
  <2>2. CASE EndMark(j)       BY <2>2 DEF EndMark
  <2>3. CASE FanOut(j)        BY <2>3 DEF FanOut
  <2>4. CASE BeginPublish(j)  BY <2>4 DEF BeginPublish
  <2>5. CASE StoreResult(j)   BY <2>5 DEF StoreResult
  <2>6. CASE TearStatus(j)    BY <2>6 DEF TearStatus
  <2>7. CASE StoreStatus(j)   BY <2>7 DEF StoreStatus
  <2>8. CASE StoreProgress(j) BY <2>8 DEF StoreProgress
  <2>9. CASE EndPublish(j)    BY <2>9 DEF EndPublish
  <2> QED BY <1>2, <2>1, <2>2, <2>3, <2>4, <2>5, <2>6, <2>7, <2>8, <2>9
          DEF Execute
<1>3. UNCHANGED jobVars => LockInv'
  BY DEF jobVars
<1>4. CASE Restart
  BY <1>4 DEF Restart, Registered
<1>5. (\E j \in Jobs, t \in Targets : Scan(j, t)) => UNCHANGED jobVars
  BY DEF Scan, DialFails, PeerReplies, SshConnects, SshPeerEnds, SshFallsBack,
         Merge
<1>6. (\E c \in Clients : Serve(c) \/ \E j \in Jobs : GetScan(c, j))
        => UNCHANGED jobVars
  BY DEF Serve, LoadField, Respond, GetScan
<1>7. (\E j \in Jobs : Expire(j)) => UNCHANGED jobVars
  BY DEF Expire
<1>8. UNCHANGED vars => UNCHANGED jobVars
  BY DEF vars
<1> QED BY <1>1, <1>2, <1>3, <1>4, <1>5, <1>6, <1>7, <1>8 DEF Next

(* The accumulators of ScanAll for job k, as a predicate on one job.       *)
AccumulatorAt(k) ==
  /\ exec[k] \in {"publishing", "finished"} => AllMerged(k)
  /\ exec[k] \notin {"scanning", "publishing", "finished"} => worker[k] = Idle
  /\ scanned[k] = Cardinality(Merged(k))
  /\ findings[k] = UNION {outcome[k][t].found :
                           t \in {u \in Merged(k) : ~outcome[k][u].err}}

(* With no goroutine merged both accumulators are empty.                   *)
LEMMA NothingMerged ==
  ASSUME NEW k \in Jobs, worker[k] = Idle
  PROVE  Merged(k) = {} /\ Cardinality(Merged(k)) = 0
<1>1. Merged(k) = {}  BY DEF Merged, Idle
<1> QED BY <1>1, FS_EmptySet

(* A goroutine that has not merged yet changes neither the set of merged   *)
(* targets nor what they reported; merging adds its target and, unless it  *)
(* failed, its findings.                                                   *)
LEMMA AccumulatorScan ==
  ASSUME TypeOK, AccumulatorInv, NEW j \in Jobs, NEW t \in Targets, Scan(j, t)
  PROVE  AccumulatorAt(j)'
<1> USE ScanAssumption
<1>1. exec[j] = "scanning" /\ exec'[j] = "scanning" /\ worker[j][t] # "merged"
  BY ScanStage DEF Scan, DialFails, PeerReplies, SshConnects, SshPeerEnds,
     SshFallsBack, Merge, jobVars
<1>2. IsFiniteSet(Merged(j))
  BY FS_Subset DEF Merged
<1>3. CASE Merge(j, t)
  <2>1. worker'[j] = [worker[j] EXCEPT ![t] = "merged"] /\ outcome' = outcome
    BY <1>3 DEF Merge, Step, TypeOK, ScanTypes
  <2>2. Merged(j)' = Merged(j) \cup {t} /\ t \notin Merged(j)
    BY <2>1, <1>1 DEF Merged, TypeOK, ScanTypes
  <2>3. Cardinality(Merged(j)') = Cardinality(Merged(j)) + 1
    BY <2>2, <1>2, FS_AddElement
  <2>4. scanned'[j] = scanned[j] + 1
    BY <1>3 DEF Merge, TypeOK, ScanTypes
  <2>5. findings'[j] = IF outcome[j][t].err THEN findings[j]
                       ELSE findings[j] \cup outcome[j][t].found
    BY <1>3 DEF Merge, TypeOK, ScanTypes
  <2>6. findings'[j] = UNION {outcome[j][u].found :
                               u \in {v \in Merged(j)' : ~outcome[j][v].err}}
    BY <2>2, <2>5 DEF AccumulatorInv
  <2> QED BY <1>1, <2>1, <2>3, <2>4, <2>6 DEF AccumulatorAt, AccumulatorInv
<1>4. CASE ~Merge(j, t)
  <2>1. /\ scanned' = scanned /\ findings' = findings
        /\ \E to \in WorkerStage \ {"merged"} :
             worker' = [worker EXCEPT ![j][t] = to]
    BY <1>4 DEF Scan, DialFails, PeerReplies, SshConnects, SshPeerEnds,
                SshFallsBack, Answered, Step, WorkerStage
  <2>2. Merged(j)' = Merged(j)
    BY <2>1, <1>1 DEF Merged, TypeOK, ScanTypes
  <2>3. \A u \in Merged(j) : outcome'[j][u] = outcome[j][u]
    BY <1>4, <1>1 DEF Scan, DialFails, PeerReplies, SshConnects, SshPeerEnds,
                SshFallsBack, Answered, Merged, TypeOK, ScanTypes
  <2>4. findings'[j] = UNION {outcome'[j][u].found :
                               u \in {v \in Merged(j)' : ~outcome'[j][v].err}}
    BY <2>1, <2>2, <2>3 DEF AccumulatorInv
  <2> QED BY <1>1, <2>1, <2>2, <2>4 DEF AccumulatorAt, AccumulatorInv
<1> QED BY <1>3, <1>4

(* ScanAll's accumulators follow its goroutines in every step.             *)
LEMMA AccumulatorStep ==
  TypeOK /\ AccumulatorInv /\ [Next]_vars => AccumulatorInv'
<1> SUFFICES ASSUME TypeOK, AccumulatorInv, [Next]_vars PROVE AccumulatorInv'
  OBVIOUS
<1>0. \A k \in Jobs : AccumulatorAt(k)
  BY DEF AccumulatorInv, AccumulatorAt
<1>1. SUFFICES ASSUME NEW k \in Jobs PROVE AccumulatorAt(k)'
  BY DEF AccumulatorInv, AccumulatorAt
<1>2. SameJob(k) => AccumulatorAt(k)'
  BY <1>0 DEF SameJob, AccumulatorAt, Merged, AllMerged
<1>3. ASSUME NEW j \in Jobs,
             \/ StartScan(j) \/ Execute(j) \/ Expire(j)
             \/ \E t \in Targets : Scan(j, t)
      PROVE  AccumulatorAt(k)'
  <2>1. CASE k # j  BY <2>1, <1>3, <1>2, Frame
  <2>2. CASE k = j
    <3>1. CASE FanOut(j)
      <4>1. worker[j] = Idle  BY <3>1 DEF FanOut, AccumulatorInv
      <4>2. worker'[j] = [t \in Targets |-> "dialing"] /\ exec'[j] = "scanning"
        BY <3>1 DEF FanOut, TypeOK, ScanTypes, JobTypes
      <4>3. Merged(j)' = {} /\ Merged(j) = {}
        BY <4>1, <4>2, NothingMerged DEF Merged
      <4>4. scanned'[j] = scanned[j] /\ findings'[j] = findings[j]
            /\ outcome' = outcome
        BY <3>1 DEF FanOut
      <4>5. Cardinality(Merged(j)') = Cardinality(Merged(j))
        BY <4>3
      <4>6. UNION {outcome'[j][t].found :
                    t \in {u \in Merged(j)' : ~outcome'[j][u].err}}
            = UNION {outcome[j][t].found :
                      t \in {u \in Merged(j) : ~outcome[j][u].err}}
        BY <4>3, <4>4
      <4>7. AccumulatorAt(j)'
        BY <1>0, <4>2, <4>4, <4>5, <4>6 DEF AccumulatorAt
      <4> QED BY <4>7, <2>2
    <3>2. CASE \/ StartScan(j) \/ BeginMark(j) \/ EndMark(j) \/ BeginPublish(j)
               \/ StoreResult(j) \/ TearStatus(j) \/ StoreStatus(j)
               \/ StoreProgress(j) \/ EndPublish(j)
      <4>1. UNCHANGED scanVars
        BY <3>2 DEF StartScan, BeginMark, EndMark, BeginPublish, StoreResult,
                    TearStatus, StoreStatus, StoreProgress, EndPublish
      <4>2. /\ exec'[j] \in {"publishing", "finished"} => AllMerged(j)
            /\ exec'[j] \notin {"scanning", "publishing", "finished"}
                 => worker[j] = Idle
        BY <3>2 DEF StartScan, BeginMark, EndMark, BeginPublish, StoreResult,
                    TearStatus, StoreStatus, StoreProgress, EndPublish,
                    AccumulatorInv, TypeOK, JobTypes
      <4> QED BY <2>2, <1>0, <4>1, <4>2
              DEF AccumulatorAt, scanVars, Merged, AllMerged
    <3>3. CASE Expire(j)
      <4>1. SameJob(k)  BY <3>3 DEF Expire, SameJob, jobVars
      <4> QED BY <4>1, <1>2
    <3>4. ASSUME NEW t \in Targets, Scan(j, t) PROVE AccumulatorAt(k)'
      <4>1. AccumulatorAt(j)'  BY <3>4, AccumulatorScan
      <4> QED BY <4>1, <2>2
    <3> QED BY <1>3, <3>1, <3>2, <3>3, <3>4 DEF Execute
  <2> QED BY <2>1, <2>2
<1>4. CASE Restart
  <2>1. worker'[k] = Idle /\ scanned'[k] = 0 /\ findings'[k] = {}
        /\ exec'[k] \in {"none", "lost"}
    BY <1>4 DEF Restart, Registered
  <2>2. Merged(k)' = {} /\ Cardinality(Merged(k)') = 0
    BY <2>1, FS_EmptySet DEF Merged, Idle
  <2> QED BY <2>1, <2>2 DEF AccumulatorAt
<1>5. (\E c \in Clients : Serve(c) \/ \E j \in Jobs : GetScan(c, j))
        => SameJob(k)
  BY DEF Serve, LoadField, Respond, GetScan, jobVars, scanVars, SameJob
<1>6. UNCHANGED vars => SameJob(k)
  BY DEF vars, jobVars, scanVars, SameJob
<1> QED BY <1>2, <1>3, <1>4, <1>5, <1>6 DEF Next

(* Once every goroutine has merged, the accumulators are the full report.  *)
LEMMA AccumulatorsFull ==
  ASSUME AccumulatorInv, NEW j \in Jobs, AllMerged(j)
  PROVE  [scanned |-> scanned[j], findings |-> findings[j]] = FullReport(j)
<1>1. Merged(j) = Targets  BY DEF AllMerged, Merged
<1> QED BY <1>1 DEF AccumulatorInv, FullReport

(* The full report of a job is a result, hence not nil.                    *)
LEMMA FullReportType ==
  ASSUME TypeOK, NEW j \in Jobs
  PROVE  FullReport(j) \in Result /\ FullReport(j) # Nil
<1>1. Cardinality(Targets) \in Nat
  BY ScanAssumption, FS_CardinalityType
<1>2. \A t \in Targets : outcome[j][t].found \subseteq Finding
  BY DEF TypeOK, ScanTypes, Outcome
<1>3. UNION {outcome[j][t].found : t \in {u \in Targets : ~outcome[j][u].err}}
        \in SUBSET Finding
  BY <1>2
<1> QED BY <1>1, <1>3, NilAssumption DEF FullReport, Result

(* Each store puts its field where the stage expects it, and the result    *)
(* stored is the full report because all targets have merged.              *)
LEMMA FieldStep ==
  TypeOK /\ LockInv /\ AccumulatorInv /\ FieldInv /\ [Next]_vars => FieldInv'
<1> SUFFICES ASSUME TypeOK, LockInv, AccumulatorInv, FieldInv, [Next]_vars,
                    NEW k \in Jobs
             PROVE  FieldsAt(k)'
  BY DEF FieldInv
<1>0. FieldsAt(k) /\ exec[k] \in Stage
  BY DEF FieldInv, TypeOK, JobTypes
<1>1. SameJob(k) => FieldsAt(k)'
  <2>1. SUFFICES ASSUME SameJob(k) PROVE FieldsAt(k)'
    OBVIOUS
  <2>2. FullReport(k)' = FullReport(k)
    BY <2>1 DEF SameJob, FullReport
  <2> QED BY <1>0, <2>1, <2>2 DEF SameJob, FieldsAt, Stage
<1>2. ASSUME NEW j \in Jobs,
             \/ StartScan(j) \/ Execute(j) \/ Expire(j)
             \/ \E t \in Targets : Scan(j, t)
      PROVE  FieldsAt(k)'
  <2>1. CASE k # j  BY <2>1, <1>1, <1>2, Frame
  <2>2. CASE k = j
    <3> USE <1>0, <2>2 DEF TypeOK, JobTypes, Stage, FieldsAt
    <3>1. CASE StartScan(j)  BY <3>1 DEF StartScan
    <3>2. CASE Execute(j)
      <4> UNCHANGED outcome
        BY <3>2 DEF Execute, BeginMark, EndMark, FanOut, BeginPublish,
                    StoreResult, TearStatus, StoreStatus, StoreProgress,
                    EndPublish, scanVars
      <4>0. FullReport(k)' = FullReport(k)
        BY DEF FullReport
      <4>1. CASE BeginMark(j)     BY <4>1 DEF BeginMark
      <4>2. CASE EndMark(j)       BY <4>2 DEF EndMark
      <4>3. CASE FanOut(j)        BY <4>3 DEF FanOut
      <4>4. CASE BeginPublish(j)  BY <4>4 DEF BeginPublish, Field
      <4>5. CASE StoreResult(j)
        <5>1. exec[j] = "publishing"
          BY <4>5 DEF StoreResult, LockInv, Locked
        <5>2. [scanned |-> scanned[j], findings |-> findings[j]] = FullReport(j)
          BY <5>1, AccumulatorsFull DEF AccumulatorInv
        <5> QED BY <4>5, <5>1, <5>2, <4>0 DEF StoreResult
      <4>6. CASE TearStatus(j)    BY <4>6, <4>0 DEF TearStatus
      <4>7. CASE StoreStatus(j)
        <5>1. exec[j] \in {"marking", "publishing"}
          BY <4>7 DEF StoreStatus, LockInv, Locked
        <5>2. exec[j] = "marking" => status[j] # "torn"
          BY <4>7 DEF StoreStatus
        <5> QED BY <4>7, <4>0, <5>1, <5>2 DEF StoreStatus
      <4>8. CASE StoreProgress(j)
        <5>1. exec[j] \in {"marking", "publishing"}
          BY <4>8 DEF StoreProgress, LockInv, Locked
        <5> QED BY <4>8, <4>0, <5>1 DEF StoreProgress
      <4>9. CASE EndPublish(j)    BY <4>9, <4>0 DEF EndPublish
      <4> QED BY <3>2, <4>1, <4>2, <4>3, <4>4, <4>5, <4>6, <4>7, <4>8, <4>9
              DEF Execute
    <3>3. CASE Expire(j)  BY <3>3 DEF Expire, jobVars
    <3>4. ASSUME NEW t \in Targets, Scan(j, t) PROVE FieldsAt(k)'
      <4>1. exec[j] = "scanning"
        BY <3>4, ScanStage
      <4>2. UNCHANGED jobVars
        BY <3>4 DEF Scan, DialFails, PeerReplies, SshConnects, SshPeerEnds,
                    SshFallsBack, Merge
      <4> QED BY <4>1, <4>2 DEF jobVars
    <3> QED BY <1>2, <3>1, <3>2, <3>3, <3>4
  <2> QED BY <2>1, <2>2
<1>3. CASE Restart
  <2>1. /\ exec'[k] \in {"none", "lost"} /\ status'[k] = "unset"
        /\ progress'[k] = 0 /\ result'[k] = Nil
    BY <1>3 DEF Restart, Registered
  <2> QED BY <2>1 DEF FieldsAt
<1>4. (\E c \in Clients : Serve(c) \/ \E j \in Jobs : GetScan(c, j))
        => SameJob(k)
  BY DEF Serve, LoadField, Respond, GetScan, jobVars, scanVars, SameJob
<1>5. UNCHANGED vars => SameJob(k)
  BY DEF vars, jobVars, scanVars, SameJob
<1> QED BY <1>1, <1>2, <1>3, <1>4, <1>5 DEF Next

(* The result of a job changes only in the job's own critical section, and *)
(* once it is set only a restart takes it away.                            *)
LEMMA ResultStep ==
  ASSUME TypeOK, LockInv, FieldInv, AccumulatorInv, NEW k \in Jobs,
         [Next]_vars, ~Restart, result[k] # Nil
  PROVE  result'[k] = result[k]
<1> USE DEF TypeOK, JobTypes
<1>1. ASSUME NEW j \in Jobs, StoreResult(j) PROVE result'[k] = result[k]
  <2>1. exec[j] \in {"marking", "publishing"}
    BY <1>1 DEF StoreResult, LockInv, Locked
  <2>2. result[j] = Nil
    BY <1>1, <2>1 DEF StoreResult, FieldInv, FieldsAt
  <2> QED BY <1>1, <2>2 DEF StoreResult
<1>2. ASSUME NEW j \in Jobs, StartScan(j) \/ Execute(j) \/ Expire(j)
      PROVE  result'[k] = result[k]
  BY <1>1, <1>2 DEF StartScan, Expire, Execute, BeginMark, EndMark, FanOut,
     BeginPublish, TearStatus, StoreStatus, StoreProgress, EndPublish, jobVars
<1>3. ASSUME NEW j \in Jobs, NEW t \in Targets, Scan(j, t)
      PROVE  result'[k] = result[k]
  BY <1>3 DEF Scan, DialFails, PeerReplies, SshConnects, SshPeerEnds,
              SshFallsBack, Merge, jobVars
<1>4. (\E c \in Clients : Serve(c) \/ \E j \in Jobs : GetScan(c, j))
        => result'[k] = result[k]
  BY DEF Serve, LoadField, Respond, GetScan, jobVars
<1>5. UNCHANGED vars => result'[k] = result[k]
  BY DEF vars, jobVars
<1> QED BY <1>2, <1>3, <1>4, <1>5 DEF Next

(* Goroutines never leave the registered stages except by a restart.       *)
LEMMA StageStep ==
  ASSUME TypeOK, NEW k \in Jobs, [Next]_vars, ~Restart,
         exec[k] \notin {"none", "lost"}
  PROVE  exec'[k] \notin {"none", "lost"}
<1> USE DEF TypeOK, JobTypes
<1>1. ASSUME NEW j \in Jobs, StartScan(j) \/ Execute(j) \/ Expire(j)
      PROVE  exec'[k] \notin {"none", "lost"}
  BY <1>1 DEF StartScan, Expire, Execute, BeginMark, EndMark, FanOut,
     BeginPublish, StoreResult, TearStatus, StoreStatus, StoreProgress,
     EndPublish, jobVars
<1>2. (\E j \in Jobs, t \in Targets : Scan(j, t)) => exec' = exec
  BY DEF Scan, DialFails, PeerReplies, SshConnects, SshPeerEnds,
         SshFallsBack, Merge, jobVars
<1>3. (\E c \in Clients : Serve(c) \/ \E j \in Jobs : GetScan(c, j))
        => exec' = exec
  BY DEF Serve, LoadField, Respond, GetScan, jobVars
<1>4. UNCHANGED vars => exec' = exec
  BY DEF vars, jobVars
<1> QED BY <1>1, <1>2, <1>3, <1>4 DEF Next

(* A status request never loads a result its job does not have.            *)
LEMMA RequestStep ==
  TypeOK /\ LockInv /\ FieldInv /\ AccumulatorInv /\ RequestInv /\ [Next]_vars
    => RequestInv'
<1> SUFFICES ASSUME TypeOK, LockInv, FieldInv, AccumulatorInv, RequestInv,
                    [Next]_vars
             PROVE  RequestInv'
  OBVIOUS
<1> USE ScanAssumption
<1>1. CASE UNCHANGED clientVars /\ ~Restart
  <2> SUFFICES ASSUME NEW c \in Clients
               PROVE  /\ serving[c] # Nil => exec'[serving[c]] \notin {"none", "lost"}
                      /\ draft[c].result # Nil =>
                           serving[c] # Nil
                           /\ draft[c].result = result'[serving[c]]
    BY <1>1 DEF RequestInv, clientVars
  <2>1. serving[c] # Nil => serving[c] \in Jobs
    BY DEF TypeOK, ClientTypes
  <2> QED BY <1>1, <2>1, StageStep, ResultStep DEF RequestInv
<1>2. ASSUME NEW c \in Clients, LoadField(c) PROVE RequestInv'
  <2>1. PICK f \in loads[c] :
          draft' = [draft EXCEPT ![c] =
             CASE f = "status" -> [@ EXCEPT !.status = status[serving[c]]]
               [] f = "progress" -> [@ EXCEPT !.progress = progress[serving[c]]]
               [] f = "guard" -> [@ EXCEPT !.guard = status[serving[c]]]
               [] f = "result" -> [@ EXCEPT !.result = result[serving[c]]]]
    BY <1>2 DEF LoadField
  <2>2. f \in Load /\ draft[c] \in Draft /\ serving[c] # Nil
    BY <1>2 DEF LoadField, TypeOK, ClientTypes
  <2>3. draft'[c].result \in {draft[c].result, result[serving[c]]}
    BY <2>1, <2>2 DEF Load, Draft, TypeOK, ClientTypes
  <2>4. \A d \in Clients : d # c => draft'[d] = draft[d]
    BY <2>1 DEF TypeOK, ClientTypes
  <2>5. serving' = serving /\ exec' = exec /\ result' = result
    BY <1>2 DEF LoadField, jobVars
  <2> QED BY <2>2, <2>3, <2>4, <2>5 DEF RequestInv
<1>3. ASSUME NEW c \in Clients, Respond(c) PROVE RequestInv'
  BY <1>3 DEF Respond, RequestInv, NoDraft, TypeOK, ClientTypes, jobVars
<1>4. ASSUME NEW c \in Clients, NEW j \in Jobs, GetScan(c, j) PROVE RequestInv'
  <2>1. CASE Registered(j)
    <3>1. /\ serving' = [serving EXCEPT ![c] = j]
          /\ draft' = [draft EXCEPT ![c] = NoDraft]
          /\ exec' = exec /\ result' = result
      BY <1>4, <2>1 DEF GetScan, jobVars
    <3> QED BY <2>1, <3>1
            DEF Registered, RequestInv, NoDraft, TypeOK, ClientTypes
  <2>2. CASE ~Registered(j)
    BY <1>4, <2>2 DEF GetScan, RequestInv, jobVars
  <2> QED BY <2>1, <2>2
<1>5. CASE Restart
  <2>1. \A c \in Clients : serving'[c] = Nil /\ draft'[c].result = Nil
    BY <1>5 DEF Restart, NoDraft
  <2> QED BY <2>1 DEF RequestInv
<1>6. (\E j \in Jobs : StartScan(j) \/ Execute(j) \/ Expire(j))
        => UNCHANGED clientVars
  BY DEF StartScan, Expire, Execute, BeginMark, EndMark, FanOut,
     BeginPublish, StoreResult, TearStatus, StoreStatus, StoreProgress,
     EndPublish
<1>7. (\E j \in Jobs, t \in Targets : Scan(j, t)) => UNCHANGED clientVars
  BY DEF Scan, DialFails, PeerReplies, SshConnects, SshPeerEnds,
         SshFallsBack, Merge
<1>8. UNCHANGED vars => UNCHANGED clientVars
  BY DEF vars
<1> QED BY <1>1, <1>2, <1>3, <1>4, <1>5, <1>6, <1>7, <1>8 DEF Next, Serve

(* A job that a restart has lost stays lost.                                *)
LEMMA LostStep ==
  ASSUME TypeOK, NEW k \in Jobs, [Next]_vars, exec[k] = "lost"
  PROVE  exec'[k] = "lost"
<1> USE DEF TypeOK, JobTypes
<1>1. ASSUME NEW j \in Jobs, Execute(j) PROVE exec'[k] = "lost"
  <2>1. CASE StoreResult(j) \/ TearStatus(j) \/ StoreStatus(j) \/ StoreProgress(j)
    BY <2>1 DEF StoreResult, TearStatus, StoreStatus, StoreProgress
  <2>2. CASE BeginMark(j) \/ EndMark(j) \/ FanOut(j) \/ BeginPublish(j) \/ EndPublish(j)
    BY <2>2 DEF BeginMark, EndMark, FanOut, BeginPublish, EndPublish
  <2> QED BY <1>1, <2>1, <2>2 DEF Execute
<1>2. ASSUME NEW j \in Jobs, StartScan(j) \/ Expire(j) PROVE exec'[k] = "lost"
  BY <1>2 DEF StartScan, Expire, jobVars
<1>3. (\E j \in Jobs, t \in Targets : Scan(j, t)) => exec' = exec
  BY DEF Scan, DialFails, PeerReplies, SshConnects, SshPeerEnds,
         SshFallsBack, Merge, jobVars
<1>4. (\E c \in Clients : Serve(c) \/ \E j \in Jobs : GetScan(c, j))
        => exec' = exec
  BY DEF Serve, LoadField, Respond, GetScan, jobVars
<1>5. UNCHANGED vars => exec' = exec
  BY DEF vars, jobVars
<1>6. CASE Restart
  BY <1>6 DEF Restart, Registered
<1> QED BY <1>1, <1>2, <1>3, <1>4, <1>5, <1>6 DEF Next

(* A report once answered stays the result of its job until a restart.      *)
LEMMA AnswerStep ==
  TypeOK /\ LockInv /\ FieldInv /\ AccumulatorInv /\ RequestInv /\ AnswerInv
    /\ [Next]_vars => AnswerInv'
<1> SUFFICES ASSUME TypeOK, LockInv, FieldInv, AccumulatorInv, RequestInv,
                    AnswerInv, [Next]_vars, NEW c \in Clients,
                    answer'[c].report # Nil
             PROVE  /\ answer'[c].job \in Jobs
                    /\ \/ exec'[answer'[c].job] = "lost"
                       \/ answer'[c].report = result'[answer'[c].job]
  BY DEF AnswerInv
<1>1. CASE answer'[c] = answer[c]
  <2>1. /\ answer[c].job \in Jobs
        /\ exec[answer[c].job] = "lost" \/ answer[c].report = result[answer[c].job]
    BY <1>1 DEF AnswerInv
  <2>2. CASE exec[answer[c].job] = "lost"
    BY <1>1, <2>1, <2>2, LostStep
  <2>3. CASE answer[c].report = result[answer[c].job] /\ ~Restart
    BY <1>1, <2>1, <2>3, ResultStep
  <2>4. CASE answer[c].report = result[answer[c].job] /\ Restart
    <3>1. exec[answer[c].job] # "none"
      BY <1>1, <2>1, <2>4 DEF FieldInv, FieldsAt
    <3> QED BY <1>1, <2>1, <2>4, <3>1 DEF Restart, Registered
  <2> QED BY <2>1, <2>2, <2>3, <2>4
<1>2. ASSUME Respond(c)
      PROVE  /\ answer'[c].job \in Jobs
             /\ answer'[c].report = result'[answer'[c].job]
  <2>1. serving[c] \in Jobs
    BY <1>2 DEF Respond, TypeOK, ClientTypes
  <2>2. /\ answer'[c].job = serving[c]
        /\ answer'[c].report \in {draft[c].result, Nil}
        /\ result' = result
    BY <1>2 DEF Respond, TypeOK, ClientTypes, jobVars
  <2>3. draft[c].result = result[serving[c]]
    BY <2>2 DEF RequestInv
  <2> QED BY <2>1, <2>2, <2>3
<1>3. ASSUME NEW d \in Clients, Respond(d), d # c PROVE answer'[c] = answer[c]
  BY <1>3 DEF Respond, TypeOK, ClientTypes
<1>4. ASSUME NEW d \in Clients, NEW j \in Jobs, GetScan(d, j)
      PROVE  answer'[c] = answer[c]
  <2>1. CASE Registered(j)
    BY <1>4, <2>1 DEF GetScan
  <2>2. CASE ~Registered(j)
    <3>1. answer' = [answer EXCEPT ![d] =
                       [NoAnswer EXCEPT !.job = j, !.status = "unknown"]]
      BY <1>4, <2>2 DEF GetScan
    <3>2. answer'[d].report = Nil
      BY <3>1 DEF NoAnswer, TypeOK, ClientTypes
    <3> QED BY <3>1, <3>2 DEF TypeOK, ClientTypes
  <2> QED BY <2>1, <2>2
<1>5. ASSUME NEW d \in Clients, LoadField(d) PROVE answer'[c] = answer[c]
  BY <1>5 DEF LoadField
<1>6. (\E j \in Jobs : StartScan(j) \/ Execute(j) \/ Expire(j))
        => answer' = answer
  BY DEF StartScan, Expire, Execute, BeginMark, EndMark, FanOut,
     BeginPublish, StoreResult, TearStatus, StoreStatus, StoreProgress,
     EndPublish, clientVars
<1>7. (\E j \in Jobs, t \in Targets : Scan(j, t)) => answer' = answer
  BY DEF Scan, DialFails, PeerReplies, SshConnects, SshPeerEnds,
         SshFallsBack, Merge, clientVars
<1>8. Restart \/ UNCHANGED vars => answer' = answer
  BY DEF Restart, vars, clientVars
<1> QED BY <1>1, <1>2, <1>3, <1>4, <1>5, <1>6, <1>7, <1>8 DEF Next, Serve

(* IInv holds at the start and every step preserves it.                    *)
THEOREM Invariance == Spec => []IInv
<1> USE ScanAssumption, NilAssumption
<1>1. Init => IInv
  <2> SUFFICES ASSUME Init PROVE IInv
    OBVIOUS
  <2>1. LockInv      BY DEF Init, LockInv, Locked
  <2>2. FieldInv     BY DEF Init, FieldInv, FieldsAt
  <2>3. AccumulatorInv
    <3> SUFFICES ASSUME NEW k \in Jobs PROVE AccumulatorAt(k)
      BY DEF AccumulatorInv, AccumulatorAt
    <3>1. worker[k] = Idle  BY DEF Init
    <3>2. Merged(k) = {} /\ Cardinality(Merged(k)) = 0
      BY <3>1, NothingMerged
    <3> QED BY <3>1, <3>2 DEF Init, AccumulatorAt
  <2>4. RequestInv   BY DEF Init, RequestInv, NoDraft
  <2>5. AnswerInv    BY DEF Init, AnswerInv, NoAnswer
  <2> QED BY <2>1, <2>2, <2>3, <2>4, <2>5 DEF IInv
<1>2. TypeOK /\ IInv /\ [Next]_vars => IInv'
  BY LockStep, FieldStep, AccumulatorStep, RequestStep, AnswerStep DEF IInv
<1> QED BY <1>1, <1>2, TypeCorrect, PTL DEF Spec

(* Whoever takes the lock finds every job's status, progress and result in *)
(* agreement, for any number of scans and targets.                         *)
THEOREM SnapshotConsistent == Spec => []LockedSnapshotConsistent
<1>1. TypeOK /\ IInv => LockedSnapshotConsistent
  <2> SUFFICES ASSUME TypeOK, IInv, mu = Nil, NEW j \in Jobs
               PROVE  /\ status[j] = "completed" <=> result[j] # Nil
                      /\ status[j] = "completed" <=> progress[j] = 100
                      /\ status[j] \in {"unset", "pending"} <=> progress[j] = 0
                      /\ status[j] # "torn"
    BY DEF LockedSnapshotConsistent
  <2>1. exec[j] \in Stage \ Locked
    BY ScanAssumption DEF IInv, LockInv, TypeOK, JobTypes
  <2>2. result[j] # Nil => result[j] \in Result
    BY DEF TypeOK, JobTypes
  <2>3. FieldsAt(j)
    BY DEF IInv, FieldInv
  <2>4. exec[j] = "finished" => result[j] # Nil
    BY <2>3, FullReportType DEF FieldsAt
  <2>5. CASE exec[j] = "finished"
    <3>1. status[j] = "completed" /\ progress[j] = 100
      BY <2>3, <2>5 DEF FieldsAt
    <3> QED BY <3>1, <2>4, <2>5
  <2>6. CASE exec[j] \in {"none", "lost"}
    <3>1. status[j] = "unset" /\ progress[j] = 0 /\ result[j] = Nil
      BY <2>3, <2>6 DEF FieldsAt
    <3> QED BY <3>1
  <2>7. CASE exec[j] = "spawned"
    <3>1. status[j] = "pending" /\ progress[j] = 0 /\ result[j] = Nil
      BY <2>3, <2>7 DEF FieldsAt
    <3> QED BY <3>1
  <2>8. CASE exec[j] \in {"marked", "scanning"}
    <3>1. status[j] = "running" /\ progress[j] \in {10, 30} /\ result[j] = Nil
      BY <2>3, <2>8 DEF FieldsAt
    <3> QED BY <3>1
  <2> QED BY <2>1, <2>5, <2>6, <2>7, <2>8 DEF Stage, Locked
<1> QED BY <1>1, TypeCorrect, Invariance, PTL

(* A published result is complete: every target counted, exactly the       *)
(* findings of the targets that did not fail.                              *)
THEOREM PublishedComplete == Spec => []ReportComplete
<1>1. TypeOK /\ IInv => ReportComplete
  <2> SUFFICES ASSUME TypeOK, IInv, NEW j \in Jobs, result[j] # Nil
               PROVE  AllMerged(j) /\ result[j] = FullReport(j)
    BY DEF ReportComplete
  <2>1. FieldsAt(j) /\ exec[j] \in Stage
    BY DEF IInv, FieldInv, TypeOK, JobTypes
  <2>2. exec[j] \in {"publishing", "finished"} /\ result[j] = FullReport(j)
    BY <2>1 DEF FieldsAt, Stage
  <2> QED BY <2>2 DEF IInv, AccumulatorInv
<1> QED BY <1>1, TypeCorrect, Invariance, PTL

(* Though the status handler reads without the lock, a report it answers is *)
(* the complete report of a finished scan, never a part of one.             *)
THEOREM AnsweredFinal == Spec => []AnsweredReportIsFinal
<1>1. TypeOK /\ IInv => AnsweredReportIsFinal
  <2> SUFFICES ASSUME TypeOK, IInv, NEW c \in Clients, answer[c].report # Nil,
                      exec[answer[c].job] # "lost"
               PROVE  /\ AllMerged(answer[c].job)
                      /\ answer[c].report = FullReport(answer[c].job)
    BY DEF AnsweredReportIsFinal
  <2>1. answer[c].job \in Jobs /\ answer[c].report = result[answer[c].job]
    BY DEF IInv, AnswerInv
  <2>2. FieldsAt(answer[c].job) /\ exec[answer[c].job] \in Stage
    BY <2>1 DEF IInv, FieldInv, TypeOK, JobTypes
  <2>3. /\ exec[answer[c].job] \in {"publishing", "finished"}
        /\ result[answer[c].job] = FullReport(answer[c].job)
    BY <2>1, <2>2 DEF FieldsAt, Stage
  <2> QED BY <2>1, <2>3 DEF IInv, AccumulatorInv
<1> QED BY <1>1, TypeCorrect, Invariance, PTL

-----------------------------------------------------------------------------
(* The scan manager implements ScanService.                                *)

(* A target's goroutine only ever reports findings of its own target.       *)
FoundInv == \A j \in Jobs, t \in Targets : outcome[j][t].found \in SUBSET Found[t]

LEMMA FoundStep == TypeOK /\ FoundInv /\ [Next]_vars => FoundInv'
<1> SUFFICES ASSUME TypeOK, FoundInv, [Next]_vars PROVE FoundInv'
  OBVIOUS
<1> USE DEF TypeOK, ScanTypes, Outcome
<1>1. ASSUME NEW j \in Jobs, NEW t \in Targets, NEW e \in BOOLEAN,
             NEW f \in SUBSET Found[t], Answered(j, t, e, f)
      PROVE  FoundInv'
  BY <1>1 DEF Answered, FoundInv
<1>2. ASSUME NEW j \in Jobs, NEW t \in Targets, Scan(j, t) PROVE FoundInv'
  <2>1. CASE DialFails(j, t)
    BY <1>1, <2>1 DEF DialFails
  <2>2. CASE PeerReplies(j, t)
    BY <1>1, <2>2 DEF PeerReplies
  <2>3. CASE SshPeerEnds(j, t)
    BY <1>1, <2>3 DEF SshPeerEnds
  <2>4. CASE SshConnects(j, t) \/ SshFallsBack(j, t) \/ Merge(j, t)
    BY <2>4 DEF SshConnects, SshFallsBack, Merge, FoundInv
  <2> QED BY <1>2, <2>1, <2>2, <2>3, <2>4 DEF Scan
<1>3. ASSUME NEW j \in Jobs, StartScan(j) \/ Execute(j) \/ Expire(j)
      PROVE  outcome' = outcome
  BY <1>3 DEF StartScan, Expire, Execute, BeginMark, EndMark, FanOut,
     BeginPublish, StoreResult, TearStatus, StoreStatus, StoreProgress,
     EndPublish, scanVars
<1>4. (\E c \in Clients : Serve(c) \/ \E j \in Jobs : GetScan(c, j))
        => outcome' = outcome
  BY DEF Serve, LoadField, Respond, GetScan, scanVars
<1>5. UNCHANGED vars => outcome' = outcome
  BY DEF vars, scanVars
<1>6. CASE Restart
  BY <1>6 DEF Restart, Silent, FoundInv
<1> QED BY <1>2, <1>3, <1>4, <1>5, <1>6 DEF Next, FoundInv

(* The phase a job has for its users.                                       *)
LEMMA PhaseAt ==
  \A j \in Jobs : /\ exec[j] = "none" => Phase(j) = "new"
                  /\ exec[j] = "lost" => Phase(j) = "lost"
                  /\ exec[j] = "finished" => Phase(j) = "done"
                  /\ exec[j] \notin {"none", "lost", "finished"} => Phase(j) = "open"
  BY DEF Phase

LEMMA PhaseNext ==
  \A j \in Jobs : /\ exec'[j] = "none" => Phase(j)' = "new"
                  /\ exec'[j] = "lost" => Phase(j)' = "lost"
                  /\ exec'[j] = "finished" => Phase(j)' = "done"
                  /\ exec'[j] \notin {"none", "lost", "finished"} => Phase(j)' = "open"
  BY DEF Phase

ReportAt(j) == IF exec[j] = "finished" THEN result[j] ELSE Nil

(* What leaves every job's phase, merged targets, findings and report alone *)
(* is invisible.                                                            *)
LEMMA Invisible ==
  ASSUME \A j \in Jobs : /\ Phase(j)' = Phase(j)
                         /\ Merged(j)' = Merged(j)
                         /\ ReportAt(j)' = ReportAt(j),
         findings' = findings
  PROVE  UNCHANGED Service!vars
  BY DEF Service!vars, Merged, ReportAt

SameView(k) ==
  Phase(k)' = Phase(k) /\ Merged(k)' = Merged(k) /\ ReportAt(k)' = ReportAt(k)

(* A job no goroutine of which takes a step looks the same.                 *)
LEMMA OtherView ==
  ASSUME TypeOK, NEW j \in Jobs, NEW k \in Jobs, k # j,
         \/ StartScan(j) \/ Execute(j) \/ Expire(j)
         \/ \E t \in Targets : Scan(j, t)
  PROVE  SameView(k)
<1>1. SameJob(k)  BY Frame
<1>2. Phase(k)' = Phase(k)  BY <1>1 DEF SameJob, Phase
<1>3. Merged(k)' = Merged(k) /\ ReportAt(k)' = ReportAt(k)
  BY <1>1 DEF SameJob, Merged, ReportAt
<1> QED BY <1>2, <1>3 DEF SameView

(* Between its start and its end a job's goroutines show nothing but the    *)
(* targets they merge.                                                      *)
LEMMA OpenView ==
  ASSUME TypeOK, NEW j \in Jobs, Execute(j) \/ Expire(j), ~EndPublish(j),
         LockInv, AccumulatorInv
  PROVE  SameView(j)
<1> USE DEF TypeOK, JobTypes, ScanTypes
<1>1. CASE Expire(j)
  <2>1. /\ exec'[j] = exec[j] /\ worker'[j] = worker[j] /\ result'[j] = result[j]
    BY <1>1 DEF Expire, jobVars
  <2>2. Phase(j)' = Phase(j)  BY <2>1 DEF Phase
  <2> QED BY <2>1, <2>2 DEF SameView, Merged, ReportAt
<1>2. CASE FanOut(j)
  <2>1. exec[j] = "marked" /\ exec'[j] = "scanning"
    BY <1>2 DEF FanOut
  <2>2. Merged(j) = {}
    BY <2>1, NothingMerged DEF AccumulatorInv
  <2>3. Merged(j)' = {}
    BY <1>2 DEF FanOut, Merged
  <2>4. Phase(j)' = Phase(j)  BY <2>1, PhaseAt, PhaseNext
  <2> QED BY <2>1, <2>2, <2>3, <2>4 DEF SameView, ReportAt
<1>3. CASE BeginMark(j) \/ EndMark(j) \/ BeginPublish(j)
  <2>1. /\ exec[j] \in {"spawned", "marking", "scanning"}
        /\ exec'[j] \in {"marking", "marked", "publishing"}
        /\ worker' = worker
    BY <1>3 DEF BeginMark, EndMark, BeginPublish, scanVars
  <2>2. Phase(j)' = Phase(j)  BY <2>1, PhaseAt, PhaseNext
  <2> QED BY <2>1, <2>2 DEF SameView, Merged, ReportAt
<1>4. CASE StoreResult(j) \/ TearStatus(j) \/ StoreStatus(j) \/ StoreProgress(j)
  <2>1. stores[j] # {} /\ exec' = exec /\ worker' = worker
    BY <1>4 DEF StoreResult, TearStatus, StoreStatus, StoreProgress, scanVars
  <2>2. exec[j] # "finished"
    BY <2>1 DEF LockInv, Locked
  <2>3. Phase(j)' = Phase(j)  BY <2>1 DEF Phase
  <2> QED BY <2>1, <2>2, <2>3 DEF SameView, Merged, ReportAt
<1> QED BY <1>1, <1>2, <1>3, <1>4 DEF Execute

(* The goroutines, the field by field stores of a job and the unlocked      *)
(* loads of the status handler add nothing to ScanService: a target is      *)
(* heard when its goroutine merges, and the report is there when the last   *)
(* critical section ends.                                                   *)
THEOREM ImplementsService == Spec => ServiceSpec
<1>1. Init => Service!Init
  <2> SUFFICES ASSUME Init PROVE Service!Init
    OBVIOUS
  <2>1. \A j \in Jobs : Phase(j) = "new" /\ Merged(j) = {} /\ ReportAt(j) = Nil
    BY PhaseAt DEF Init, Idle, Merged, ReportAt
  <2> QED BY <2>1 DEF Init, Service!Init, Merged, ReportAt
<1>2. Init => FoundInv
  BY DEF Init, FoundInv, Silent
<1>3. TypeOK /\ IInv /\ FoundInv /\ [Next]_vars => [Service!Next]_(Service!vars)
  <2> SUFFICES ASSUME TypeOK, IInv, FoundInv, [Next]_vars
               PROVE  Service!Next \/ UNCHANGED Service!vars
    OBVIOUS
  <2> USE DEF IInv
  <2>1. ASSUME NEW j \in Jobs, StartScan(j) PROVE Service!Accept(j)
    <3>1. \A k \in Jobs : k # j => SameView(k)
      BY <2>1, OtherView
    <3>2. Phase(j) = "new" /\ Phase(j)' = "open"
      BY <2>1, PhaseAt, PhaseNext DEF StartScan, TypeOK, JobTypes
    <3>3. exec[j] = "none" /\ exec'[j] = "spawned" /\ worker' = worker /\ findings' = findings
      BY <2>1 DEF StartScan, scanVars, TypeOK, JobTypes
    <3>4. Merged(j)' = Merged(j) /\ ReportAt(j)' = ReportAt(j)
      BY <3>3 DEF Merged, ReportAt
    <3> QED BY <3>1, <3>2, <3>3, <3>4
        DEF SameView, Merged, ReportAt, Service!Accept
  <2>2. ASSUME NEW j \in Jobs, EndPublish(j) PROVE Service!Publish(j)
    <3>1. \A k \in Jobs : k # j => SameView(k)
      BY <2>2, OtherView DEF Execute
    <3>2. /\ exec[j] = "publishing" /\ exec'[j] = "finished" /\ stores[j] = {}
          /\ worker' = worker /\ findings' = findings /\ result' = result
      BY <2>2 DEF EndPublish, scanVars, TypeOK, JobTypes
    <3>3. Phase(j) = "open" /\ Phase(j)' = "done"
      BY <3>2, PhaseAt, PhaseNext
    <3>4. AllMerged(j) /\ Merged(j) = Targets
      BY <3>2 DEF AccumulatorInv, AllMerged, Merged
    <3>5. result[j] = [scanned |-> scanned[j], findings |-> findings[j]]
      BY <3>2, <3>4, AccumulatorsFull DEF FieldInv, FieldsAt
    <3>6. scanned[j] = Cardinality(Targets)
      BY <3>4 DEF AccumulatorInv
    <3>7. Merged(j)' = Merged(j)
      BY <3>2 DEF Merged
    <3>8. ReportAt(j)' = [scanned |-> Cardinality(Targets), findings |-> findings[j]]
      BY <3>2, <3>5, <3>6 DEF ReportAt
    <3>9. Service!Cardinality(Targets) = Cardinality(Targets)
      BY DEF Service!Cardinality, Cardinality
    <3> QED BY <3>1, <3>2, <3>3, <3>4, <3>7, <3>8, <3>9
        DEF SameView, Merged, ReportAt, Service!Publish
  <2>3. ASSUME NEW j \in Jobs, Execute(j) \/ Expire(j), ~EndPublish(j)
        PROVE  UNCHANGED Service!vars
    <3>1. \A k \in Jobs : SameView(k)
      BY <2>3, OtherView, OpenView
    <3>2. findings' = findings
      BY <2>3 DEF Expire, Execute, BeginMark, EndMark, FanOut, BeginPublish,
         StoreResult, TearStatus, StoreStatus, StoreProgress, scanVars
    <3> QED BY <3>1, <3>2, Invisible DEF SameView
  <2>4. ASSUME NEW j \in Jobs, NEW t \in Targets, Scan(j, t)
        PROVE  Service!Hear(j, t) \/ UNCHANGED Service!vars
    <3>1. \A k \in Jobs : k # j => SameView(k)
      BY <2>4, OtherView
    <3>2. exec[j] = "scanning" /\ worker[j][t] # "merged"
      BY <2>4, ScanStage
    <3>3. exec' = exec
      BY <2>4 DEF Scan, DialFails, PeerReplies, SshConnects, SshPeerEnds,
         SshFallsBack, Merge, jobVars
    <3>4. Phase(j) = "open" /\ Phase(j)' = "open" /\ ReportAt(j)' = ReportAt(j)
      BY <3>2, <3>3, PhaseAt, PhaseNext DEF ReportAt
    <3>5. CASE Merge(j, t)
      <4>1. Merged(j)' = Merged(j) \cup {t}
        BY <3>2, <3>5 DEF Merge, Step, Merged, TypeOK, ScanTypes
      <4>2. \E found \in SUBSET Found[t] :
              findings' = [findings EXCEPT ![j] = @ \cup found]
        <5>1. CASE outcome[j][t].err
          <6>1. findings' = [findings EXCEPT ![j] = @ \cup {}]
            BY <3>5, <5>1 DEF Merge, TypeOK, ScanTypes
          <6> QED BY <6>1
        <5>2. CASE ~outcome[j][t].err
          BY <3>5, <5>2 DEF Merge, TypeOK, ScanTypes, FoundInv
        <5> QED BY <5>1, <5>2
      <4>3. t \notin Merged(j)
        BY <3>2 DEF Merged
      <4>4. UNCHANGED <<[k \in Jobs |-> Phase(k)], [k \in Jobs |-> ReportAt(k)]>>
        BY <3>1, <3>4 DEF SameView
      <4>5. [k \in Jobs |-> Merged(k)]' =
              [[k \in Jobs |-> Merged(k)] EXCEPT ![j] = @ \cup {t}]
        BY <3>1, <4>1 DEF SameView
      <4>6. Service!Hear(j, t)
        BY <3>4, <4>2, <4>3, <4>4, <4>5 DEF Merged, ReportAt, Service!Hear
      <4> QED BY <4>6
    <3>6. CASE ~Merge(j, t)
      <4>1. /\ findings' = findings
            /\ \E to \in WorkerStage \ {"merged"} :
                 worker' = [worker EXCEPT ![j][t] = to]
        BY <2>4, <3>6 DEF Scan, DialFails, PeerReplies, SshConnects, SshPeerEnds,
                    SshFallsBack, Answered, Step, WorkerStage
      <4>2. Merged(j)' = Merged(j)
        BY <4>1, <3>2 DEF Merged, TypeOK, ScanTypes
      <4> QED BY <3>1, <3>4, <4>1, <4>2, Invisible DEF SameView
    <3> QED BY <3>5, <3>6
  <2>5. ASSUME \/ \E c \in Clients : Serve(c) \/ \E j \in Jobs : GetScan(c, j)
               \/ UNCHANGED vars
        PROVE  UNCHANGED Service!vars
    <3>1. /\ exec' = exec /\ worker' = worker
          /\ result' = result /\ findings' = findings
      <4>1. ASSUME NEW c \in Clients, Serve(c)
            PROVE  /\ exec' = exec /\ worker' = worker
                   /\ result' = result /\ findings' = findings
        BY <4>1 DEF Serve, LoadField, Respond, jobVars, scanVars
      <4>2. ASSUME NEW c \in Clients, NEW j \in Jobs, GetScan(c, j)
            PROVE  /\ exec' = exec /\ worker' = worker
                   /\ result' = result /\ findings' = findings
        BY <4>2 DEF GetScan, jobVars, scanVars
      <4>3. UNCHANGED vars => /\ exec' = exec /\ worker' = worker
                              /\ result' = result /\ findings' = findings
        BY DEF vars, jobVars, scanVars
      <4> QED BY <2>5, <4>1, <4>2, <4>3
    <3>2. \A k \in Jobs : Phase(k)' = Phase(k)
      BY <3>1 DEF Phase
    <3> QED BY <3>1, <3>2, Invisible DEF Merged, ReportAt
  <2>6. CASE Restart
    <3>1. PICK j \in Jobs : exec[j] \notin {"none", "lost"}
      BY <2>6 DEF Restart, Registered
    <3>2. Phase(j) \in {"open", "done"}
      BY <3>1, PhaseAt
    <3>3. \A k \in Jobs : exec'[k] = IF exec[k] = "none" THEN "none" ELSE "lost"
      BY <2>6 DEF Restart, Registered
    <3>4. \A k \in Jobs : Phase(k)' = IF Phase(k) = "new" THEN "new" ELSE "lost"
      BY <3>3, PhaseAt, PhaseNext
    <3>5. \A k \in Jobs : Merged(k)' = {} /\ ReportAt(k)' = Nil
      BY <2>6, <3>3 DEF Restart, Merged, Idle, ReportAt
    <3>6. findings' = [k \in Jobs |-> {}]
      BY <2>6 DEF Restart
    <3>7. Service!Lose
      BY <3>2, <3>4, <3>5, <3>6 DEF Service!Lose, Merged, ReportAt
    <3> QED BY <3>7 DEF Service!Next
  <2> QED BY <2>1, <2>2, <2>3, <2>4, <2>5, <2>6 DEF Next, Execute, Service!Next
<1> QED BY <1>1, <1>2, <1>3, FoundStep, TypeCorrect, Invariance, PTL
    DEF Spec, ServiceSpec, Service!Spec

-----------------------------------------------------------------------------
(* Polls.  What a client was answered is bounded by what its request under   *)
(* way has loaded, and both by what the job holds.                           *)
PollAt(c) ==
  LET j == answer[c].job
      s == serving[c]
  IN  /\ j = Nil => answer[c].status = "unset" /\ answer[c].progress = 0
      /\ j # Nil => /\ exec[j] # "none"
                    /\ exec[j] # "lost" =>
                         /\ Rank(answer[c].status) <= Rank(status[j])
                         /\ answer[c].progress <= progress[j]
      /\ s # Nil =>
           /\ j \in {Nil, s}
           /\ "status" \notin loads[c] =>
                /\ Rank(answer[c].status) <= Rank(draft[c].status)
                /\ Rank(draft[c].status) <= Rank(status[s])
           /\ "progress" \notin loads[c] =>
                /\ answer[c].progress <= draft[c].progress
                /\ draft[c].progress <= progress[s]
PollInv == \A c \in Clients : PollAt(c)

(* The ranks of the values a status has.                                     *)
LEMMA Ranks ==
  /\ \A s \in Status : Rank(s) \in 0 .. 4
  /\ Rank("unset") = 0 /\ Rank("pending") = 1 /\ Rank("running") = 2 /\ Rank("torn") = 3
  /\ Rank("completed") = 4 /\ Rank("unknown") = 5
BY DEF Rank, Status

(* The fields of a registered job only grow, until a restart.                *)
LEMMA GrowStep ==
  ASSUME TypeOK, LockInv, FieldInv, AccumulatorInv, NEW k \in Jobs, [Next]_vars, ~Restart,
         exec[k] \notin {"none", "lost"}
  PROVE  Rank(status[k]) <= Rank(status'[k]) /\ progress[k] <= progress'[k]
<1> USE DEF TypeOK, JobTypes
<1>0. /\ FieldsAt(k) /\ status[k] \in Status /\ progress[k] \in Progress
      /\ Rank(status[k]) \in 0 .. 4
  BY Ranks DEF FieldInv
<1>1. status'[k] = status[k] /\ progress'[k] = progress[k]
        => Rank(status[k]) <= Rank(status'[k]) /\ progress[k] <= progress'[k]
  BY <1>0 DEF Progress
<1>2. ASSUME NEW j \in Jobs, StartScan(j) \/ Execute(j) \/ Expire(j)
      PROVE  Rank(status[k]) <= Rank(status'[k]) /\ progress[k] <= progress'[k]
  <2>1. CASE k # j
    BY <1>1, <1>2, <2>1, Frame DEF SameJob
  <2>2. CASE k = j
    <3>1. CASE StartScan(j) \/ Expire(j)
      BY <1>1, <2>2, <3>1 DEF StartScan, Expire, jobVars
    <3>2. CASE \/ BeginMark(j) \/ EndMark(j) \/ BeginPublish(j) \/ StoreResult(j)
               \/ EndPublish(j)
      BY <1>1, <3>2 DEF BeginMark, EndMark, BeginPublish, StoreResult, EndPublish
    <3>3. CASE FanOut(j)
      <4>1. progress[k] = 10 /\ progress'[k] = 30 /\ status' = status
        BY <1>0, <2>2, <3>3 DEF FanOut, FieldsAt
      <4> QED BY <1>0, <4>1
    <3>4. CASE TearStatus(j)
      <4>1. status[k] = "running" /\ status'[k] = "torn" /\ progress' = progress
        BY <2>2, <3>4 DEF TearStatus
      <4> QED BY <1>0, <4>1, Ranks DEF Progress
    <3>5. CASE StoreStatus(j)
      <4>1. exec[j] \in {"marking", "publishing"} /\ "status" \in stores[j]
        BY <3>5 DEF StoreStatus, LockInv, Locked
      <4>2. \/ status[k] = "pending" /\ status'[k] = "running"
            \/ status[k] = "torn" /\ status'[k] = "completed"
        BY <1>0, <2>2, <3>5, <4>1 DEF StoreStatus, FieldsAt
      <4>3. progress' = progress
        BY <3>5 DEF StoreStatus
      <4> QED BY <1>0, <4>2, <4>3, Ranks DEF Progress
    <3>6. CASE StoreProgress(j)
      <4>1. exec[j] \in {"marking", "publishing"} /\ "progress" \in stores[j]
        BY <3>6 DEF StoreProgress, LockInv, Locked
      <4>2. \/ progress[k] = 0 /\ progress'[k] = 10
            \/ progress[k] = 30 /\ progress'[k] = 100
        BY <1>0, <2>2, <3>6, <4>1 DEF StoreProgress, FieldsAt
      <4>3. status' = status
        BY <3>6 DEF StoreProgress
      <4> QED BY <1>0, <4>2, <4>3
    <3> QED BY <1>2, <3>1, <3>2, <3>3, <3>4, <3>5, <3>6 DEF Execute
  <2> QED BY <2>1, <2>2
<1>3. (\E j \in Jobs, t \in Targets : Scan(j, t)) => UNCHANGED jobVars
  BY DEF Scan, DialFails, PeerReplies, SshConnects, SshPeerEnds, SshFallsBack, Merge
<1>4. (\E c \in Clients : Serve(c) \/ \E j \in Jobs : GetScan(c, j)) => UNCHANGED jobVars
  BY Zenon DEF Serve, LoadField, Respond, GetScan
<1>5. UNCHANGED vars => UNCHANGED jobVars
  BY DEF vars
<1> QED BY <1>1, <1>2, <1>3, <1>4, <1>5 DEF Next, jobVars

(* A client whose request and answer stay as they are: only its job grows.   *)
LEMMA PollStays ==
  ASSUME TypeOK, TypeOK', IInv, [Next]_vars, NEW c \in Clients, PollAt(c),
         answer'[c] = answer[c], serving'[c] = serving[c], loads'[c] = loads[c],
         draft'[c] = draft[c], ~Restart
  PROVE  PollAt(c)'
<1>1. /\ answer[c] \in Answer /\ serving[c] \in Jobs \cup {Nil} /\ draft[c] \in Draft
      /\ status \in [Jobs -> Status] /\ progress \in [Jobs -> Progress]
  BY DEF TypeOK, ClientTypes, JobTypes
<1>2. /\ status' \in [Jobs -> Status] /\ progress' \in [Jobs -> Progress]
  BY DEF TypeOK, JobTypes
<1>3. answer[c].job \in Jobs \cup {Nil} /\ answer[c].status \in Status \cup {"unknown"}
      /\ answer[c].progress \in Nat /\ draft[c].status \in Status /\ draft[c].progress \in Nat
  BY <1>1 DEF Answer, Draft, Progress
<1>4. \A s \in Status \cup {"unknown"} : Rank(s) \in Nat
  BY Ranks
<1>5. \A k \in Jobs : /\ Rank(status[k]) \in Nat /\ Rank(status'[k]) \in Nat
                      /\ progress[k] \in Nat /\ progress'[k] \in Nat
  BY <1>1, <1>2, <1>4 DEF Progress
<1>6. \A k \in Jobs : exec[k] \notin {"none", "lost"} =>
         /\ Rank(status[k]) <= Rank(status'[k]) /\ progress[k] <= progress'[k]
         /\ exec'[k] \notin {"none", "lost"}
  BY GrowStep, StageStep DEF IInv
<1>7. \A k \in Jobs : exec[k] = "lost" => exec'[k] = "lost"
  BY LostStep
<1>8. serving[c] # Nil => exec[serving[c]] \notin {"none", "lost"}
  BY DEF IInv, RequestInv
<1>9. answer[c].job # Nil =>
        /\ exec'[answer[c].job] # "none"
        /\ exec'[answer[c].job] # "lost" =>
             /\ Rank(answer[c].status) <= Rank(status'[answer[c].job])
             /\ answer[c].progress <= progress'[answer[c].job]
  <2> SUFFICES ASSUME answer[c].job # Nil
               PROVE  /\ exec'[answer[c].job] # "none"
                      /\ exec'[answer[c].job] # "lost" =>
                           /\ Rank(answer[c].status) <= Rank(status'[answer[c].job])
                           /\ answer[c].progress <= progress'[answer[c].job]
    OBVIOUS
  <2>1. PICK k \in Jobs : k = answer[c].job
    BY <1>3
  <2>2. CASE exec[k] = "lost"
    BY <1>7, <2>1, <2>2
  <2>3. CASE exec[k] # "lost"
    <3>1. /\ exec[k] # "none" /\ Rank(answer[c].status) <= Rank(status[k])
          /\ answer[c].progress <= progress[k]
      BY <2>1, <2>3 DEF PollAt
    <3>2. Rank(answer[c].status) \in Nat
      BY <1>3, <1>4
    <3> QED BY <1>3, <1>5, <1>6, <2>1, <2>3, <3>1, <3>2
  <2> QED BY <2>2, <2>3
<1>10. serving[c] # Nil =>
         /\ "status" \notin loads[c] => Rank(draft[c].status) <= Rank(status'[serving[c]])
         /\ "progress" \notin loads[c] => draft[c].progress <= progress'[serving[c]]
  <2> SUFFICES ASSUME serving[c] # Nil
               PROVE  /\ "status" \notin loads[c] =>
                            Rank(draft[c].status) <= Rank(status'[serving[c]])
                      /\ "progress" \notin loads[c] => draft[c].progress <= progress'[serving[c]]
    OBVIOUS
  <2>1. PICK k \in Jobs : k = serving[c]
    BY <1>1
  <2>2. /\ "status" \notin loads[c] => Rank(draft[c].status) <= Rank(status[k])
        /\ "progress" \notin loads[c] => draft[c].progress <= progress[k]
    BY <2>1 DEF PollAt
  <2>3. Rank(draft[c].status) \in Nat
    BY <1>3, <1>4
  <2> QED BY <1>3, <1>5, <1>6, <1>8, <2>1, <2>2, <2>3
<1> QED BY <1>9, <1>10 DEF PollAt

(* A load takes over what the job holds now, which is no less than what the  *)
(* client was answered of it.                                                *)
LEMMA PollLoad ==
  ASSUME TypeOK, TypeOK', IInv, NEW c \in Clients, PollAt(c), LoadField(c)
  PROVE  PollAt(c)'
<1> USE ScanAssumption
<1>1. PICK f \in loads[c] :
        /\ loads' = [loads EXCEPT ![c] = @ \ {f}]
        /\ draft' = [draft EXCEPT ![c] =
             CASE f = "status" -> [@ EXCEPT !.status = status[serving[c]]]
               [] f = "progress" -> [@ EXCEPT !.progress = progress[serving[c]]]
               [] f = "guard" -> [@ EXCEPT !.guard = status[serving[c]]]
               [] f = "result" -> [@ EXCEPT !.result = result[serving[c]]]]
  BY DEF LoadField
<1>2. PICK s \in Jobs : s = serving[c]
  BY DEF LoadField, TypeOK, ClientTypes
<1>3. f \in Load /\ draft[c] \in Draft /\ answer[c] \in Answer
  BY <1>1 DEF TypeOK, ClientTypes
<1>4. /\ draft'[c].status = IF f = "status" THEN status[s] ELSE draft[c].status
      /\ draft'[c].progress = IF f = "progress" THEN progress[s] ELSE draft[c].progress
      /\ loads'[c] = loads[c] \ {f}
  BY <1>1, <1>2, <1>3 DEF Load, Draft, TypeOK, ClientTypes
<1>5. /\ serving' = serving /\ answer' = answer /\ exec' = exec /\ status' = status
      /\ progress' = progress
  BY DEF LoadField, jobVars
<1>6. exec[s] \notin {"none", "lost"}
  BY <1>2 DEF IInv, RequestInv
<1>7. status[s] \in Status /\ progress[s] \in Progress /\ Rank(status[s]) \in Nat
  BY Ranks DEF TypeOK, JobTypes
<1>8. Rank(answer[c].status) <= Rank(status[s]) /\ answer[c].progress <= progress[s]
  <2>1. CASE answer[c].job = Nil
    <3>1. answer[c].status = "unset" /\ answer[c].progress = 0
      BY <2>1 DEF PollAt
    <3> QED BY <1>7, <3>1, Ranks DEF Progress
  <2>2. CASE answer[c].job # Nil
    BY <1>2, <1>6, <2>2 DEF PollAt
  <2> QED BY <2>1, <2>2
<1>9. /\ "status" \notin loads'[c] =>
           /\ Rank(answer[c].status) <= Rank(draft'[c].status)
           /\ Rank(draft'[c].status) <= Rank(status[s])
      /\ "progress" \notin loads'[c] =>
           /\ answer[c].progress <= draft'[c].progress
           /\ draft'[c].progress <= progress[s]
  BY <1>2, <1>4, <1>7, <1>8 DEF PollAt, Progress
<1> QED BY <1>2, <1>5, <1>9 DEF PollAt

(* The answer is what was loaded; it is neither below the one before nor     *)
(* above what the job holds.                                                 *)
LEMMA PollRespond ==
  ASSUME TypeOK, IInv, NEW c \in Clients, PollAt(c), Respond(c)
  PROVE  /\ PollAt(c)'
         /\ Rank(answer[c].status) <= Rank(answer'[c].status)
         /\ answer[c].progress <= answer'[c].progress
<1> USE ScanAssumption
<1>1. PICK s \in Jobs : s = serving[c]
  BY DEF Respond, TypeOK, ClientTypes
<1>2. /\ answer'[c].job = s /\ answer'[c].status = draft[c].status
      /\ answer'[c].progress = draft[c].progress
      /\ serving'[c] = Nil /\ loads[c] = {}
      /\ exec' = exec /\ status' = status /\ progress' = progress
  BY <1>1 DEF Respond, TypeOK, ClientTypes, jobVars
<1>3. exec[s] \notin {"none", "lost"}
  BY <1>1 DEF IInv, RequestInv
<1>4. /\ Rank(answer[c].status) <= Rank(draft[c].status)
      /\ Rank(draft[c].status) <= Rank(status[s])
      /\ answer[c].progress <= draft[c].progress /\ draft[c].progress <= progress[s]
  BY <1>1, <1>2 DEF PollAt
<1>5. PollAt(c)'
  BY <1>1, <1>2, <1>3, <1>4 DEF PollAt
<1> QED BY <1>2, <1>4, <1>5

(* A new request has loaded nothing; a job that is gone is unknown, which    *)
(* is the last answer of all.                                                *)
LEMMA PollGet ==
  ASSUME TypeOK, IInv, NEW c \in Clients, NEW j \in Jobs, PollAt(c), GetScan(c, j)
  PROVE  /\ PollAt(c)'
         /\ answer'[c] = answer[c] \/
              (/\ answer'[c].status = "unknown"
               /\ Rank(answer[c].status) <= Rank(answer'[c].status))
<1> USE ScanAssumption
<1>1. /\ serving[c] = Nil /\ answer[c].job \in {Nil, j} /\ exec[j] # "none"
      /\ exec' = exec /\ status' = status /\ progress' = progress
  BY DEF GetScan, jobVars
<1>2. CASE Registered(j)
  <2>1. serving'[c] = j /\ loads'[c] = Load /\ answer' = answer
    BY <1>2 DEF GetScan, TypeOK, ClientTypes
  <2> QED BY <1>1, <2>1 DEF PollAt, Load
<1>3. CASE ~Registered(j)
  <2>1. answer'[c] = [NoAnswer EXCEPT !.job = j, !.status = "unknown"] /\ serving' = serving
    BY <1>3 DEF GetScan, TypeOK, ClientTypes
  <2>2. answer'[c].job = j /\ answer'[c].status = "unknown"
    BY <2>1 DEF NoAnswer
  <2>3. exec[j] = "lost"
    BY <1>1, <1>3 DEF Registered
  <2>4. answer[c].status \in Status \cup {"unknown"}
    BY DEF TypeOK, ClientTypes, Answer
  <2>5. Rank(answer[c].status) <= 5
    BY <2>4, Ranks
  <2> QED BY <1>1, <2>1, <2>2, <2>3, <2>5, Ranks DEF PollAt
<1> QED BY <1>2, <1>3

(* A restart cuts the requests and loses the jobs.                           *)
LEMMA PollRestart ==
  ASSUME Restart, NEW c \in Clients, PollAt(c), TypeOK
  PROVE  PollAt(c)'
<1>1. serving'[c] = Nil /\ answer' = answer
  BY DEF Restart
<1>2. answer[c].job # Nil => answer[c].job \in Jobs
  BY DEF TypeOK, ClientTypes, Answer
<1>3. \A k \in Jobs : exec[k] # "none" => exec'[k] = "lost"
  BY DEF Restart, Registered
<1> QED BY <1>1, <1>2, <1>3 DEF PollAt

(* Every step keeps the bounds, and answers nothing less than before.        *)
LEMMA PollStep ==
  ASSUME TypeOK, TypeOK', IInv, [Next]_vars, NEW c \in Clients, PollAt(c)
  PROVE  /\ PollAt(c)'
         /\ \/ answer'[c] = answer[c]
            \/ /\ Rank(answer[c].status) <= Rank(answer'[c].status)
               /\ answer'[c].status # "unknown" => answer[c].progress <= answer'[c].progress
<1>1. CASE Restart
  <2>1. answer' = answer
    BY <1>1 DEF Restart
  <2> QED BY <1>1, <2>1, PollRestart
<1>2. CASE LoadField(c)
  <2>1. answer' = answer
    BY <1>2 DEF LoadField
  <2> QED BY <1>2, <2>1, PollLoad
<1>3. CASE Respond(c)
  BY <1>3, PollRespond
<1>4. CASE \E j \in Jobs : GetScan(c, j)
  BY <1>4, PollGet
<1>5. CASE /\ answer'[c] = answer[c] /\ serving'[c] = serving[c] /\ loads'[c] = loads[c]
           /\ draft'[c] = draft[c] /\ ~Restart
  BY <1>5, PollStays
<1>6. ASSUME NEW d \in Clients, d # c, Serve(d) \/ \E j \in Jobs : GetScan(d, j)
      PROVE  /\ answer'[c] = answer[c] /\ serving'[c] = serving[c] /\ loads'[c] = loads[c]
             /\ draft'[c] = draft[c]
  <2>1. CASE LoadField(d)
    <3>1. /\ \E f, x : /\ loads' = [loads EXCEPT ![d] = @ \ {f}]
                     /\ draft' = [draft EXCEPT ![d] = x]
          /\ serving' = serving /\ answer' = answer
      BY <2>1, Zenon DEF LoadField
    <3> QED BY <1>6, <3>1 DEF TypeOK, ClientTypes
  <2>2. CASE Respond(d)
    BY <1>6, <2>2 DEF Respond, TypeOK, ClientTypes
  <2>3. CASE \E j \in Jobs : GetScan(d, j)
    <3>1. \/ /\ \E j : serving' = [serving EXCEPT ![d] = j]
             /\ loads' = [loads EXCEPT ![d] = Load]
             /\ draft' = [draft EXCEPT ![d] = NoDraft] /\ answer' = answer
          \/ /\ \E x : answer' = [answer EXCEPT ![d] = x]
             /\ serving' = serving /\ loads' = loads /\ draft' = draft
      BY <2>3, Zenon DEF GetScan
    <3> QED BY <1>6, <3>1 DEF TypeOK, ClientTypes
  <2> QED BY <1>6, <2>1, <2>2, <2>3 DEF Serve
<1>7. (\E j \in Jobs : StartScan(j) \/ Execute(j) \/ Expire(j)) => UNCHANGED clientVars
  BY DEF StartScan, Expire, Execute, BeginMark, EndMark, FanOut,
     BeginPublish, StoreResult, TearStatus, StoreStatus, StoreProgress,
     EndPublish
<1>8. (\E j \in Jobs, t \in Targets : Scan(j, t)) => UNCHANGED clientVars
  BY DEF Scan, DialFails, PeerReplies, SshConnects, SshPeerEnds,
         SshFallsBack, Merge
<1>9. UNCHANGED vars => UNCHANGED clientVars
  BY DEF vars
<1>10. UNCHANGED clientVars =>
         /\ answer'[c] = answer[c] /\ serving'[c] = serving[c] /\ loads'[c] = loads[c]
         /\ draft'[c] = draft[c]
  BY DEF clientVars
<1> QED BY <1>1, <1>2, <1>3, <1>4, <1>5, <1>6, <1>7, <1>8, <1>9, <1>10 DEF Next, Serve

(* The bounds hold for any number of jobs, targets and clients.              *)
THEOREM PollInvariance == Spec => []PollInv
<1>1. Init => PollInv
  BY ScanAssumption DEF Init, PollInv, PollAt, NoAnswer
<1>2. TypeOK /\ TypeOK' /\ IInv /\ PollInv /\ [Next]_vars => PollInv'
  BY PollStep DEF PollInv
<1> QED BY <1>1, <1>2, TypeCorrect, Invariance, PTL DEF Spec

(* Unlocked as the status endpoint reads, a client that polls never sees a   *)
(* status or a progress below the one it saw before, whatever the order of   *)
(* loads and stores, until a restart makes its job unknown.                  *)
THEOREM NeverRegress == Spec => PollsNeverRegress
<1> DEFINE Grows(c) == /\ Rank(answer[c].status) <= Rank(answer'[c].status)
                       /\ answer'[c].status # "unknown" =>
                            answer[c].progress <= answer'[c].progress
<1>1. TypeOK /\ TypeOK' /\ IInv /\ PollInv /\ [Next]_vars => [\A c \in Clients : Grows(c)]_answer
  <2> SUFFICES ASSUME TypeOK, TypeOK', IInv, PollInv, [Next]_vars, NEW c \in Clients
               PROVE  Grows(c)
    OBVIOUS
  <2>1. answer[c] \in Answer /\ PollAt(c)
    BY DEF TypeOK, ClientTypes, PollInv
  <2>2. Rank(answer[c].status) \in Nat /\ answer[c].progress \in Nat
    BY <2>1, Ranks DEF Answer, Progress
  <2>3. answer'[c] = answer[c] => Grows(c)
    BY <2>2
  <2> QED BY <2>1, <2>3, PollStep
<1> QED BY <1>1, TypeCorrect, Invariance, PollInvariance, PTL DEF Spec, PollsNeverRegress
===========================================================================
