------------------------- MODULE Convergence_proofs -------------------------
(* Proofs about the operator and the servers of Convergence, for any names,  *)
(* versions, failing calls, servers and programs that run together.          *)
EXTENDS Convergence, TLAPS

Phases == {"", "Running"}
Report == [uid : Nat, version : Nat, phase : Phases]
Job == [at : {"ensure", "status"}, name : Names, copy : Report]

Types ==
  /\ report \in [Names -> Report] /\ seenReport \in [Names -> Report]
  /\ deployment \in [Names -> Nat] /\ seenDeployment \in [Names -> Nat]
  /\ worker \in Job \cup {Operator!Resting}
  /\ nextUid \in Nat \ {0}

(* A copy of the report of a name is of one that has been applied, and of    *)
(* the same report it is no newer than the one there is.                     *)
NotNewer(copy, r) ==
  /\ copy.uid < nextUid
  /\ copy.uid # 0 /\ copy.uid = report[r].uid => copy.version <= report[r].version
Versions ==
  /\ \A r \in Names : NotNewer(report[r], r) /\ NotNewer(seenReport[r], r)
  /\ worker # Operator!Resting => worker.copy.uid # 0 /\ NotNewer(worker.copy, worker.name)

(* When the status of an unchanged report is about to be written, its        *)
(* deployment is its own, or the one that was found is about to be looked at *)
(* again when it is collected.                                               *)
Ensured ==
  worker # Operator!Resting /\ worker.at = "status" /\ report[worker.name] = worker.copy =>
    \/ worker.name \in queue
    \/ deployment[worker.name] = report[worker.name].uid
    \/ seenDeployment[worker.name] # 0

(* What is still to happen to a report that is not served.  Of a deployment  *)
(* that is not its own the collection is still to be seen by the cache.      *)
Owed(r) ==
  \/ r \in queue \/ (worker # Operator!Resting /\ worker.name = r)
  \/ seenReport[r] # report[r]
  \/ deployment[r] # report[r].uid /\ seenDeployment[r] # 0
AllOwed == \A r \in Names : report[r].uid # 0 /\ ~Operator!Served(r) => Owed(r)

OpInv == Types /\ Versions /\ Ensured /\ AllOwed

-----------------------------------------------------------------------------
(* The two records that hold the empty phase. *)
LEMMA GoneIsReport == Operator!Gone \in Report /\ Operator!Gone.uid = 0
<1>1. "" \in Phases
  BY Zenon DEF Phases
<1>2. Operator!Gone.uid = 0
  BY Zenon DEF Operator!Gone
<1>3. Operator!Gone \in Report
  <2>1. \A p \in Phases : [uid |-> 0, version |-> 0, phase |-> p] \in Report
    BY DEF Report
  <2> QED
    BY <1>1, <2>1, Zenon DEF Operator!Gone
<1> QED
  BY <1>2, <1>3, Zenon

LEMMA ApplyMakes ==
  ASSUME Types, NEW r \in Names, Operator!Apply(r)
  PROVE  \E new \in Report : /\ new.uid = nextUid /\ report' = [report EXCEPT ![r] = new]
<1> DEFINE new == [uid |-> nextUid, version |-> 1, phase |-> ""]
<1>1. new \in Report
  <2>1. \A p \in Phases : [uid |-> nextUid, version |-> 1, phase |-> p] \in Report
    BY DEF Report, Types
  <2>2. "" \in Phases
    BY Zenon DEF Phases
  <2> QED
    BY <2>1, <2>2, Zenon
<1>2. new.uid = nextUid
  BY Zenon
<1>3. report' = [report EXCEPT ![r] = new]
  BY Zenon DEF Operator!Apply
<1> QED
  BY <1>1, <1>2, <1>3, Zenon

(* No step leaves the worker half way: its job is a job, or it rests. *)
LEMMA RestingIsNoJob == Operator!Resting \notin Job
BY DEF Operator!Resting, Job

LEMMA InitOp == Operator!Init => OpInv
<1> SUFFICES ASSUME Operator!Init PROVE OpInv
  OBVIOUS
<1>1. \A r \in Names : report[r] = Operator!Gone /\ seenReport[r] = Operator!Gone
  BY Zenon DEF Operator!Init
<1>2. report \in [Names -> Report] /\ seenReport \in [Names -> Report]
  <2>1. report = [r \in Names |-> Operator!Gone] /\ seenReport = [r \in Names |-> Operator!Gone]
    BY Zenon DEF Operator!Init
  <2> QED
    BY <2>1, GoneIsReport
<1>3. /\ deployment = [r \in Names |-> 0] /\ seenDeployment = [r \in Names |-> 0]
      /\ worker = Operator!Resting /\ nextUid = 1
  BY Zenon DEF Operator!Init
<1>4. Types
  BY <1>2, <1>3 DEF Types
<1>5. \A r \in Names : report[r].uid = 0 /\ seenReport[r].uid = 0
  BY <1>1, GoneIsReport
<1> QED
  BY <1>3, <1>4, <1>5 DEF OpInv, Versions, NotNewer, Ensured, AllOwed

(* The report of a name only changes to one that no copy is of: a user's     *)
(* action on a report.                                                       *)
LEMMA UserStep ==
  ASSUME OpInv, NEW r \in Names, NEW new \in Report, report' = [report EXCEPT ![r] = new],
         \/ new.uid = 0 /\ nextUid' = nextUid
         \/ new.uid = nextUid /\ nextUid' = nextUid + 1
         \/ new.uid = report[r].uid /\ new.version > report[r].version /\ nextUid' = nextUid,
         UNCHANGED <<deployment, seenReport, seenDeployment, queue, worker>>
  PROVE  OpInv'
<1>0. Types /\ Versions /\ Ensured /\ AllOwed
  BY DEF OpInv
<1>1. report' \in [Names -> Report] /\ report'[r] = new /\ nextUid' \in Nat \ {0}
  BY <1>0 DEF Types, Report
<1>2. \A n \in Names : n # r => report'[n] = report[n]
  BY <1>0 DEF Types
<1>3. Types'
  BY <1>0, <1>1 DEF Types
<1>4. ASSUME NEW n \in Names, NEW copy \in Report, NotNewer(copy, n)
      PROVE  NotNewer(copy, n)' /\ (copy.uid # 0 => report'[r] # copy \/ n # r)
  BY <1>0, <1>1, <1>2, <1>4 DEF Types, NotNewer, Report
<1>5. Versions'
  <2>1. ASSUME NEW n \in Names PROVE NotNewer(report[n], n)' /\ NotNewer(seenReport[n], n)'
    <3>1. NotNewer(seenReport[n], n)'
      BY <1>0, <1>4 DEF Types, Versions, NotNewer
    <3>2. NotNewer(report[n], n)'
      BY <1>0, <1>1, <1>2 DEF Types, Versions, NotNewer, Report
    <3> QED
      BY <3>1, <3>2
  <2>2. worker' # Operator!Resting => worker'.copy.uid # 0 /\ NotNewer(worker.copy, worker.name)'
    <3> SUFFICES ASSUME worker # Operator!Resting
                 PROVE  worker.copy.uid # 0 /\ NotNewer(worker.copy, worker.name)'
      OBVIOUS
    <3>1. worker.name \in Names /\ worker.copy \in Report
      BY <1>0 DEF Types, Job
    <3>2. worker.copy.uid # 0 /\ NotNewer(worker.copy, worker.name)
      BY <1>0 DEF Versions
    <3>3. NotNewer(worker.copy, worker.name)'
      BY <1>4, <3>1, <3>2 DEF NotNewer
    <3> QED
      BY <3>2, <3>3
  <2> QED
    BY <2>1, <2>2 DEF Versions
<1>6. Ensured'
  <2> SUFFICES ASSUME worker # Operator!Resting, worker.at = "status", report'[worker.name] = worker.copy
               PROVE  \/ worker.name \in queue \/ deployment[worker.name] = report'[worker.name].uid
                      \/ seenDeployment[worker.name] # 0
    BY DEF Ensured
  <2>1. worker.name \in Names /\ worker.copy \in Report
    BY <1>0 DEF Types, Job
  <2>2. worker.copy.uid # 0 /\ NotNewer(worker.copy, worker.name)
    BY <1>0 DEF Versions
  <2>3. worker.name # r
    BY <1>4, <2>1, <2>2
  <2> QED
    BY <1>0, <1>2, <2>1, <2>3 DEF Ensured
<1>7. AllOwed'
  <2> SUFFICES ASSUME NEW n \in Names, report'[n].uid # 0, ~Operator!Served(n)' PROVE Owed(n)'
    BY DEF AllOwed
  <2>1. CASE n = r
    <3>1. seenReport[n] \in Report /\ NotNewer(seenReport[n], n)
      BY <1>0 DEF Types, Versions
    <3>2. seenReport[n] # report'[n]
      BY <1>1, <1>4, <2>1, <3>1
    <3> QED
      BY <3>2 DEF Owed
  <2>2. CASE n # r
    BY <1>0, <1>2, <2>2 DEF AllOwed, Owed, Operator!Served
  <2> QED
    BY <2>1, <2>2
<1> QED
  BY <1>3, <1>5, <1>6, <1>7 DEF OpInv

(* The reports stay: what the cache, the cluster and the queue do. *)
LEMMA SyncStep ==
  ASSUME OpInv, NEW r \in Names, Operator!SyncReport(r) \/ Operator!SyncDeployment(r) \/ Operator!Requeue(r) \/ Operator!Collect(r)
  PROVE  OpInv'
<1>0. Types /\ Versions /\ Ensured /\ AllOwed
  BY DEF OpInv
<1>1. report' = report /\ worker' = worker /\ nextUid' = nextUid
  BY Zenon DEF Operator!SyncReport, Operator!SyncDeployment, Operator!Requeue, Operator!Collect
<1>2. CASE Operator!SyncReport(r)
  <2>1. /\ seenReport' = [seenReport EXCEPT ![r] = report[r]] /\ queue' = queue \cup {r}
        /\ deployment' = deployment /\ seenDeployment' = seenDeployment
    BY <1>2 DEF Operator!SyncReport
  <2>2. Types'
    BY <1>0, <1>1, <2>1 DEF Types
  <2>3. Versions'
    BY <1>0, <1>1, <2>1 DEF Types, Versions, NotNewer
  <2>4. Ensured'
    BY <1>0, <1>1, <2>1 DEF Ensured
  <2>5. AllOwed'
    BY <1>0, <1>1, <2>1 DEF Types, AllOwed, Owed, Operator!Served
  <2> QED
    BY <2>2, <2>3, <2>4, <2>5 DEF OpInv
<1>3. CASE Operator!SyncDeployment(r)
  <2>1. /\ seenDeployment' = [seenDeployment EXCEPT ![r] = deployment[r]] /\ queue' = queue \cup {r}
        /\ deployment' = deployment /\ seenReport' = seenReport
    BY <1>3 DEF Operator!SyncDeployment
  <2>2. Types' /\ Versions'
    BY <1>0, <1>1, <2>1 DEF Types, Versions, NotNewer
  <2>3. Ensured' /\ AllOwed'
    BY <1>0, <1>1, <2>1 DEF Types, Ensured, AllOwed, Owed, Operator!Served
  <2> QED
    BY <2>2, <2>3 DEF OpInv
<1>4. CASE Operator!Requeue(r)
  <2>1. queue' = queue \cup {r} /\ UNCHANGED <<deployment, seenReport, seenDeployment>>
    BY <1>4 DEF Operator!Requeue
  <2>2. Types' /\ Versions'
    BY <1>0, <1>1, <2>1 DEF Types, Versions, NotNewer
  <2>3. Ensured' /\ AllOwed'
    BY <1>0, <1>1, <2>1 DEF Ensured, AllOwed, Owed, Operator!Served
  <2> QED
    BY <2>2, <2>3 DEF OpInv
<1>5. CASE Operator!Collect(r)
  <2>1. /\ deployment' = [deployment EXCEPT ![r] = 0] /\ deployment[r] # report[r].uid
        /\ UNCHANGED <<queue, seenReport, seenDeployment>>
    BY <1>5 DEF Operator!Collect
  <2>2. Types' /\ Versions'
    BY <1>0, <1>1, <2>1 DEF Types, Versions, NotNewer
  <2>3. Ensured'
    BY <1>0, <1>1, <2>1 DEF Types, Ensured
  <2>4. AllOwed'
    BY <1>0, <1>1, <2>1 DEF Types, AllOwed, Owed, Operator!Served
  <2> QED
    BY <2>2, <2>3, <2>4 DEF OpInv
<1> QED
  BY <1>2, <1>3, <1>4, <1>5

(* The name goes back to the queue and the worker rests. *)
LEMMA RetryStep ==
  ASSUME OpInv, NEW r \in Names, worker # Operator!Resting, worker.name = r, Operator!Retry(r),
         UNCHANGED <<report, deployment, seenReport, seenDeployment, nextUid>>
  PROVE  OpInv'
<1>1. worker' = Operator!Resting /\ queue' = queue \cup {r}
  BY DEF Operator!Retry
<1>2. Types' /\ Versions' /\ Ensured'
  BY <1>1 DEF OpInv, Types, Versions, NotNewer, Ensured
<1>3. AllOwed'
  BY <1>1 DEF OpInv, AllOwed, Owed, Operator!Served
<1> QED
  BY <1>2, <1>3 DEF OpInv

(* The worker takes up a name, or finds it gone. *)
LEMMA FetchStep ==
  ASSUME OpInv, NEW r \in Names, Operator!Fetch(r) PROVE OpInv'
<1>0. Types /\ Versions /\ AllOwed
  BY DEF OpInv
<1> DEFINE job == [at |-> "ensure", name |-> r, copy |-> seenReport[r]]
<1>1. /\ worker = Operator!Resting /\ queue' = queue \ {r}
      /\ UNCHANGED <<report, deployment, seenReport, seenDeployment, nextUid>>
  BY DEF Operator!Fetch
<1>2. \/ seenReport[r].uid = 0 /\ worker' = Operator!Resting
      \/ seenReport[r].uid # 0 /\ worker' = job
  BY DEF Operator!Fetch
<1>3. job \in Job /\ job # Operator!Resting
  BY <1>0 DEF Types, Job, Operator!Resting
<1>4. Types'
  BY <1>0, <1>1, <1>2, <1>3 DEF Types
<1>5. Versions' /\ Ensured'
  BY <1>0, <1>1, <1>2 DEF Versions, NotNewer, Ensured
<1>6. AllOwed'
  <2> SUFFICES ASSUME NEW n \in Names, report[n].uid # 0, ~Operator!Served(n)' PROVE Owed(n)'
    BY <1>1 DEF AllOwed
  <2>1. CASE n = r
    BY <1>1, <1>2, <1>3, <2>1 DEF Owed
  <2>2. CASE n # r
    BY <1>0, <1>1, <2>2 DEF AllOwed, Owed, Operator!Served
  <2> QED
    BY <2>1, <2>2
<1> QED
  BY <1>4, <1>5, <1>6 DEF OpInv

(* Looking for the deployment: it is found, made, or there after all. *)
LEMMA EnsureStep ==
  ASSUME OpInv, Operator!EnsureFound \/ Operator!EnsureCreates PROVE OpInv'
<1>0. Types /\ Versions /\ AllOwed
  BY DEF OpInv
<1> DEFINE r == worker.name
<1>1. worker # Operator!Resting /\ worker \in Job /\ r \in Names /\ worker.copy \in Report
  BY <1>0 DEF Types, Operator!EnsureFound, Operator!EnsureCreates, Operator!Resting, Job
<1>2. CASE Operator!EnsureCreates /\ deployment[r] # 0
  <2>1. Operator!Retry(r) /\ UNCHANGED <<report, deployment, seenReport, seenDeployment, nextUid>>
    BY <1>2 DEF Operator!EnsureCreates
  <2> QED
    BY <1>1, <2>1, RetryStep
<1>3. CASE Operator!EnsureFound \/ (Operator!EnsureCreates /\ deployment[r] = 0)
  <2>1. /\ worker' = [worker EXCEPT !.at = "status"]
        /\ UNCHANGED <<report, seenReport, seenDeployment, queue, nextUid>>
    BY <1>3 DEF Operator!EnsureFound, Operator!EnsureCreates, Operator!ToStatus
  <2>2. worker' \in Job /\ worker' # Operator!Resting /\ worker'.name = r /\ worker'.copy = worker.copy
    BY <1>1, <2>1 DEF Job, Operator!Resting
  <2>3. \/ seenDeployment[r] # 0 /\ deployment' = deployment
        \/ deployment[r] = 0 /\ deployment' = [deployment EXCEPT ![r] = worker.copy.uid]
    BY <1>3 DEF Operator!EnsureFound, Operator!EnsureCreates
  <2>4. Types'
    BY <1>0, <1>1, <2>1, <2>2, <2>3 DEF Types, Report
  <2>5. Versions'
    BY <1>0, <1>1, <2>1, <2>2 DEF Versions, NotNewer
  <2>6. Ensured'
    BY <1>0, <1>1, <2>1, <2>2, <2>3 DEF Types, Ensured
  <2>7. AllOwed'
    BY <1>0, <1>1, <2>1, <2>2, <2>3 DEF Types, AllOwed, Owed, Operator!Served
  <2> QED
    BY <2>4, <2>5, <2>6, <2>7 DEF OpInv
<1> QED
  BY <1>2, <1>3

(* The status is written, or refused because the report has changed. *)
LEMMA StatusStep ==
  ASSUME OpInv, Operator!UpdateStatus PROVE OpInv'
<1>0. Types /\ Versions /\ Ensured /\ AllOwed
  BY DEF OpInv
<1> DEFINE r == worker.name
<1>1. worker # Operator!Resting /\ worker \in Job /\ r \in Names /\ worker.at = "status"
  BY <1>0 DEF Types, Operator!UpdateStatus, Operator!Resting, Job
<1>2. CASE report[r] # worker.copy
  <2>1. Operator!Retry(r) /\ UNCHANGED <<report, deployment, seenReport, seenDeployment, nextUid>>
    BY <1>2 DEF Operator!UpdateStatus
  <2> QED
    BY <1>1, <2>1, RetryStep
<1>3. CASE report[r] = worker.copy
  <2> DEFINE new == Operator!Running(report[r])
  <2>1. /\ report' = [report EXCEPT ![r] = new] /\ worker' = Operator!Resting
        /\ UNCHANGED <<deployment, seenReport, seenDeployment, queue, nextUid>>
    BY <1>3 DEF Operator!UpdateStatus
  <2>2. report[r] \in Report /\ "Running" \in Phases
    <3>1. "Running" \in Phases
      BY Zenon DEF Phases
    <3> QED
      BY <1>0, <1>1, <3>1 DEF Types
  <2>3. new \in Report /\ new.uid = report[r].uid /\ new.version >= report[r].version
    <3>1. CASE report[r].phase = "Running"
      BY <2>2, <3>1 DEF Report, Operator!Running
    <3>2. CASE report[r].phase # "Running"
      <4>1. new = [report[r] EXCEPT !.phase = "Running", !.version = report[r].version + 1]
        BY <3>2, Zenon DEF Operator!Running
      <4> HIDE DEF new
      <4>2. new = [uid |-> report[r].uid, version |-> report[r].version + 1, phase |-> "Running"]
        BY <2>2, <4>1 DEF Report
      <4> QED
        BY <2>2, <4>2 DEF Report
    <3> QED
      BY <3>1, <3>2
  <2>4. report'[r] = new /\ \A n \in Names : n # r => report'[n] = report[n]
    BY <1>0, <1>1, <2>1 DEF Types
  <2>5. Types'
    BY <1>0, <1>1, <2>1, <2>3 DEF Types
  <2>6. Versions'
    <3> SUFFICES ASSUME NEW n \in Names
                 PROVE  NotNewer(report[n], n)' /\ NotNewer(seenReport[n], n)'
      BY <2>1 DEF Versions
    <3>1. report[n] \in Report /\ seenReport[n] \in Report /\ NotNewer(report[n], n) /\ NotNewer(seenReport[n], n)
      BY <1>0 DEF Types, Versions
    <3>2. CASE n = r
      <4> HIDE DEF new
      <4> QED
        BY <2>1, <2>2, <2>3, <2>4, <3>1, <3>2 DEF NotNewer, Report
    <3>3. CASE n # r
      BY <2>1, <2>4, <3>1, <3>3 DEF NotNewer
    <3> QED
      BY <3>2, <3>3
  <2>7. Ensured'
    BY <2>1 DEF Ensured
  <2>8. AllOwed'
    <3> SUFFICES ASSUME NEW n \in Names, report'[n].uid # 0, ~Operator!Served(n)' PROVE Owed(n)'
      BY DEF AllOwed
    <3>1. CASE n = r
      <4>1. new.phase = "Running"
        BY <2>2 DEF Report, Operator!Running
      <4> HIDE DEF new
      <4>2. deployment'[n] # report'[n].uid
        BY <2>4, <3>1, <4>1 DEF Operator!Served
      <4>3. r \in queue \/ seenDeployment[r] # 0
        BY <1>0, <1>1, <1>3, <2>1, <2>3, <2>4, <3>1, <4>2 DEF Ensured
      <4> QED
        BY <2>1, <3>1, <4>2, <4>3 DEF Owed
    <3>2. CASE n # r
      BY <1>0, <2>1, <2>4, <3>2 DEF AllOwed, Owed, Operator!Served
    <3> QED
      BY <3>1, <3>2
  <2> QED
    BY <2>5, <2>6, <2>7, <2>8 DEF OpInv
<1> QED
  BY <1>2, <1>3

(* Every step keeps the invariant. *)
LEMMA OpInvStep == OpInv /\ [Operator!Next]_operatorVars => OpInv'
<1> SUFFICES ASSUME OpInv, [Operator!Next]_operatorVars PROVE OpInv'
  OBVIOUS
<1>1. ASSUME NEW r \in Names, Operator!Apply(r) PROVE OpInv'
  <2>1. PICK new \in Report : new.uid = nextUid /\ report' = [report EXCEPT ![r] = new]
    BY <1>1, ApplyMakes DEF OpInv
  <2>2. nextUid' = nextUid + 1 /\ UNCHANGED <<deployment, seenReport, seenDeployment, queue, worker>>
    BY <1>1, Zenon DEF Operator!Apply
  <2> QED
    BY <2>1, <2>2, UserStep
<1>2. ASSUME NEW r \in Names, Operator!Edit(r) PROVE OpInv'
  <2> DEFINE new == [report[r] EXCEPT !.version = report[r].version + 1]
  <2>1. report[r] \in Report
    BY DEF OpInv, Types
  <2>2. new \in Report /\ new.uid = report[r].uid /\ new.version > report[r].version
    BY <2>1 DEF Report
  <2>3. report' = [report EXCEPT ![r] = new] /\ nextUid' = nextUid
        /\ UNCHANGED <<deployment, seenReport, seenDeployment, queue, worker>>
    BY <1>2 DEF Operator!Edit
  <2> HIDE DEF new
  <2> QED
    BY <2>2, <2>3, UserStep
<1>3. ASSUME NEW r \in Names, Operator!Delete(r) PROVE OpInv'
  <2>1. report' = [report EXCEPT ![r] = Operator!Gone] /\ nextUid' = nextUid
        /\ UNCHANGED <<deployment, seenReport, seenDeployment, queue, worker>>
    BY <1>3, Zenon DEF Operator!Delete
  <2> QED
    BY <2>1, GoneIsReport, UserStep
<1>4. ASSUME NEW r \in Names, Operator!Requeue(r) PROVE OpInv'
  BY <1>4, SyncStep
<1>5. CASE Operator!Reconcile
  BY <1>5, FetchStep, EnsureStep, StatusStep DEF Operator!Reconcile
<1>6. CASE Operator!ServerFails
  <2>1. worker # Operator!Resting /\ worker.name \in Names
    BY <1>6 DEF OpInv, Types, Operator!ServerFails, Operator!Resting, Job
  <2>2. /\ Operator!Retry(worker.name)
        /\ UNCHANGED <<report, deployment, seenReport, seenDeployment, nextUid>>
    BY <1>6 DEF Operator!ServerFails
  <2> QED
    BY <2>1, <2>2, RetryStep
<1>7. CASE Operator!Cluster
  BY <1>7, SyncStep DEF Operator!Cluster
<1>8. CASE UNCHANGED operatorVars
  BY <1>8 DEF operatorVars, OpInv, Types, Versions, NotNewer, Ensured, AllOwed, Owed, Operator!Served
<1> QED
  BY <1>1, <1>2, <1>3, <1>4, <1>5, <1>6, <1>7, <1>8, Zenon DEF Operator!Next

-----------------------------------------------------------------------------
(* What a process of the OSS server has behind it is in the schema, which    *)
(* nothing is ever removed from.                                             *)
Behind(s) ==
  program[s] = "oss" =>
    /\ proc[s].at = "migrating" =>
         /\ proc[s].next \in Nat \ {0}
         /\ \A i \in DOMAIN Server!OssStatements : i < proc[s].next => Server!OssStatements[i].makes \in schema
    /\ proc[s].at = "serving" /\ proc[s].db => Server!Complete

(* A process is down, runs its migrations or serves. *)
State == [at : {"down", "migrating", "serving"}, db : BOOLEAN, next : Nat]
StartInv == proc \in [Servers -> State] /\ \A s \in Servers : Behind(s)

(* The OSS statements are numbered from one on. *)
LEMMA OssNumbered == DOMAIN Server!OssStatements = 1 .. Len(Server!OssStatements) /\ Len(Server!OssStatements) \in Nat
BY DEF Server!OssStatements, Server!OssTables, Server!OssIndexes, Server!Table, Server!Index, Server!Ext

(* At the start no process has anything behind it. *)
LEMMA InitStart == Server!Init => StartInv
BY DEF Server!Init, StartInv, Behind, State, Server!Down

(* What is behind a process stays so while it stays and the schema grows. *)
LEMMA BehindStays ==
  ASSUME NEW s \in Servers, Behind(s), program' = program, proc'[s] = proc[s],
         schema \subseteq schema'
  PROVE  Behind(s)'
BY DEF Behind, Server!Complete

(* A process that goes down, or that serves without a database, has nothing  *)
(* behind it that must be there.                                             *)
LEMMA StepOfOne ==
  ASSUME StartInv, NEW s \in Servers, NEW state \in State, Server!Become(s, state),
         program' = program, schema \subseteq schema',
         program[s] = "oss" =>
           \/ state.at = "down"
           \/ state.at = "serving" /\ (state.db => Server!Complete')
           \/ /\ state.at = "migrating" /\ state.next # 0
              /\ \A i \in DOMAIN Server!OssStatements :
                   i < state.next => Server!OssStatements[i].makes \in schema'
  PROVE  StartInv'
<1>1. proc' \in [Servers -> State] /\ proc'[s] = state
  BY DEF StartInv, Server!Become
<1>2. Behind(s)'
  BY <1>1 DEF Behind, State
<1>3. ASSUME NEW r \in Servers, r # s PROVE Behind(r)'
  BY <1>3, BehindStays DEF StartInv, Server!Become
<1> QED
  BY <1>1, <1>2, <1>3 DEF StartInv

(* Every step keeps the invariant. *)
LEMMA StartStep == StartInv /\ [Server!Next]_serverVars => StartInv'
<1> SUFFICES ASSUME StartInv, [Server!Next]_serverVars PROVE StartInv'
  OBVIOUS
<1> DEFINE served == [at |-> "serving", db |-> TRUE, next |-> 0]
<1>0. Server!Down \in State /\ Server!Down.at = "down" /\ served \in State
  BY DEF Server!Down, State
<1>1. ASSUME NEW s \in Servers, Server!Start(s) PROVE StartInv'
  <2>1. PICK state \in State :
          /\ Server!Become(s, state)
          /\ \/ state.at = "migrating" /\ state.next = 1
             \/ state.at = "serving" /\ ~state.db
    <3>1. /\ [at |-> "migrating", db |-> TRUE, next |-> 1] \in State
          /\ [at |-> "serving", db |-> FALSE, next |-> 0] \in State
      BY DEF State
    <3> QED
      BY <1>1, <3>1 DEF Server!Start
  <2>2. program' = program /\ schema \subseteq schema'
    BY <1>1 DEF Server!Start
  <2>3. \A i \in DOMAIN Server!OssStatements : ~(i < 1)
    BY OssNumbered
  <2> QED
    BY <2>1, <2>2, <2>3, StepOfOne
<1>2. ASSUME NEW s \in Servers, Server!Statement(s) PROVE StartInv'
  <2> DEFINE on == [proc[s] EXCEPT !.next = proc[s].next + 1]
             state == IF proc[s].next = Len(Server!Statements(s)) THEN served ELSE on
  <2>1. Server!Become(s, state) /\ program' = program /\ schema' = schema \cup {Server!Current(s).makes}
    BY <1>2 DEF Server!Statement
  <2>2. proc[s] \in State /\ proc[s].at = "migrating" /\ Behind(s)
    BY <1>2 DEF StartInv, Server!Statement
  <2>3. on \in State /\ on.at = "migrating" /\ on.next = proc[s].next + 1
    BY <2>2 DEF State
  <2>4. state \in State
    BY <1>0, <2>3
  <2>5. ASSUME program[s] = "oss"
        PROVE  \A i \in DOMAIN Server!OssStatements :
                 i <= proc[s].next => Server!OssStatements[i].makes \in schema'
    <3>1. Server!Current(s) = Server!OssStatements[proc[s].next]
      BY <2>5 DEF Server!Current, Server!Statements
    <3>2. /\ proc[s].next \in Nat
          /\ \A i \in DOMAIN Server!OssStatements : i < proc[s].next => Server!OssStatements[i].makes \in schema
      BY <2>2, <2>5 DEF Behind
    <3> HIDE DEF state
    <3> QED
      BY <2>1, <3>1, <3>2, OssNumbered
  <2>6. CASE proc[s].next = Len(Server!Statements(s))
    <3>1. program[s] = "oss" => Server!Complete'
      <4> SUFFICES ASSUME program[s] = "oss" PROVE Server!Complete'
        OBVIOUS
      <4>1. Server!Statements(s) = Server!OssStatements
        BY DEF Server!Statements
      <4>2. \A i \in DOMAIN Server!OssStatements : Server!OssStatements[i].makes \in schema'
        BY <2>5, <2>6, <4>1, OssNumbered
      <4> QED
        BY <4>2 DEF Server!Complete
    <3> QED
      BY <1>0, <2>1, <2>6, <3>1, StepOfOne
  <2>7. CASE proc[s].next # Len(Server!Statements(s))
    <3>1. state = on
      BY <2>7
    <3>2. program[s] = "oss" =>
            /\ on.next # 0
            /\ \A i \in DOMAIN Server!OssStatements : i < on.next => Server!OssStatements[i].makes \in schema'
      BY <2>2, <2>3, <2>5, OssNumbered DEF State
    <3> HIDE DEF on, state
    <3> QED
      BY <2>1, <2>3, <3>1, <3>2, StepOfOne
  <2> QED
    BY <2>6, <2>7
<1>3. ASSUME NEW s \in Servers, Server!Fail(s), program' = program, schema \subseteq schema'
      PROVE  StartInv'
  <2>1. \/ Server!Become(s, Server!Down)
        \/ program[s] # "oss" /\ Server!Become(s, served)
    BY <1>3 DEF Server!Fail, Server!GivesUp
  <2> QED
    BY <1>0, <1>3, <2>1, StepOfOne
<1>4. ASSUME NEW s \in Servers, Server!Refused(s) PROVE StartInv'
  BY <1>3, <1>4 DEF Server!Refused
<1>5. ASSUME NEW s \in Servers, NEW other \in Servers, Server!Race(s, other) PROVE StartInv'
  BY <1>3, <1>5 DEF Server!Race
<1>6. ASSUME NEW s \in Servers, Server!Crash(s) PROVE StartInv'
  BY <1>0, <1>6, StepOfOne DEF Server!Crash
<1>7. CASE Server!Outage
  BY <1>7 DEF Server!Outage, StartInv, Behind, Server!Complete
<1>8. CASE UNCHANGED serverVars
  BY <1>8 DEF serverVars, StartInv, Behind, Server!Complete
<1> QED
  BY <1>1, <1>2, <1>4, <1>5, <1>6, <1>7, <1>8, Zenon DEF Server!Next, Server!Work

-----------------------------------------------------------------------------
(* A step of Convergence is one of the component its world names, or none. *)
LEMMA OperatorSteps ==
  [Next]_convergenceVars /\ world = "operator" => world' = world /\ [Operator!Next]_operatorVars
BY Zenon DEF Next, convergenceVars
LEMMA ServerSteps ==
  [Next]_convergenceVars /\ world = "startup" => world' = world /\ [Server!Next]_serverVars
BY Zenon DEF Next, convergenceVars
LEMMA WorldStays == [Next]_convergenceVars => world' = world
BY DEF Next, convergenceVars

OperatorInv == world = "operator" => OpInv
ServerInv == world = "startup" => StartInv

(* The invariant in every reachable state: types, copies that are no newer   *)
(* than what they are of, and what is owed to every report not served.       *)
THEOREM OpInvariance == Spec => []OperatorInv
<1>1. Init => OperatorInv
  BY InitOp, Zenon DEF Init, OperatorInv
<1>2. OperatorInv /\ [Next]_convergenceVars => OperatorInv'
  BY WorldStays, OperatorSteps, OpInvStep, Zenon DEF OperatorInv
<1> QED
  BY <1>1, <1>2, PTL DEF Spec

(* However the cache lags, whatever conflicts, fails or is collected, a      *)
(* report that is not served is still known to somebody: of each drop of a   *)
(* name by the worker there is a reason to come back.                        *)
THEOREM NeverForgotten == Spec => []NothingForgotten
<1>1. OpInv => Operator!NothingForgotten
  <2> SUFFICES ASSUME OpInv, NEW r \in Names, report[r].uid # 0, ~Operator!Served(r)
               PROVE  \/ r \in queue \/ (worker # Operator!Resting /\ worker.name = r)
                      \/ seenReport[r] # report[r] \/ seenDeployment[r] # deployment[r]
                      \/ deployment[r] \notin {0, report[r].uid}
    BY DEF Operator!NothingForgotten
  <2>1. Owed(r)
    BY DEF OpInv, AllOwed
  <2> QED
    BY <2>1 DEF Owed
<1>2. OperatorInv => NothingForgotten
  BY <1>1, Zenon DEF OperatorInv, NothingForgotten
<1> QED
  BY <1>2, OpInvariance, PTL

(* What every process has behind it, in every reachable state. *)
THEOREM StartInvariance == Spec => []ServerInv
<1>1. Init => ServerInv
  BY InitStart, Zenon DEF Init, ServerInv
<1>2. ServerInv /\ [Next]_convergenceVars => ServerInv'
  BY WorldStays, ServerSteps, StartStep, Zenon DEF ServerInv
<1> QED
  BY <1>1, <1>2, PTL DEF Spec

(* Whatever crashes, fails, races for a statement or loses its database, an  *)
(* OSS server that serves with a database has every table and index.         *)
THEOREM ServesMigrated == Spec => []OssServesMigrated
<1>1. StartInv => Server!OssServesMigrated
  BY DEF StartInv, Behind, Server!OssServesMigrated
<1>2. ServerInv => OssServesMigrated
  BY <1>1, Zenon DEF ServerInv, OssServesMigrated
<1> QED
  BY <1>2, StartInvariance, PTL
=============================================================================
