---------------------------- MODULE CbomOperator ----------------------------
(***************************************************************************)
(* The Kubernetes operator: one worker that reconciles CbomReports.  It    *)
(* reads reports and deployments from a cache that lags behind the API     *)
(* server, creates the scanner deployment and updates the status, which    *)
(* the server refuses if the report has changed since.  Deployments of a   *)
(* report that is gone are collected.  Identities (uid) tell a report from *)
(* an earlier one of the same name.                                        *)
(***************************************************************************)
EXTENDS Naturals

CONSTANTS Names, MaxUid, MaxVersion, MaxFaults   \* bounds

VARIABLES
  report,      \* report[r]: uid (0: none), version and phase at the API server
  deployment,  \* deployment[r]: the uid of the report it was made for, 0: none
  seenReport, seenDeployment,   \* the same in the operator's cache
  queue,       \* names waiting to be reconciled
  timer,       \* names to be reconciled again later
  worker,      \* what the worker is doing
  nextUid, faults

opVars == <<report, deployment, seenReport, seenDeployment, queue, timer, worker,
            nextUid, faults>>

Gone == [uid |-> 0, version |-> 0, phase |-> ""]
Resting == [at |-> "idle"]

Init ==
  /\ report = [r \in Names |-> Gone] /\ deployment = [r \in Names |-> 0]
  /\ seenReport = report /\ seenDeployment = deployment
  /\ queue = {} /\ timer = {} /\ worker = Resting
  /\ nextUid = 1 /\ faults = 0

-----------------------------------------------------------------------------
\* Users and the cluster.
Apply(r) ==
  /\ report[r].uid = 0 /\ nextUid <= MaxUid
  /\ report' = [report EXCEPT ![r] = [uid |-> nextUid, version |-> 1, phase |-> ""]]
  /\ nextUid' = nextUid + 1
  /\ UNCHANGED <<deployment, seenReport, seenDeployment, queue, timer, worker, faults>>
Edit(r) ==
  /\ report[r].uid # 0 /\ report[r].version < MaxVersion
  /\ report' = [report EXCEPT ![r].version = @ + 1]
  /\ UNCHANGED <<deployment, seenReport, seenDeployment, queue, timer, worker, nextUid, faults>>
Delete(r) ==
  /\ report[r].uid # 0
  /\ report' = [report EXCEPT ![r] = Gone]
  /\ UNCHANGED <<deployment, seenReport, seenDeployment, queue, timer, worker, nextUid, faults>>
Collect(r) ==
  /\ deployment[r] # 0 /\ deployment[r] # report[r].uid
  /\ deployment' = [deployment EXCEPT ![r] = 0]
  /\ UNCHANGED <<report, seenReport, seenDeployment, queue, timer, worker, nextUid, faults>>

\* The cache catches up, and the change wakes the reconciler: of reports
\* because it is For them, of deployments because it Owns them.
SyncReport(r) ==
  /\ seenReport[r] # report[r]
  /\ seenReport' = [seenReport EXCEPT ![r] = report[r]]
  /\ queue' = queue \cup {r}
  /\ UNCHANGED <<report, deployment, seenDeployment, timer, worker, nextUid, faults>>
SyncDeployment(r) ==
  /\ seenDeployment[r] # deployment[r]
  /\ seenDeployment' = [seenDeployment EXCEPT ![r] = deployment[r]]
  /\ queue' = queue \cup {r}
  /\ UNCHANGED <<report, deployment, seenReport, timer, worker, nextUid, faults>>

-----------------------------------------------------------------------------
\* Reconcile.  A name that is being worked on waits in the queue.
Fetch(r) ==
  /\ worker = Resting /\ r \in queue
  /\ queue' = queue \ {r}
  /\ worker' = IF seenReport[r].uid = 0 THEN Resting
               ELSE [at |-> "ensure", name |-> r, copy |-> seenReport[r]]
  /\ UNCHANGED <<report, deployment, seenReport, seenDeployment, timer, nextUid, faults>>

Retry(r) == queue' = queue \cup {r} /\ worker' = Resting
ToStatus == worker' = [worker EXCEPT !.at = "status"]

\* The deployment is in the cache, whoever's it is.
EnsureFound ==
  /\ worker.at = "ensure" /\ seenDeployment[worker.name] # 0
  /\ ToStatus
  /\ UNCHANGED <<report, deployment, seenReport, seenDeployment, queue, timer, nextUid, faults>>
\* Any error of the lookup leads to Create, which fails if the cache was late.
EnsureCreates ==
  /\ worker.at = "ensure"
  /\ LET r == worker.name
     IN  /\ seenDeployment[r] = 0
         /\ IF deployment[r] = 0
            THEN /\ deployment' = [deployment EXCEPT ![r] = worker.copy.uid]
                 /\ ToStatus /\ UNCHANGED queue
            ELSE Retry(r) /\ UNCHANGED deployment
  /\ UNCHANGED <<report, seenReport, seenDeployment, timer, nextUid, faults>>

\* Fault: an error ends the reconcile for good.
ServerFailsDropped ==
  /\ worker.at \in {"ensure", "status"} /\ faults < MaxFaults
  /\ faults' = faults + 1
  /\ worker' = Resting
  /\ UNCHANGED <<report, deployment, seenReport, seenDeployment, queue, timer, nextUid>>
\* The API server does not answer: the error is returned and the name retried.
ServerFails ==
  /\ worker.at \in {"ensure", "status"} /\ faults < MaxFaults
  /\ faults' = faults + 1
  /\ Retry(worker.name)
  /\ UNCHANGED <<report, deployment, seenReport, seenDeployment, timer, nextUid>>

\* Writing a phase the report has already changes nothing.
Running(x) ==
  IF x.phase = "Running" THEN x ELSE [x EXCEPT !.phase = "Running", !.version = x.version + 1]
\* Only the status is written: the scan time set in the spec is lost.  A report
\* that has changed or gone since it was cached is a conflict, and retried.
UpdateStatus ==
  /\ worker.at = "status"
  /\ LET r == worker.name
     IN  IF report[r] = worker.copy
         THEN /\ report' = [report EXCEPT ![r] = Running(@)]
              /\ timer' = timer \cup {r} /\ worker' = Resting /\ UNCHANGED queue
         ELSE Retry(r) /\ UNCHANGED <<report, timer>>
  /\ UNCHANGED <<deployment, seenReport, seenDeployment, nextUid, faults>>

\* RequeueAfter: half an hour later.
Requeue(r) ==
  /\ r \in timer /\ timer' = timer \ {r}
  /\ queue' = queue \cup {r}
  /\ UNCHANGED <<report, deployment, seenReport, seenDeployment, worker, nextUid, faults>>

Reconcile == (\E r \in Names : Fetch(r)) \/ EnsureFound \/ EnsureCreates \/ UpdateStatus
Cluster == \E r \in Names : Collect(r) \/ SyncReport(r) \/ SyncDeployment(r)
Next ==
  \/ \E r \in Names : Apply(r) \/ Edit(r) \/ Delete(r) \/ Requeue(r)
  \/ Reconcile \/ ServerFails \/ Cluster

\* Fairness: the worker works, the cache catches up and garbage is collected.
\* Nothing is owed by users, nor by the half-hour timer.
OpFairness(guard) ==
  /\ WF_opVars(guard /\ Reconcile)
  /\ \A r \in Names : /\ WF_opVars(guard /\ SyncReport(r)) /\ WF_opVars(guard /\ SyncDeployment(r))
                      /\ WF_opVars(guard /\ Collect(r))
                      /\ WF_opVars(guard /\ Fetch(r))
Spec == Init /\ [][Next]_opVars /\ OpFairness(TRUE)

(* A report that is applied and then left alone gets its own deployment and  *)
(* the phase Running, and keeps them, although the cache may have shown the  *)
(* deployment of an earlier report of the name, which is then collected, and *)
(* although creations and updates were refused or failed meanwhile.          *)
Served(r) == report[r].phase = "Running" /\ deployment[r] = report[r].uid
ReportsGetServed == \A r \in Names : <>[](report[r].uid # 0) => <>[]Served(r)

(* A running report without a deployment of its own is never forgotten:      *)
(* something is still to happen to it that brings it to the worker.          *)
NothingForgotten ==
  \A r \in Names :
    report[r].uid # 0 /\ ~Served(r) =>
      \/ r \in queue \/ (worker # Resting /\ worker.name = r)
      \/ seenReport[r] # report[r] \/ seenDeployment[r] # deployment[r]
      \/ deployment[r] \notin {0, report[r].uid}
=============================================================================
