----------------------------- MODULE Convergence -----------------------------
(***************************************************************************)
(* The two components that must get somewhere whatever fails on the way:   *)
(* the Kubernetes operator, and servers that migrate one database.  They   *)
(* share nothing; as in Services, `world` names the one a behaviour is     *)
(* about, and the variables of the other stay None.                        *)
(***************************************************************************)
EXTENDS Naturals, Sequences

CONSTANTS
  Worlds, None,
  Names, MaxUid, MaxVersion, MaxFaults,             \* CbomOperator
  Servers, Combinations, MaxCrashes, MaxOutages     \* Startup

VARIABLES
  world,
  report, deployment, seenReport, seenDeployment, queue, timer, worker, nextUid, faults,
  program, permitted, online, schema, proc, crashes, outages

operatorVars == <<report, deployment, seenReport, seenDeployment, queue, timer, worker,
                  nextUid, faults>>
serverVars == <<program, permitted, online, schema, proc, crashes, outages>>
convergenceVars == <<world, operatorVars, serverVars>>

Operator == INSTANCE CbomOperator
Server == INSTANCE Startup

NoOperator ==
  /\ report = None /\ deployment = None /\ seenReport = None /\ seenDeployment = None
  /\ queue = None /\ timer = None /\ worker = None /\ nextUid = None /\ faults = None
NoServers ==
  /\ program = None /\ permitted = None /\ online = None /\ schema = None /\ proc = None
  /\ crashes = None /\ outages = None

Init ==
  /\ world \in Worlds
  /\ IF world = "operator" THEN Operator!Init ELSE NoOperator
  /\ IF world = "startup" THEN Server!Init ELSE NoServers
Next ==
  /\ UNCHANGED world
  /\ \/ world = "operator" /\ Operator!Next /\ UNCHANGED serverVars
     \/ world = "startup" /\ Server!Next /\ UNCHANGED operatorVars

\* The fairness of the two modules, each in its own behaviours.
OperatorFairness ==
  /\ WF_operatorVars(world = "operator" /\ Operator!Reconcile)
  /\ \A r \in Names : /\ WF_operatorVars(world = "operator" /\ Operator!SyncReport(r))
                      /\ WF_operatorVars(world = "operator" /\ Operator!SyncDeployment(r))
                      /\ WF_operatorVars(world = "operator" /\ Operator!Collect(r))
                      /\ WF_operatorVars(world = "operator" /\ Operator!Fetch(r))
ServerFairness ==
  /\ \A s \in Servers : WF_serverVars(world = "startup" /\ Server!ServerWork(s))
  /\ WF_serverVars(world = "startup" /\ ~online /\ Server!Outage)
Spec == Init /\ [][Next]_convergenceVars /\ OperatorFairness /\ ServerFairness

-----------------------------------------------------------------------------
(* What the API server holds and the operator has not dealt with is still   *)
(* known to a queue, a timer or the worker (cbomreport_controller.go).      *)
NothingForgotten == world = "operator" => Operator!NothingForgotten
(* A report that stays is in the end running with its own scanner.          *)
ReportsGetServed ==
  \A r \in Names :
    <>[](world = "operator" /\ report[r].uid # 0) => <>[](world = "operator" => Operator!Served(r))
(* An open-source server that serves has a database whose tables are there  *)
(* (database.go, server.go).                                                *)
OssServesMigrated == world = "startup" => Server!OssServesMigrated
(* Every open-source server serves in the end, whatever else starts.        *)
OssServersSettle ==
  \A s \in Servers :
    <>[](world = "startup" => (program[s] = "oss" /\ permitted => Server!Settled(s)))
=============================================================================
