------------------------- MODULE ComplianceRecords -------------------------
(***************************************************************************)
(* The enterprise compliance API: frameworks of a tenant, the controls     *)
(* others write about them, the views of both, and the two integrations.   *)
(* Risks, reports and scans are answered and not stored.                   *)
(***************************************************************************)
EXTENDS Integers, Sequences, FiniteSets

CONSTANTS
  Frameworks, NoFramework,
  Kinds,         \* the frameworks clients ask for, unknown ones among them
  Scores,        \* the scores clients send
  MaxControls    \* bound

VARIABLES
  compUp,      \* the enterprise database: "absent", "up" or "down"
  frameworks,  \* frameworks[f]: NoFramework or its row
  controls,    \* controls[f]: the statuses of its rows of compliance_controls
  connected    \* the integrations a client was told are connected

compVars == <<compUp, frameworks, controls, connected>>

KnownKinds ==
  {"iso27001", "dora", "gdpr", "eu_ai_act", "soc2", "nist", "pqc", "cis", "hipaa", "pci_dss"}
Null == -1

\* How many default controls a framework starts with; those without a table have none.
DefaultControls(kind) ==
  CASE kind = "iso27001" -> 14 [] kind = "gdpr" -> 10 [] kind = "soc2" -> 9 [] kind = "eu_ai_act" -> 7
    [] kind \in {"nist", "dora", "pqc"} -> 5 [] OTHER -> 0

Init ==
  /\ compUp \in {"absent", "up"}
  /\ frameworks = [f \in Frameworks |-> NoFramework]
  /\ controls = [f \in Frameworks |-> <<>>]
  /\ connected = {}

Present == {f \in Frameworks : frameworks[f] # NoFramework}

\* Refused (500) without a database, for a kind that is not of the enumeration
\* and for one the tenant has already.
CreateFramework(f, kind) ==
  /\ compUp = "up" /\ f \notin Present /\ kind \in KnownKinds
  /\ \A g \in Present : frameworks[g].kind # kind
  /\ frameworks' = [frameworks EXCEPT ![f] = [kind |-> kind, status |-> "not_started", score |-> Null,
                      scope |-> TRUE, defaults |-> DefaultControls(kind), on |-> {}]]
  /\ UNCHANGED <<compUp, controls, connected>>

\* Fault: the score is written whatever it is.
UpdateFrameworkPlain(f, status, score) ==
  /\ compUp = "up" /\ f \in Present
  /\ frameworks' = [frameworks EXCEPT ![f].status = IF status = "" THEN @ ELSE status,
                                      ![f].score = score]
  /\ UNCHANGED <<compUp, controls, connected>>
\* Empty fields keep what there is, and so does a score that is not positive.
UpdateFramework(f, status, score) ==
  /\ compUp = "up" /\ f \in Present
  /\ frameworks' = [frameworks EXCEPT ![f].status = IF status = "" THEN @ ELSE status,
                                      ![f].score = IF score > 0 THEN score ELSE @]
  /\ UNCHANGED <<compUp, controls, connected>>

\* The flag is set on the frameworks there are; an error is ignored and the
\* answer is the same.
Connect(integration) ==
  /\ compUp # "absent"
  /\ frameworks' = IF compUp = "down" THEN frameworks
       ELSE [f \in Frameworks |-> IF f \in Present THEN [frameworks[f] EXCEPT !.on = @ \cup {integration}]
                                  ELSE NoFramework]
  /\ connected' = connected \cup {integration}
  /\ UNCHANGED <<compUp, controls>>
ConnectDelve == Connect("delve")
ConnectKertos == Connect("kertos")

\* Others write controls, and rows without a scope.
Elsewhere ==
  /\ compUp = "up" /\ UNCHANGED <<compUp, connected>>
  /\ \/ \E f \in Present, status \in {"passed", "failed", "pending", "waived"} :
          /\ Len(controls[f]) < MaxControls
          /\ controls' = [controls EXCEPT ![f] = Append(@, status)] /\ UNCHANGED frameworks
     \/ \E f \in Present : frameworks' = [frameworks EXCEPT ![f].scope = FALSE] /\ UNCHANGED controls
CompOutage ==
  /\ compUp # "absent" /\ compUp' = IF compUp = "up" THEN "down" ELSE "up"
  /\ UNCHANGED <<frameworks, controls, connected>>

\* These answer that something was begun or stored, and do neither.
ScanCompliance == UNCHANGED compVars
RemediationPlan == UNCHANGED compVars
GenerateReport == UNCHANGED compVars
SyncDelveData == UNCHANGED compVars
SyncKertosData == UNCHANGED compVars
CreateRisk == UNCHANGED compVars
UpdateRisk == UNCHANGED compVars
MitigateRisk == UNCHANGED compVars
AnswerOnly ==
  ScanCompliance \/ RemediationPlan \/ GenerateReport \/ SyncDelveData \/ SyncKertosData
    \/ CreateRisk \/ UpdateRisk \/ MitigateRisk

Next ==
  \/ \E f \in Frameworks, kind \in Kinds : CreateFramework(f, kind)
  \/ \E f \in Frameworks, status \in {"", "compliant"}, score \in Scores : UpdateFramework(f, status, score)
  \/ ConnectDelve \/ ConnectKertos \/ AnswerOnly \/ Elsewhere \/ CompOutage
Spec == Init /\ [][Next]_compVars

-----------------------------------------------------------------------------
\* The views.  The list reads the score into a time, the dashboard into a
\* plain integer; the controls are read into too few fields and never listed.
ListFrameworks == {f \in Present : frameworks[f].scope /\ frameworks[f].score = Null}
GetFramework(f) == f \in Present /\ frameworks[f].scope
DashboardShows(f) == f \in Present /\ frameworks[f].score # Null
Count(f, status) == Cardinality({i \in DOMAIN controls[f] : controls[f][i] = status})
GetComplianceDashboard(f) ==
  [total |-> Len(controls[f]), passed |-> Count(f, "passed"), failed |-> Count(f, "failed"),
   pending |-> Count(f, "pending"), delve |-> "delve" \in frameworks[f].on,
   kertos |-> "kertos" \in frameworks[f].on]

(* A framework is listed until it has a score and has a dashboard from then  *)
(* on: one of the two shows it, never both, and a score, once there, is not  *)
(* lost by an update that leaves it out.  The parts of a dashboard fit its   *)
(* total, and no kind is there twice.                                        *)
FrameworksShown ==
  /\ \A f \in Present :
       /\ GetFramework(f) => (f \in ListFrameworks) # DashboardShows(f)
       /\ frameworks[f].score # 0
       /\ LET d == GetComplianceDashboard(f) IN d.passed + d.failed + d.pending <= d.total
  /\ \A f, g \in Present : frameworks[f].kind = frameworks[g].kind => f = g
=============================================================================
