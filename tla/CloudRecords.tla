--------------------------- MODULE CloudRecords ----------------------------
(***************************************************************************)
(* The records of the enterprise API about tools and clouds: the CNCF      *)
(* tools, the cloud accounts and the Terraform resources.  Without the     *)
(* enterprise database the Terraform lists answer demo data and the other  *)
(* handlers that need it panic into a 500.                                 *)
(***************************************************************************)
EXTENDS Naturals, FiniteSets

CONSTANTS
  Tools, NoTool,
  Accounts,     \* cloud accounts that other writers add
  Values,       \* what clients send for a field, besides ""
  MaxEdits      \* bound on the acknowledged updates

VARIABLES
  cloudUp,     \* the enterprise database: "absent", "up" or "down"
  tools,       \* tools[t]: NoTool or its row of cncf_tools
  accounts,    \* cloud_accounts, with those that hold NULLs or that a cluster refers to
  resources,   \* terraform_assets, written by others
  cloudAnswer, \* the last answer: handler, status, what it shows
  edits

recordVars == <<cloudUp, tools, accounts, resources, cloudAnswer, edits>>

Fields == {"endpoint", "status", "version"}
Init ==
  /\ cloudUp \in {"absent", "up"}
  /\ tools = [t \in Tools |-> NoTool]
  /\ accounts = {} /\ resources = {}
  /\ cloudAnswer = [op |-> "none", code |-> 0, shows |-> {}] /\ edits = 0

Reply(op, code, shows) == cloudAnswer' = [op |-> op, code |-> code, shows |-> shows]
\* Answers that change nothing.
Show(op, code, shows) ==
  Reply(op, code, shows) /\ UNCHANGED <<cloudUp, tools, accounts, resources, edits>>
Code(stored) == IF stored THEN 200 ELSE 500

-----------------------------------------------------------------------------
\* The client's endpoint and version, whatever status it sent.
RegisterTool(t, endpoint, version) ==
  LET row == [endpoint |-> endpoint, status |-> "active", version |-> version]
      stored == cloudUp = "up"
  IN  /\ tools[t] = NoTool
      /\ tools' = IF stored THEN [tools EXCEPT ![t] = row] ELSE tools
      /\ Reply("register", IF stored THEN 201 ELSE 500, {})
      /\ UNCHANGED <<cloudUp, accounts, resources, edits>>

\* COALESCE(NULLIF(new, ''), old)
KeepIfEmpty(old, new) == IF new = "" THEN old ELSE new

\* Acknowledged for a tool that is not there as well.
UpdateTool(t, fields) ==
  /\ edits < MaxEdits /\ edits' = edits + 1
  /\ IF cloudUp = "up" /\ tools[t] # NoTool
     THEN tools' = [tools EXCEPT ![t] = [f \in Fields |-> KeepIfEmpty(@[f], fields[f])]]
     ELSE UNCHANGED tools
  /\ Reply("update", Code(cloudUp = "up"), {})
  /\ UNCHANGED <<cloudUp, accounts, resources>>

DeleteTool(t) ==
  /\ tools' = IF cloudUp = "up" THEN [tools EXCEPT ![t] = NoTool] ELSE tools
  /\ Reply("delete", Code(cloudUp = "up"), {})
  /\ UNCHANGED <<cloudUp, accounts, resources, edits>>

\* The column the query names, last_health_check, is not in the table: the
\* list fails in every state of the database.
ToolColumns == {"last_health_check_at"}
ListTools ==
  Show("list", Code(cloudUp = "up" /\ "last_health_check" \in ToolColumns),
           {t \in Tools : tools[t] # NoTool})
\* Healthy, whether the tool is there or not: the write of the same column fails
\* and its error is ignored.  Without a database the handler panics.
CheckToolHealth ==
  Show("health", Code(cloudUp # "absent"), {})
GetToolMetrics == Show("metrics", 200, {})

-----------------------------------------------------------------------------
\* The JSON of the regions is no literal of an array: neither statement succeeds.
AddCloudAccount == Show("add_account", 500, {})
UpdateCloudAccount == Show("update_account", 500, {})
\* Refused while a cluster refers to the account.
DeleteCloudAccount(a) ==
  LET refused == cloudUp # "up" \/ <<a, "cluster">> \in accounts
  IN  /\ accounts' = IF refused THEN accounts ELSE {r \in accounts : r[1] # a}
      /\ Reply("delete_account", Code(~refused), {})
      /\ UNCHANGED <<cloudUp, tools, resources, edits>>
\* Rows with NULLs cannot be scanned and are dropped.
ListCloudAccounts ==
  Show("accounts", Code(cloudUp = "up"),
       IF cloudUp = "up" THEN {r[1] : r \in accounts} \ {a \in Accounts : <<a, "nulls">> \in accounts}
       ELSE {})
\* Answered, and nothing started.
SyncCloudAccount == Show("sync", 200, {})

-----------------------------------------------------------------------------
\* Both filters are put at the place of the same parameter: together they fail.
ListTerraformResources(provider, type) ==
  LET answers == cloudUp = "up" /\ (provider = "" \/ type = "")
      shown == {r \in resources : /\ ~r.nulls
                                  /\ provider # "" => r.provider = provider
                                  /\ type # "" => r.type = type}
  IN  Show("resources", Code(answers \/ cloudUp = "absent"),
               IF answers THEN shown ELSE IF cloudUp = "absent" THEN {"tf-1", "tf-2"} ELSE {})
\* Never found: the columns of JSON do not scan into a map and slices.
GetTerraformResource ==
  Show("resource", IF cloudUp = "absent" THEN 500 ELSE 404, {})
\* Answer from what is in the handlers; nothing is stored.
UpdateTerraformResource == Show("tf_update", 200, {})
CreateWorkspace == Show("tf_workspace", 201, {})

\* The findings of the scan, and those of the list, whose last is of "gcp".
Findings(gcp) ==
  {[rule |-> "AVD-AWS-0001", severity |-> "HIGH", provider |-> "aws"],
   [rule |-> "AVD-AWS-0002", severity |-> "CRITICAL", provider |-> "aws"],
   [rule |-> "AVD-GCP-0001", severity |-> "HIGH", provider |-> gcp]}
ScanTerraformResources == Show("tf_scan", 200, Findings("google"))
ListSecurityFindings(severity, provider) ==
  Show("tf_findings", 200,
           IF cloudUp = "absent" THEN {"f-1", "f-2"}
           ELSE {f \in Findings("gcp") : /\ severity # "" => f.severity = severity
                                         /\ provider # "" => f.provider = provider})
ListComplianceViolations(framework) ==
  Show("tf_violations", 200, {v \in {"iso27001", "nist", "gdpr"} : framework # "" => v = framework})

Elsewhere ==
  /\ cloudUp = "up"
  /\ \/ \E a \in Accounts, of \in {"account", "nulls", "cluster"} :
          /\ of # "account" => <<a, "account">> \in accounts
          /\ accounts' = accounts \cup {<<a, of>>} /\ UNCHANGED resources
     \/ \E provider \in {"aws", "gcp"}, nulls \in BOOLEAN :
          /\ resources' = {[provider |-> provider, type |-> "bucket", nulls |-> nulls]}
          /\ UNCHANGED accounts
  /\ UNCHANGED <<cloudUp, tools, cloudAnswer, edits>>
CloudOutage ==
  /\ cloudUp # "absent" /\ cloudUp' = IF cloudUp = "up" THEN "down" ELSE "up"
  /\ UNCHANGED <<tools, accounts, resources, cloudAnswer, edits>>

Next ==
  \/ \E t \in Tools :
       \/ \E endpoint, version \in Values \cup {""} : RegisterTool(t, endpoint, version)
       \/ \E fields \in [Fields -> Values \cup {""}] : UpdateTool(t, fields)
       \/ DeleteTool(t)
  \/ ListTools \/ CheckToolHealth \/ GetToolMetrics
  \/ AddCloudAccount \/ UpdateCloudAccount \/ ListCloudAccounts \/ SyncCloudAccount
  \/ \E a \in Accounts : DeleteCloudAccount(a)
  \/ \E provider \in {"", "aws"}, type \in {"", "bucket"} : ListTerraformResources(provider, type)
  \/ GetTerraformResource \/ UpdateTerraformResource \/ CreateWorkspace \/ ScanTerraformResources
  \/ \E severity \in {"", "HIGH"}, provider \in {"", "gcp", "google"} :
        ListSecurityFindings(severity, provider)
  \/ \E framework \in {"", "nist"} : ListComplianceViolations(framework)
  \/ Elsewhere \/ CloudOutage
Spec == Init /\ [][Next]_recordVars
=============================================================================
