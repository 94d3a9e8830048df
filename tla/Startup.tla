------------------------------ MODULE Startup ------------------------------
(***************************************************************************)
(* How a server gets its database: it pings once, and without an answer    *)
(* runs in demo mode for good; else it runs the migrations, one statement  *)
(* at a time and in no transaction.  If one fails, the OSS server exits    *)
(* and is started again, while the combined server goes on with what there *)
(* is.  Several servers may start on one database, and any may crash       *)
(* between two statements.  RunEnterpriseMigrations has no caller; it is   *)
(* modelled as somebody would run it by hand.                              *)
(***************************************************************************)
EXTENDS Naturals, Sequences

CONSTANTS
  Servers,      \* processes
  Combinations, \* combinations[s]: the programs that may run together
  MaxCrashes, MaxOutages   \* bounds

VARIABLES
  program,   \* program[s]: "oss", "combined" or "tool"
  permitted, \* the database user may create extensions and types
  online,    \* the database answers
  schema,    \* what the database has
  proc,      \* proc[s]: where a process is, whether it has a database, its next statement
  crashes, outages

startVars == <<program, permitted, online, schema, proc, crashes, outages>>

-----------------------------------------------------------------------------
\* The statements.  careful: it says IF NOT EXISTS.  Everything of this schema
\* that a statement refers to by name is in needs.
Ext(name) == [makes |-> name, needs |-> {}, careful |-> TRUE, kind |-> "extension"]
Type(name) == [makes |-> name, needs |-> {}, careful |-> FALSE, kind |-> "type"]
Table(name, needs) ==
  [makes |-> name, needs |-> needs \cup {"uuid-ossp"}, careful |-> TRUE, kind |-> "table"]
Index(name, table) == [makes |-> name, needs |-> {table}, careful |-> TRUE, kind |-> "index"]

\* Fault: a statement that cannot be repeated.
OssTablesOnce == <<
  Ext("uuid-ossp"), Table("tenants", {}),
  [Table("users", {"tenants"}) EXCEPT !.careful = FALSE],
  Table("cbom_reports", {"tenants"}), Table("crypto_assets", {"cbom_reports"}),
  Table("security_events", {"tenants"}), Table("kubernetes_clusters", {"tenants"}),
  Table("audit_events", {"tenants"}) >>
OssTables == <<
  Ext("uuid-ossp"), Table("tenants", {}), Table("users", {"tenants"}),
  Table("cbom_reports", {"tenants"}), Table("crypto_assets", {"cbom_reports"}),
  Table("security_events", {"tenants"}), Table("kubernetes_clusters", {"tenants"}),
  Table("audit_events", {"tenants"}) >>
OssIndexes == <<
  Index("idx_users_tenant_id", "users"), Index("idx_cbom_reports_tenant_id", "cbom_reports"),
  Index("idx_crypto_assets_cbom_report_id", "crypto_assets"),
  Index("idx_security_events_tenant_id", "security_events"),
  Index("idx_kubernetes_clusters_tenant_id", "kubernetes_clusters"),
  Index("idx_crypto_assets_quantum_safe", "crypto_assets"),
  Index("idx_security_events_severity", "security_events"),
  Index("idx_audit_events_created_at", "audit_events"),
  Index("idx_audit_events_event_type", "audit_events") >>

EnterpriseTypes == <<
  Ext("uuid-ossp"), Ext("pg_trgm"), Type("asset_category"), Type("cloud_provider"),
  Type("compliance_framework"), Type("risk_level"), Type("attestation_status") >>
AssetTables == <<
  Table("tenants", {}), Table("users", {"tenants"}), Table("cbom_reports", {"tenants"}),
  Table("inventory_assets", {"tenants", "asset_category", "cloud_provider"}),
  Table("cryptographic_assets", {"inventory_assets"}), Table("ai_assets", {"inventory_assets"}),
  Table("hardware_assets", {"inventory_assets"}), Table("software_assets", {"inventory_assets"}),
  Table("infrastructure_assets", {"inventory_assets"}) >>
GovernanceTables == <<
  Table("cloud_accounts", {"tenants", "cloud_provider"}),
  Table("compliance_frameworks", {"tenants", "compliance_framework"}),
  Table("compliance_controls", {"compliance_frameworks"}),
  Table("risk_assessments", {"tenants", "inventory_assets", "compliance_frameworks", "risk_level"}),
  Table("quantum_attestations", {"tenants", "inventory_assets", "attestation_status"}),
  Table("terraform_assets", {"tenants", "cloud_provider"}), Table("cncf_tools", {"tenants"}) >>
OperationsTables == <<
  Table("security_events", {"tenants"}),
  Table("kubernetes_clusters", {"tenants", "cloud_accounts", "cloud_provider"}),
  Table("compliance_reports", {"tenants", "compliance_framework"}),
  Table("api_keys", {"tenants"}), Table("webhooks", {"tenants"}),
  Table("webhook_deliveries", {"webhooks"}),
  [makes |-> "users.mfa", needs |-> {"users"}, careful |-> TRUE, kind |-> "column"] >>
\* One per table and column; here one per table.
EnterpriseIndexes ==
  LET on == <<"inventory_assets", "cryptographic_assets", "ai_assets", "hardware_assets",
              "software_assets", "infrastructure_assets", "cloud_accounts",
              "compliance_frameworks", "compliance_controls", "risk_assessments",
              "quantum_attestations", "terraform_assets", "cncf_tools", "security_events",
              "kubernetes_clusters", "compliance_reports", "api_keys", "webhooks",
              "webhook_deliveries">>
  IN  [i \in DOMAIN on |-> Index("idx_" \o on[i], on[i])]

OssStatements == OssTables \o OssIndexes
EnterpriseStatements ==
  EnterpriseTypes \o AssetTables \o GovernanceTables \o OperationsTables \o EnterpriseIndexes
Statements(s) == IF program[s] = "tool" THEN EnterpriseStatements ELSE OssStatements
Complete == {OssStatements[i].makes : i \in DOMAIN OssStatements} \subseteq schema

-----------------------------------------------------------------------------
Down == [at |-> "down", db |-> FALSE, next |-> 0]

Init ==
  /\ program \in Combinations
  /\ permitted \in BOOLEAN /\ online \in BOOLEAN
  /\ schema = {} /\ proc = [s \in Servers |-> Down]
  /\ crashes = 0 /\ outages = 0

Become(s, state) == proc' = [proc EXCEPT ![s] = state]

\* The tool gives up without a connection; a server runs its demo.
Start(s) ==
  /\ proc[s].at = "down"
  /\ IF online THEN Become(s, [at |-> "migrating", db |-> TRUE, next |-> 1])
     ELSE program[s] # "tool" /\ Become(s, [at |-> "serving", db |-> FALSE, next |-> 0])
  /\ UNCHANGED <<program, permitted, online, schema, crashes, outages>>

Current(s) == Statements(s)[proc[s].next]
Exists(s) == Current(s).makes \in schema
Executes(s) ==
  /\ online /\ Current(s).needs \subseteq schema
  /\ IF Exists(s) THEN Current(s).careful
     ELSE Current(s).kind = "extension" => permitted

Statement(s) ==
  /\ proc[s].at = "migrating" /\ Executes(s)
  /\ schema' = schema \cup {Current(s).makes}
  /\ Become(s, IF proc[s].next = Len(Statements(s))
               THEN [at |-> "serving", db |-> TRUE, next |-> 0]
               ELSE [proc[s] EXCEPT !.next = @ + 1])
  /\ UNCHANGED <<program, permitted, online, crashes, outages>>

\* Naming the failed statement by its first 60 characters panics when it is
\* shorter, as the first one is.
Panics(s) == Current(s).kind = "extension"
\* Fault: the OSS server goes on too.
GivesUpNever(s) == program[s] = "tool" \/ Panics(s)
GivesUp(s) == program[s] # "combined" \/ Panics(s)
Fail(s) ==
  Become(s, IF GivesUp(s) THEN Down ELSE [at |-> "serving", db |-> TRUE, next |-> 0])

Refused(s) ==
  /\ proc[s].at = "migrating" /\ ~Executes(s) /\ Fail(s)
  /\ UNCHANGED <<program, permitted, online, schema, crashes, outages>>

\* IF NOT EXISTS looks first: of two processes at one statement the later loses.
Race(s, other) ==
  /\ s # other /\ proc[s].at = "migrating" /\ proc[other].at = "migrating"
  /\ Executes(s) /\ ~Exists(s) /\ Current(other).makes = Current(s).makes
  /\ schema' = schema \cup {Current(s).makes} /\ Fail(s)
  /\ UNCHANGED <<program, permitted, online, crashes, outages>>

Crash(s) ==
  /\ proc[s].at # "down" /\ crashes < MaxCrashes /\ crashes' = crashes + 1
  /\ Become(s, Down)
  /\ UNCHANGED <<program, permitted, online, schema, outages>>
Outage ==
  /\ IF online THEN outages < MaxOutages /\ outages' = outages + 1 ELSE UNCHANGED outages
  /\ online' = ~online
  /\ UNCHANGED <<program, permitted, schema, proc, crashes>>

Work(s) == Start(s) \/ Statement(s) \/ Refused(s)
Next ==
  \/ \E s \in Servers : Work(s) \/ Crash(s) \/ (\E other \in Servers : Race(s, other))
  \/ Outage

\* The orchestrator starts what is down and a process goes on; nobody has to
\* run the tool.  An outage ends.
ServerWork(s) == program[s] # "tool" /\ Work(s)
StartupFairness(guard) ==
  /\ \A s \in Servers : WF_startVars(guard /\ ServerWork(s))
  /\ WF_startVars(guard /\ ~online /\ Outage)
Spec == Init /\ [][Next]_startVars /\ StartupFairness(TRUE)

-----------------------------------------------------------------------------
(* An OSS server that serves with a database serves with a complete schema.  *)
(* (The combined server may not: it goes on after a failed statement.)       *)
OssServesMigrated ==
  \A s \in Servers :
    program[s] = "oss" /\ proc[s].at = "serving" /\ proc[s].db => Complete

(* Crashes, outages and lost races leave prefixes of the schema, and still   *)
(* every OSS server ends up serving, unless it may not create the extension. *)
Settled(s) == proc[s].at = "serving" /\ (proc[s].db => Complete)
OssServersSettle ==
  \A s \in Servers : program[s] = "oss" /\ permitted => <>[]Settled(s)
=============================================================================
