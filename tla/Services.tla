------------------------------ MODULE Services ------------------------------
(***************************************************************************)
(* The services beside the scans.  Each has tables of its own; what one    *)
(* writes into a table of another is an action Elsewhere of the other.  So *)
(* no property of one depends on the state of another, and a behaviour is  *)
(* about one of them: `world` names it, and the others never start.        *)
(***************************************************************************)
EXTENDS Integers, Sequences, FiniteSets

CONSTANTS
  Worlds,                        \* the components that behaviours are about
  None,                          \* no row, no user, no answer
  Emails, Bootstrap, AllowedEmails, Passwords, BootstrapPassword, Profiled,   \* Accounts
  Requested, Clients, Refreshed, States,
  MaxTokens, MaxSessions, MaxUsers, MaxRevoked, MaxExpired, MaxRestarts,
  Reports, CryptoAssets, Events, CbomAlgorithms, Readers,                     \* CbomStore
  Hooks, Codes, Testers, MaxPosts,                                            \* Webhooks
  Keys, KeyRoles, Callers,                                                    \* ApiKeys
  AuditRows, Tenants, Statuses, Ages, Asked, MaxServed,                       \* AuditLog
  ListLimit,                                                                  \* AuditLog, Inventory
  InvAssets, Names, MaxDetails,                                               \* Inventory
  Frameworks, Kinds, Scores, MaxControls,                                     \* ComplianceRecords
  Items, PageSize, MaxChanges,                                                \* CloudInventory
  Tools, CloudAccounts, Values, MaxEdits,                                     \* CloudRecords
  AttRows, Analyses,                                                          \* Attestations
  Algorithms, MaxEstate,                                                      \* QuantumRules
  KexOffers, HostKeys, Presented,                                             \* TargetFindings
  Files, MaxFiles                                                             \* SbomScan

\* Requests under way, rows of tables, the algorithms these name and resources of a
\* cloud are finitely many; the items of a listing are numbered in its order, from 1 on.
ASSUME FiniteParameters ==
  /\ IsFiniteSet(Clients) /\ IsFiniteSet(Testers) /\ IsFiniteSet(AuditRows) /\ IsFiniteSet(InvAssets)
  /\ IsFiniteSet(CryptoAssets) /\ IsFiniteSet(CbomAlgorithms)
  /\ IsFiniteSet(Items) /\ Items \subseteq Nat \ {0} /\ PageSize \in Nat \ {0}
  /\ ListLimit \in Nat
\* Statuses of answers are numbers; that of a call without an answer is 0.
ASSUME CodesAreNumbers == Codes \subseteq Nat
ASSUME ScoresAreNumbers == Scores \subseteq Int

VARIABLES
  world,
  store, users, nextUser, tokens, age, blacklist, request, oauthState, restarts,
  connected, up, tenant, reports, assets, events, metrics, answer,
  hookUp, hooks, deliveries, posts, test, said,
  keyUp, keys, call,
  mainDb, table, served, auditSummary,
  invUp, invAssets, details, invAnswer, invSummary,
  compUp, frameworks, controls, integrations,
  cloud, blocked, steady, skipped, fetch, changes,
  cloudUp, tools, accounts, resources, cloudAnswer, edits,
  attUp, rows, ibmq, asked, ibmSaid, attAnswer,
  estate, keyPair,
  probe, sshd, keyRead, seen, reported,
  tree, sbom

accountVars == <<store, users, nextUser, tokens, age, blacklist, request, oauthState, restarts>>
cbomVars == <<connected, up, tenant, reports, assets, events, metrics, answer>>
hookVars == <<hookUp, hooks, deliveries, posts, test, said>>
keyVars == <<keyUp, keys, call>>
auditVars == <<mainDb, table, served, auditSummary>>
inventoryVars == <<invUp, invAssets, details, invAnswer, invSummary>>
complianceVars == <<compUp, frameworks, controls, integrations>>
cloudVars == <<cloud, blocked, steady, skipped, fetch, changes>>
recordVars == <<cloudUp, tools, accounts, resources, cloudAnswer, edits>>
attestationVars == <<attUp, rows, ibmq, asked, ibmSaid, attAnswer>>
ruleVars == <<estate, keyPair>>
probeVars == <<probe, sshd, keyRead, seen, reported>>
treeVars == <<tree, sbom>>
serviceVars ==
  <<world, accountVars, cbomVars, hookVars, keyVars, auditVars, inventoryVars,
    complianceVars, cloudVars, recordVars, attestationVars, ruleVars, probeVars, treeVars>>

-----------------------------------------------------------------------------
\* Logins without OAuth, and two callbacks of one OAuth state beside registration.
Session == INSTANCE Accounts WITH States <- {}
OAuth == INSTANCE Accounts WITH Requested <- {""}, MaxTokens <- 2, MaxExpired <- 0
Cbom == INSTANCE CbomStore WITH Assets <- CryptoAssets, Algorithms <- CbomAlgorithms
Hook == INSTANCE Webhooks
Key == INSTANCE ApiKeys WITH NoKey <- None
Audit == INSTANCE AuditLog WITH summary <- auditSummary, Rows <- AuditRows, NoRow <- None
Inv == INSTANCE Inventory WITH assets <- invAssets, summary <- invSummary, Assets <- InvAssets, NoAsset <- None
Comp == INSTANCE ComplianceRecords WITH connected <- integrations, NoFramework <- None
Cloud == INSTANCE CloudInventory
Record == INSTANCE CloudRecords WITH Accounts <- CloudAccounts, NoTool <- None
Attest == INSTANCE Attestations WITH said <- ibmSaid, Rows <- AttRows, NoRow <- None
Rule == INSTANCE QuantumRules
Find == INSTANCE TargetFindings
Sbom == INSTANCE SbomScan

\* A name has words, the parts between its hyphens.
ASSUME NamesHaveWords == \A name \in Algorithms : name \in Seq(STRING) /\ name # <<>>
\* Files are text: a number of lines one after the other.
ASSUME FilesAreText == \A f \in Files : f.lines \in
  Seq([kind : STRING, name : STRING, version : STRING, group : STRING])

\* What stands for a row that is not there is none.
ASSUME NoneIsNoRow == None \notin Key!Rows /\ None \notin Inv!Rows

NoAccounts ==
  /\ store = None /\ users = None /\ nextUser = None /\ tokens = None /\ age = None
  /\ blacklist = None /\ request = None /\ oauthState = None /\ restarts = None
NoCbom ==
  /\ connected = None /\ up = None /\ tenant = None /\ reports = None /\ assets = None
  /\ events = None /\ metrics = None /\ answer = None
NoHooks ==
  /\ hookUp = None /\ hooks = None /\ deliveries = None /\ posts = None /\ test = None /\ said = None
NoKeys == keyUp = None /\ keys = None /\ call = None
NoAudit == mainDb = None /\ table = None /\ served = None /\ auditSummary = None
NoInventory ==
  invUp = None /\ invAssets = None /\ details = None /\ invAnswer = None /\ invSummary = None
NoCompliance == compUp = None /\ frameworks = None /\ controls = None /\ integrations = None
NoCloud ==
  /\ cloud = None /\ blocked = None /\ steady = None /\ skipped = None /\ fetch = None
  /\ changes = None
NoRecords ==
  /\ cloudUp = None /\ tools = None /\ accounts = None /\ resources = None
  /\ cloudAnswer = None /\ edits = None
NoAttestations ==
  /\ attUp = None /\ rows = None /\ ibmq = None /\ asked = None /\ ibmSaid = None
  /\ attAnswer = None
NoEstate == estate = None /\ keyPair = None
NoProbe == probe = None /\ sshd = None /\ keyRead = None /\ seen = None /\ reported = None
NoTree == tree = None /\ sbom = None

Init ==
  /\ world \in Worlds
  /\ CASE world = "sessions" -> Session!Init [] world = "oauth" -> OAuth!Init [] OTHER -> NoAccounts
  /\ IF world = "cbom" THEN Cbom!Init ELSE NoCbom
  /\ IF world = "webhooks" THEN Hook!Init ELSE NoHooks
  /\ IF world = "keys" THEN Key!Init ELSE NoKeys
  /\ IF world = "audit" THEN Audit!Init ELSE NoAudit
  /\ IF world = "inventory" THEN Inv!Init ELSE NoInventory
  /\ IF world = "compliance" THEN Comp!Init ELSE NoCompliance
  /\ IF world = "cloud" THEN Cloud!Init ELSE NoCloud
  /\ IF world = "records" THEN Record!Init ELSE NoRecords
  /\ IF world = "attestations" THEN Attest!Init ELSE NoAttestations
  /\ IF world = "rules" THEN Rule!Init ELSE NoEstate
  /\ IF world = "findings" THEN Find!Init ELSE NoProbe
  /\ IF world = "sbom" THEN Sbom!Init ELSE NoTree

\* Every component but the one the behaviour is about.
Others ==
  /\ UNCHANGED world
  /\ IF world \in {"sessions", "oauth"} THEN TRUE ELSE UNCHANGED accountVars
  /\ IF world = "cbom" THEN TRUE ELSE UNCHANGED cbomVars
  /\ IF world = "webhooks" THEN TRUE ELSE UNCHANGED hookVars
  /\ IF world = "keys" THEN TRUE ELSE UNCHANGED keyVars
  /\ IF world = "audit" THEN TRUE ELSE UNCHANGED auditVars
  /\ IF world = "inventory" THEN TRUE ELSE UNCHANGED inventoryVars
  /\ IF world = "compliance" THEN TRUE ELSE UNCHANGED complianceVars
  /\ IF world = "cloud" THEN TRUE ELSE UNCHANGED cloudVars
  /\ IF world = "records" THEN TRUE ELSE UNCHANGED recordVars
  /\ IF world = "attestations" THEN TRUE ELSE UNCHANGED attestationVars
  /\ IF world = "rules" THEN TRUE ELSE UNCHANGED ruleVars
  /\ IF world = "findings" THEN TRUE ELSE UNCHANGED probeVars
  /\ IF world = "sbom" THEN TRUE ELSE UNCHANGED treeVars

Next ==
  \/ world = "sessions" /\ Session!SessionNext /\ Others
  \/ world = "oauth" /\ OAuth!Next /\ Others
  \/ world = "cbom" /\ Cbom!Next /\ Others
  \/ world = "webhooks" /\ Hook!Next /\ Others
  \/ world = "keys" /\ Key!Next /\ Others
  \/ world = "audit" /\ Audit!Next /\ Others
  \/ world = "inventory" /\ Inv!Next /\ Others
  \/ world = "compliance" /\ Comp!Next /\ Others
  \/ world = "cloud" /\ Cloud!Next /\ Others
  \/ world = "records" /\ Record!Next /\ Others
  \/ world = "attestations" /\ Attest!Next /\ Others
  \/ world = "rules" /\ Rule!Next /\ Others
  \/ world = "findings" /\ Find!Next /\ Others
  \/ world = "sbom" /\ Sbom!Next /\ Others

Spec == Init /\ [][Next]_serviceVars

-----------------------------------------------------------------------------
(* A refresh never widens a session: user, role and permissions (jwt.go).    *)
SessionKeepsRights ==
  /\ world = "sessions" => Session!SessionKeepsRights
  /\ world = "oauth" => OAuth!SessionKeepsRights
(* A token is exchanged once per concurrent request and restart (jwt.go).    *)
RotationSpends ==
  /\ world = "sessions" => Session!RotationSpends
  /\ world = "oauth" => OAuth!RotationSpends
(* A metrics answer that no write disturbed is that of the store (queries.go).*)
QuietMetricsTrue == [][world = "cbom" => Cbom!TrueIfCalm]_serviceVars
(* A delivery says of a call what its remote end answered (webhooks.go).     *)
DeliveriesTrue == world = "webhooks" => Hook!DeliveriesTrue
(* A revoked or expired key never becomes active again (apikeys.go).         *)
InactiveStaysInactive == [][world = "keys" => Key!NothingRevives]_serviceVars
(* List, summary and export of the audit log agree (enterprise/audit.go).    *)
AuditViewsAgree == world = "audit" => Audit!AuditViewsAgree
(* The views of the inventory agree with each other (inventory.go).          *)
InventoryViewsAgree == world = "inventory" => Inv!InventoryViewsAgree
(* A framework is in the list or on a dashboard (compliance.go).             *)
FrameworksShown == world = "compliance" => Comp!FrameworksShown
(* A live answer has what was there throughout the request (cloud_sdk.go).   *)
LiveAnswersWhole == world = "cloud" => Cloud!LiveAnswersWhole
(* What is shown as IBM's is what IBM answered to this call (ibm_quantum.go).*)
IBMAnswersAreIBMs == world = "attestations" => Attest!IBMAnswersAreIBMs
(* A recommended migration makes no measure worse (pqc_service.go).          *)
MigrationHelps ==
  [][world = "rules" /\ estate' # estate /\ Len(estate') = Len(estate)
       => Rule!MigrationStepHelps(estate, estate')]_serviceVars
(* No rule set condemns what another calls safe (quantum, compliance).       *)
SafeForOneIsSafeForAll == world = "rules" => Rule!SafeForOneIsSafeForAll
(* What a session showed is judged, and nothing else (scanners).             *)
SessionsJudged == world = "findings" => Find!SessionsJudged
(* A key exchange reported as offered was offered (ssh_scanner.go).          *)
WeakKexWasOffered == world = "findings" => Find!WeakKexWasOffered
(* The list of a scan has each package of the tree once (sbom_scanner.go).   *)
ScanIsExact == world = "sbom" => Sbom!ScanIsExact
=============================================================================
