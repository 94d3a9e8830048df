\* Every service, one to a behaviour.
SPECIFICATION Spec
CONSTANTS
  Worlds = {"sessions", "oauth", "cbom", "webhooks", "keys", "audit", "inventory", "compliance",
            "cloud", "records", "attestations", "rules", "findings", "sbom"}
  None = none
  \* Two addresses of an allowed domain, one of them the administrator's; two
  \* refreshes at once; tokens for a session, its refreshes and a demo.
  Emails = {adm, new}  Bootstrap = adm  AllowedEmails = {adm, new}
  Passwords = {p}  BootstrapPassword = p  Profiled = q
  Requested = {"", "oss"}  Clients = {c1, c2}  Refreshed = {"refresh"}  States = {s1}
  MaxTokens = 8  MaxSessions = 1  MaxUsers = 2  MaxRevoked = 2  MaxExpired = 2  MaxRestarts = 1
  \* One metrics request among writers of two assets.
  Reports = {x1}  CryptoAssets = {r1, r2}  Events = {x1}  CbomAlgorithms = {"RSA"}  Readers = {x1}
  Hooks = {r1, r2}  Codes = {0, 200, 400}  Testers = {c1, c2}  MaxPosts = 2
  Keys = {r1, r2}  KeyRoles = {"admin"}  Callers = {c1, c2}
  AuditRows = {r1, r2}  Tenants = {"t"}  Statuses = {200, 404, 500}  Ages = {1, 60}
  Asked = {7, 90}  ListLimit = 1  MaxServed = 1
  InvAssets = {r1, r2}  Names = {"n"}  MaxDetails = 1
  Frameworks = {r1, r2}  Kinds = {"dora", "unknown"}  Scores = {0, 80}  MaxControls = 2
  Items = {1, 2}  PageSize = 1  MaxChanges = 2
  Tools = {x1}  CloudAccounts = {x2}  Values = {"a"}  MaxEdits = 1
  AttRows = {r1, r2}  Analyses = {"a"}
  Algorithms <- MCAlgorithms  MaxEstate = 2
  \* Key exchanges of each grade.
  KexOffers = {{"group1-sha1"}, {"curve25519"}, {"group16-sha512"}, {"mlkem"}}
  HostKeys = {"ssh-rsa", "ssh-ed25519"}  Presented <- MCPresented
  Files <- MCFiles  MaxFiles = 2
SYMMETRY MCSymmetry
INVARIANTS
  SessionKeepsRights RotationSpends DeliveriesTrue AuditViewsAgree InventoryViewsAgree FrameworksShown
  LiveAnswersWhole IBMAnswersAreIBMs SafeForOneIsSafeForAll SessionsJudged ScanIsExact
PROPERTIES QuietMetricsTrue InactiveStaysInactive MigrationHelps
CHECK_DEADLOCK FALSE
