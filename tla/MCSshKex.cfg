\* The scanners alone, against the comment on weak key exchanges.
SPECIFICATION Spec
CONSTANTS
  Worlds = {"findings"}
  None = none
  \* The bounds of MCServices.cfg.
  Emails = {adm, new}  Bootstrap = adm  AllowedEmails = {adm, new}
  Passwords = {p}  BootstrapPassword = p  Profiled = q
  Requested = {"", "oss"}  Clients = {c1, c2}  Refreshed = {"refresh"}  States = {s1}
  MaxTokens = 8  MaxSessions = 1  MaxUsers = 2  MaxRevoked = 2  MaxExpired = 2  MaxRestarts = 1
  Reports = {x1}  CryptoAssets = {x1, x2}  Events = {x1}  CbomAlgorithms = {"RSA"}  Readers = {c1}
  Hooks = {x1, x2}  Codes = {0, 200, 400}  Testers = {c1, c2}  MaxPosts = 2
  Keys = {x1, x2}  KeyRoles = {"admin"}  Callers = {c1, c2}
  AuditRows = {1, 2}  Tenants = {"t"}  Statuses = {200, 404, 500}  Ages = {1, 60}
  Asked = {7, 90}  ListLimit = 1  MaxServed = 1
  InvAssets = {x1, x2}  Names = {"n"}  MaxDetails = 1
  Frameworks = {x1, x2}  Kinds = {"dora", "unknown"}  Scores = {0, 80}  MaxControls = 2
  Items = {1, 2}  PageSize = 1  MaxChanges = 2
  Tools = {x1}  CloudAccounts = {x2}  Values = {"a"}  MaxEdits = 2
  AttRows = {x1, x2}  Analyses = {"a"}
  Algorithms <- MCAlgorithms  MaxEstate = 2
  KexOffers = {{"group1-sha1"}, {"curve25519"}, {"group16-sha512"}, {"mlkem"}}
  HostKeys = {"ssh-rsa", "ssh-ed25519"}  Presented <- MCPresented
  Files <- MCFiles  MaxFiles = 2
INVARIANT WeakKexWasOffered
CHECK_DEADLOCK FALSE
