# Formal model of the CSPM crypto-inventory service

TLA+ modules, TLC configurations and TLAPS proofs for the Go services under
`src/internal` and the scanner page under `src/web`. Every definition is
translated from the source; `PROJECT.json` maps each one to the lines it stands
for.

## 1. The system

Two editions (OSS, enterprise) of one HTTP server. A user submits a target; the
server scans its TLS, SSH and HTTP endpoints, reports the cryptographic assets it
finds, and stores, scores and watches them. A React client drives it. A
Kubernetes operator, which no binary here starts, deploys scanners.

| Component (source) | State | Operations | Talks to | What is hard |
|---|---|---|---|---|
| Scan manager (`discovery/scan_manager.go`) | map of `ScanJob`s, one RWMutex | StartScan, executeScan, GetScan | fan-out, scan API | readers load the job after the lock is released; jobs vanish in a restart |
| Fan-out (`discovery/scanner.go`) | findings, errors, counter, WaitGroup | ScanAll | target scanners | one goroutine per target, any order, any may fail |
| Target scanners (`tls_`, `ssh_`, `http_scanner.go`) | none | Scan, check* | remote peers | deadlines; tables of suites; a second SSH connection |
| SBOM scanner (`sbom_scanner.go`) | none | walk, eleven parsers | file system | duplicates, look-ahead in lock files |
| Scan API (`api/shared/handlers.go`) | none | scans, reports, assets, metrics | scan manager, store | reads without the lock, four queries for one answer |
| Progress stream (`api/shared/events.go`) | map of sessions, two channels and a flag each | StreamScanProgress, simulateScan, send, close | gin, SSE clients | close against send, sessions shared by one id, clients that leave |
| Rate limiter (`middleware/ratelimit.go`) | map of visitors, ticker | Allow, cleanup | every request | boundaries of the window, deletion of live counts |
| Scanner page (`web/src/pages/Scanner.tsx`) | jobs, flag, progress, timer, attempts | startScan, pollScanStatus | scan API | overlapping requests, late and lost answers, unmounting |
| Tokens, users, OAuth (`auth/`, `api/shared/*auth.go`) | blacklists, user map or table, state map | login, refresh, logout, register, callback | every handler, providers | check-then-act, state lost in a restart, two services |
| Store (`database/queries.go`) | reports, assets, events | inserts, queries, metrics | SQL | other writers between the queries |
| Schema and start-up (`database/*database.go`, `server/`) | the schema | New, RunMigrations | PostgreSQL | several servers, outages and crashes between statements |
| Webhooks (`enterprise/webhooks.go`) | subscriptions, delivery records | create, delete, test, deliver | SQL, remote hooks | deletion and outage between call and record |
| API keys (`enterprise/apikeys.go`) | key rows | create, revoke, update, authenticate | SQL | read, then write of the status |
| Audit log (`audit.go`, `middleware/audit.go`) | events | write, list, summary, export | two databases | three views, NULLs |
| Inventory, compliance, tools, clouds (`enterprise/`) | tables | create, update, list, summarise, scan | SQL, cloud clients | views that must agree; paging while the cloud changes |
| Quantum rules (`quantum/`, `compliance/engine.go`) | none | assess, recommend, evaluate | store | three tables of names, boundaries |
| Attestation (`quantum/ibm_quantum.go`, `enterprise/`) | attestation rows | attest, verify, refresh | IBM Quantum, HSM | failures of the remote service |
| Operator (`operator/`) | none, Kubernetes has it | Reconcile | API server | stale cache, conflicts, retries |

`PROJECT.json` lists every component with its status and, under `hazards`, what is
hard to test, each at its line.

What makes the modelled components correct:

* a scan's report is complete and final, whatever the order in which its targets
  answer or fail and whenever the status is asked for;
* every accepted scan whose SSH peers hang up ends, and whoever polls is told so and
  never less than before;
* a stream gives every event once and in order, and `done` only after `completed`;
* no limit is exceeded within a window, and a client that pauses is admitted;
* the page never shows as completed what is not, and its button returns unless a
  scan hangs;
* a session is never widened by refreshing it, and a token is spent by it;
* what one view of a table says, the other views of it say too, and an answer that
  claims to be live or IBM's is;
* rules that judge one thing by several tables do not contradict each other;
* what fails half way (a reconcile, a migration, a delivery) is completed or its
  record does not say more than happened.

## 2. Modules

| Module | Models | Run through | Abstract specification | Proofs |
|---|---|---|---|---|
| `ScanManager` | scan manager, fan-out, connections of the target scanners, status handler, restart | `MCScanManager` | `ScanService` | `ScanManager_proofs` |
| `ScanStream` | progress stream | `MCScanStream` | `ProgressFeed` | `ScanStream_proofs` |
| `RateLimiter` | rate limiter | itself | `BurstLimit` | `RateLimiter_proofs` |
| `ScanPage` | scanner page against the scan API | itself | | `ScanPage_proofs` |
| `Accounts` | users, tokens, blacklists, OAuth | `MCServices` | | `Accounts_proofs`, `Services_proofs` |
| `ApiKeys`, `Webhooks`, `CloudRecords`, `Attestations` | API keys, subscriptions, tools, attestations | `MCServices` | | `Services_proofs` |
| `CbomStore`, `AuditLog`, `Inventory`, `ComplianceRecords`, `CloudInventory` | stores with several views | `MCServices` | | `ServiceViews_proofs` |
| `TargetFindings` | what the target scanners find | `MCServices` | a reference definition in its property | `Services_proofs` |
| `QuantumRules`, `SbomScan` (with `Ordered`) | what is judged and parsed | `MCServices` | reference definitions in their properties | `Services_proofs` |
| `Services` | the composition of the rows from `Accounts` on | `MCServices` | | |
| `CbomOperator` | the operator | `MCConvergence` | | `Convergence_proofs` |
| `Startup` | migrations of several servers | `MCConvergence` | | `Convergence_proofs` |
| `Convergence` | the composition of the last two | `MCConvergence` | | |

Operators whose comment starts with "Fault:" are plausible bugs of the definition
that follows them; nothing refers to them but the mutation entries of
`PROJECT.json`, each of which makes one property fail.

`Services` and `Convergence` compose components that share no variable: each has
tables of its own, and what one writes into another's table is an `Elsewhere`
action of the other. They instantiate the modules over variables and constants of
their own. Because nothing is shared, no property of one can depend on the
state of another, and a behaviour is about one component: `world` names it from
the start, the variables of the others are `None` for ever. `Accounts` is
instantiated twice, without OAuth states (`Session`) and with them (`OAuth`), to
keep the two halves apart in TLC's runs. A property of the composition is that of
the component in its world, under the same name. The fairness of `Convergence` is
that of the two modules. `MCServices` and `MCConvergence` only add the values of
constants that a configuration cannot write.

### ScanManager

`exec[j]` is the program counter of `executeScan`, `worker[j][t]` that of the
goroutine of target `t`, `mu` the writer that holds the lock. `status`,
`progress` and `result` are the fields of a `ScanJob`.

`GetScan` holds the read lock only for the lookup; `GetCBOMScanStatus` reads the
fields afterwards. That is a data race, so the critical sections that write are
split: `BeginMark`/`BeginPublish` take the lock and leave the stores to be done
in `stores[j]`, one action per field does them in any order, and
`EndMark`/`EndPublish` release. On the reader's side `LoadField` loads the four
values the handler reads (`status` for the answer, `progress`, `status` again for
the `if`, `result`) in any order. A string is two words: while "running" is
replaced by "completed" the status may be read torn (`TearStatus`). "pending" and
"running" have the same length, so that store only swaps a pointer. `FanOut`
stores one word and stays one action.

A target's goroutine dials under the job's context. TLS and HTTP hold it to the
end; SSH only while dialing (`SshConnects`). After that the scan of the target
returns when the peer ends the connection (`SshPeerEnds`) or when the handshake
fails and the banner is read over a second connection (`SshFallsBack`). Failures
are recorded and dropped by `Merge`, as in `ScanAll`; that is why the branch for
a failed scan in `executeScan` cannot be reached and is not modelled. `ListScans`
has no caller.

### ScanStream

A session is named after the request that created it. `sessions` is the package
map; `closing[s]` says that `close` has closed the channels but has not yet taken
the map's lock, and blocks every other user of that session's lock. The simulator
looks for its session by scan id (`Attach`), so it may find none or another
request's. Its two looks at `done` are `CheckDone` and the first half of `Wake`;
the completed event is sent without one. `Deliver`, `End` and `Leave` are the
branches of the select statement, `Loop` is gin's loop around it. Only the
simulator feeds the stream in this version: it is not connected to the scan.

### RateLimiter

Time is a counter of ticks. The code compares `now - lastSeen` with the window
and the count with the limit and nothing else, so ages are capped just above the
window and counts just above the limit. `verdict`, `pause`, `watch`, `asked` and
`passed` belong to an observer who may start to watch an address at any moment.
A negative limit installs no limiter and needs no model.

### ScanPage

`trigger` and `poll` are requests on the network: any of them may be late,
answered in any order, or lost; the interval sends one whether or not the last has
been answered. `BeginPolling` and `TriggerFails` are the two
continuations of `startScan`, `Receive` and `ReceiveError` those of the interval's
callback. `Leave` unmounts the page: it clears the timer but not the callbacks
under way, and a POST that is answered later still starts an interval. The server
is reduced to the states a scan has in `ScanManager`, with "lost" and "gone" for
running and completed scans that a restart has forgotten, and need not complete a
scan (`scan_hang`). An answer "running" resets nothing and counts for nothing: only a
request that fails looks at the attempts. Left out: messages to
the user, the finding count, torn answers (in ScanManager), and the redirect to
the login page after a 401.

### Accounts

`tokens` is every token ever issued; its index is its jti, `parent` the token it
was exchanged for and `root` the login it descends from. The server has two
authentication services with one secret and a blacklist each. `RefreshCheck` and
`RefreshRotate` are the two uses of the blacklist's lock: several requests may
validate a token before one revokes it. OAuth callbacks look up their state,
delete it, exchange the code, look up the user and create it in separate steps.
A restart empties blacklists, states, requests and the user map of the domain
store. With a database no user is ever created (`"tenant-1"` is no UUID), which
is modelled. Left out: `UpdateUser`, the mock store and the deprecated
`RefreshToken`, which no route reaches, and the guard's own checks of claims.

### CbomStore

The four queries of the metrics overview are four steps of a reader, and every
write between the first and the last marks the answer as disturbed. A query whose
rows end early (`rows.Err` is not looked at, `queries.go:467-474`) is not modelled. Handlers
create reports only; assets and events come from `Elsewhere`. Without a database
handlers answer demo data.

### The enterprise API

Each module has a table or two, the handlers as actions, and its views as
operators over the state (a view writes nothing). "absent" is a server without
the enterprise database, "down" an outage. What these handlers really do is
modelled although some of it may surprise: an update of a webhook is refused
whatever it says (text into a JSONB column), an SBOM import stores nothing (a
provider the enumeration lacks) and answers that it did, four of five asset lists
scan fewer columns than they select and stay empty, the list of frameworks drops
those with a score, tool lists and cloud accounts fail on a column or an array,
verifying an attestation that is not there answers "attested", and risks, reports
and scans of the compliance API are answered and not stored. Nothing in the
repository says otherwise of these, so they are no findings; the properties are
about what must hold nevertheless.

`AuditLog` keeps apart the columns that only the list scans and those that the export
scans too: a NULL in one of the former drops a row from the list, in one of the latter
cuts the line of the export as well. `ListEvents` is the set of answers the list may
give, the newest rows up to its limit; rows of one age come in any order. The
summary is three queries (`BeginSummary`, `GetSummary`), each of which may fail and
leave a zero. So is that of `Inventory`, of thirteen; one that a write or a failing
query falls into is followed no further (`Undisturbed`), since nothing is promised of
it. `ListAssets` takes any rows up to its limit: the order of discovery is not
modelled. Left out are other filters and a limit or offset that a client sends, and
NULLs in the column of the status; the age of an event does not change while it is
looked at.

`Webhooks` splits the test delivery into reading, calling and recording, between
which others may delete the webhook or the database may go. `ApiKeys` splits the
authentication into the read of the row and the write of "expired" or "used".
`CloudInventory` fetches page by page and service after service while resources
appear and vanish; `steady` is what was there all along, `skipped` the EKS
clusters whose description failed. `Attestations` keeps, beside the answer to the
client, what the remote service said to this call.

### QuantumRules, TargetFindings, SbomScan

Pure code, as functions without recursion. A name is the sequence of its words,
so that exact names, prefixes and contained words, which the three rule sets use,
differ. The state of `QuantumRules` is an estate of assets that is discovered and
migrated along recommendations, which relates the rule sets: what one recommends
the others must not condemn. `GenerateMigrationReport` counts safe assets twice,
so its score may exceed 100; that is modelled and no property hides it.
A hybrid name, which has a post-quantum and a classical algorithm, is detected as
post-quantum and still a risk for the scanner; `SafeForOneIsSafeForAll` leaves it out,
and TLC has one among its names. The code looks for parts of a string, the model for
words, so names that run together ("DHE", "RSA2048") are outside it.
`TargetFindings` takes what a peer offers and shows and gives the findings of
each scanner; the SSH scanner may connect twice, to a server that is reconfigured
between. `SbomScan` takes lines by kind (how one line is split is left out) and
models what relates several lines, blocks and files. The tree is what could be read:
a directory or a file that cannot is passed over by the walk without a word
(`sbom_scanner.go:42-43`), and a path that does not exist answers an error (lines
27-30). `ScanIsExact` compares the walk with what the parsers give, so what a parser
itself loses is not its matter.

### CbomOperator

`seenReport` and `seenDeployment` are the informer's cache, `SyncReport` and
`SyncDeployment` its delayed updates, `worker` the one reconcile under way with
the copy it read, `timer` the requeue after half an hour. Every call may fail
(`ServerFails`), be refused as a conflict, or find a deployment of an earlier
report of the name that is yet to be collected.

### Startup

The schema is the set of objects there are; a statement makes one and needs
others. The three programs are the OSS server, the combined server, and the
enterprise migration, which has no caller and is modelled as a tool. `CREATE TYPE`
and extensions fail or race, a statement fails during an outage, a process may
crash between any two. Objects have names and no columns, so that the two
definitions of `users` are one. The OSS server exits when its migration fails and is
started again; the combined server goes on.

## 3. Runs

Passing runs:

| Run | Bounds | Shows |
|---|---|---|
| `scan` | 1 job, a TLS and an SSH target with a finding each, 1 poller; 235,979 states | published and answered reports are complete, polls never regress, ScanService is implemented; the scan ends, the deadline bounds the non-SSH target, the poller stops |
| `stream_own` | 2 streams, ids apart, 2 stages, capacity 3 | ProgressFeed is implemented, streams end |
| `stream_shared` | 2 streams, one id, 2 stages, capacity 6 | no send on a closed channel, done means completed, sessions leave the map |
| `rate_limit` | 2 addresses, limit 2, window 2, cleanup every 3 | limit kept, BurstLimit is implemented, idle visitors go |
| `page_overlap` | 2 scans, 2 requests in flight, 2 attempts; 35,136 states | truth of "completed", a disabled button has a cause; unless a scan hangs the button returns and its polling ends |
| `services` | 14 worlds, see below; 518,453 states | 14 properties of the services beside the scans |
| `convergence` | operator: 1 name, 2 identities, 1 failing call; start-up: 2 servers, 1 crash, 1 outage; 157,038 states | nothing forgotten, reports served in the end, an OSS server serves only with its tables and does in the end |

The properties of `services`:

| World | Bounds | Property | Says |
|---|---|---|---|
| sessions | 2 addresses, 2 refreshes at once, 8 tokens, 1 restart | `SessionKeepsRights` | no chain of refreshes widens a session |
| sessions | | `RotationSpends` | a token is exchanged once per concurrent request and run of the server |
| cbom | 2 assets, 1 report, 1 event, 1 reader | `QuietMetricsTrue` | an undisturbed overview is that of the store and adds up |
| webhooks | 2 webhooks, 2 testers, 2 calls | `DeliveriesTrue` | no more records than answers of that outcome, none of a deleted webhook |
| keys | 2 keys, 2 callers | `InactiveStaysInactive` | revoked or expired keys stay so |
| audit | 2 rows, list of 1 | `AuditViewsAgree` | an answer of the list fits the export; what a summary counted was there when it began and still is |
| inventory | 2 assets, 1 detail, list of 1 | `InventoryViewsAgree` | limited and unlimited lists fit; categories partition the total of an undisturbed summary |
| compliance | 2 frameworks, 2 controls | `FrameworksShown` | a framework is in the list or on a dashboard, and keeps its score |
| cloud | 2 items per service, page size 1, 2 changes | `LiveAnswersWhole` | a live answer has what was there throughout |
| records | 1 tool, 1 edit | | modelled; each property would repeat the SQL statement it is about |
| attestations | 2 rows, 1 analysis | `IBMAnswersAreIBMs` | what is shown as IBM's, IBM answered to this call |
| rules | estates of 2 of 10 names | `SafeForOneIsSafeForAll`, `MigrationHelps` | no rule set condemns what another calls safe; a recommended step makes nothing worse |
| findings | 4 key exchange offers, 2 certificates | `SessionsJudged` | findings of a session are exactly those a definition from the protocols gives |
| sbom | trees of 2 of 12 files | `ScanIsExact` | the list has what the parsers give, each name and version once |

The world "oauth" (2 callbacks of one state) has the session properties' module
with its OAuth half; it shows that the actions of that half can happen and is
covered by the proofs.

Why these bounds are enough. Jobs share nothing but the lock, which each takes
three times and never keeps: one job shows what a run can show, and the proofs are
for any number. Two targets suffice for an order, a lost append and a failure next
to a success, and one is of each kind. Pollers do not influence each other. Two
streams are needed to share an id; the stages only differ in being last, so two of
five will do, and capacity 3 is the smallest that holds all events of one
simulator, as 64 is for five stages; capacity 6 holds those of two. A cleanup
period that is not a multiple of the window makes every phase of the two possible.
Two requests are needed for one to overtake the other. `MaxAttempts` is 40 in the
code; what matters is whether it has been reached. Two refreshes and one restart
make every way to exchange a token twice; two rows make every pair of a row and
its neighbour, a view that disagrees about any set of rows disagrees about one
or two, and two rows are already more than a list of one takes. Page size 1 makes every resource a page boundary. The estate holds names
of every shape the three rule sets tell apart, and a migration changes one asset
at a time. Rows and clients of `services` differ only in their identity, so the run,
which checks safety only, takes states up to a permutation of them. A row has a
NULL in at most one column, in the model and so in the theorems too. The trees hold a file of every parser, a package in two versions, and
locked packages with and without a neighbour in the look-ahead. One failing call, one
crash and one outage already happen at every step. The safety properties that the
proofs below cover hold for all values.

Deadlock is not checked where the system may stop: finished scans, streams, pages
and requests do nothing more, and bounds exhaust. The limiter's clock never stops,
and it is checked there.

Violations, each against something the repository states:

| Run | Property | Disagreement |
|---|---|---|
| `scan_hang` | `ScansEnd` | A silent SSH server holds a scan for ever in spite of the job's deadline of 120 s. |
| `scan_torn` | `CompletedMeansHundred` | The unlocked reads can answer "completed" with progress 30, which the page shows for good. |
| `ssh_kex` | `WeakKexWasOffered` | A server without a key exchange in common is reported as offering the weak one, which the error names because the scanner offers it. |
| `page_hang` | `PollingTimesOut` | A scan that never ends is polled for ever and the button stays disabled: `MAX_POLL_ATTEMPTS` and "polling timed out" count failed requests only. |
| `page_late` | `BadgeTrue` | Of two overlapping requests the earlier is answered after "completed": the history shows a running scan, the badge says "Ready", and no timer corrects it. |

`scan_torn` needs no reordering: it is enough that the handler loads the status
after `executeScan` has stored "completed" (`scan_manager.go:84`) and the progress
before it stores 100 (line 85).

`page_hang` has one request at a time and every request answered: the scan alone does
it, and `scan_hang` shows that the server has such scans. `page_late` needs two
requests and nothing else: neither a failure nor a restart.

Three more disagreements follow from the models and are not among the runs. A
second stream of a scan silences the first (`ScanStream` with a shared id). A
steady client under the limit is rejected, since counts restart only after a pause
(`RateLimiter`, against the limit per hour of `EDITION_COMPARISON.md`). And packages of
a `Cargo.lock` are lost although an SBOM "lists all software components"
(`BETA_PROGRAM.md:156`): name and version are looked for in the nine lines after
`[[package]]` (`SbomScan`, `Window`), and a package of the registry without dependencies
has six (block, name, version, source, checksum and a blank one), so that those of its
neighbour overwrite its own; b of `MCFiles` is such a package.

### Fairness

Weak fairness of what the Go runtime owes: a goroutine or handler that can run
does, a timer fires, and a mutex that is free again is taken (`sync.Mutex`
hands over after 1 ms of waiting). It is stated of whole goroutines
(`Execute`, `Simulate`, `Serve`, `Handle`), not of branches of a select. A dial
ends once its context has expired; before that nothing is owed. Clients and peers
owe nothing, except in `scan`, which adds that SSH servers
end their connections sooner or later (`HangUpSpec`): `scan_hang` shows that they
must. On the page, requests are answered or fail and the interval fires while it is
set. That an accepted scan is completed is not assumed: `ButtonReturns` and
`PollingEnds` except a scan that runs for ever (`Hangs`), and `page_hang` shows that
they must. Users owe nothing.

In `convergence` the operator's worker works, its cache catches up, garbage is
collected and each queued name is fetched (controller-runtime's queue is a FIFO);
users and the half-hour timer owe nothing, and calls fail finitely often. Servers
are started again when they are down, as an orchestrator does, run their
migration, and outages end; nobody has to run the tool. `services` states only
safety.

## 4. Proofs

All proofs are checked by TLAPS for every value of the constants, under the named
assumptions of the modules (`ScanAssumption`, `NilAssumption`,
`StreamAssumption`, `LimiterAssumption`, `PageAssumption`). Those of `Services` are:

* `FiniteParameters`: what is counted is finite (clients and testers under way, rows
  of the log and of the inventory, assets and the algorithms they name, resources of
  a cloud). A listing has an order, so its items are numbered; a page has at least one.
* `CodesAreNumbers`, `ScoresAreNumbers`: the columns are integers.
* `NoneIsNoRow`: the value that stands for a missing row is none of the rows.
* `NamesHaveWords`: the name of an algorithm is a sequence of words and has one at least.
* `FilesAreText`: a file is a sequence of lines, each with its kind, name and version.

Webhooks, keys, frameworks, tools, values, attestations, the names of assets and the
bounds are arbitrary. `Convergence` assumes nothing.

* **ScanManager**: `TypeCorrect`, `Invariance`, `SnapshotConsistent`,
  `PublishedComplete`, `AnsweredFinal`, `ImplementsService`, `NeverRegress`. Locked snapshots and
  complete reports are not inductive:
  one needs who holds the lock (`LockInv`), what each field holds at each stage
  before and after its pending store (`FieldInv`), that the accumulators are the
  union over the merged goroutines (`AccumulatorInv`), what a request can have
  loaded (`RequestInv`) and that an answered report is still its job's result
  (`AnswerInv`). In the refinement a target is heard when its goroutine merges and
  the report is there when the last critical section ends (`Phase`, `ReportAt`);
  `FoundInv` adds that a goroutine reports findings of its own target. The union and the cardinality of merged targets are
  lemmas; `Targets` is finite by assumption. `NeverRegress` needs `PollInv`: what a client was
  answered is at most what its request has loaded, and that at most what the job
  holds; `GrowStep` says that a job's fields only grow until a restart.
* **ScanStream**: `ClosedNeverSentTo` holds for any sharing of ids. For
  `DoneAfterCompleted` requests may share ids too, if a channel has room for the
  events of all requests of one id (`RoomForAll`, ten in the code: 64 against 6
  each). `SharedInv` says that a simulator closes a session only when "completed" is
  in it or was in it, or its client has left, and that a session has received at most
  as many events as there are pairs of a simulator attached to it and an event that
  one has sent (`Sendings`): each pair is new when it is sent, and all of them
  together fit into the channel, so "completed" is never dropped. Without the room
  it may be. For streams that share no id (`OwnScans`) and a channel with room for the
  events of one (`Roomy`) `OwnInv` says that written and buffered events are, in
  order, those sent so far; `ImplementsFeed` follows from it.
* **RateLimiter**: `CountInv` ties the map to the observer: `age` is the time
  since the last request, whoever asked within the window is in the map, and a
  count bounds the admissions seen. `LimitKept`, `PauseAlwaysRestores` and
  `ImplementsBurst` follow, for an observed stretch no longer than the window
  (`Span <= Window`). In a longer stretch more requests are admitted: the limit of
  100 or 1000 requests an hour that `EDITION_COMPARISON.md` documents is one per
  minute (`ratelimit.go:74`). The zero limit, which admits one request of a burst,
  is covered by the proofs (`Quota`).
* **ScanPage**: `PageInv` holds for any overlap: a timer, a request or an answer
  exists only for a scan that was accepted, an answer "completed" stays true, and a
  disabled button has a cause: `CompletedShown` and `ButtonCause` follow.
* **Accounts**: `AccountsInv` says that tokens are a sequence that grows, that a
  refresh under way is of one of them, and what each inherits from its login:
  user, role, the edition or none, and the permissions these give (`Inherits`).
  The component's `RightsKept` follows because no edition grants less than any
  (`NoEditionGrantsLess`). For rotation `RotationInv` adds that tokens descend
  from earlier ones (`Ordered`), so that new tokens have no children, and counts
  (`Spent`): a revoked token's children and the requests that still hold it are at
  most one per client and run of the server so far; one not revoked has only
  children of earlier runs. `RotationKept` follows. `Services_proofs` instantiates
  the lemmas of this module for both instances (`Plain`, `External`), which is
  why they are stated of steps and not of behaviours.
* **ApiKeys**: `KeyInv` says that rows have all their columns and that the key a
  call holds names a row, so that the middleware's blind write reaches one;
  `NeverRevived` follows.
* **Attestations**: `IBMsOwn` is inductive; every path from a failure to an answer
  names another provider (`OtherAnswers`).
* **Webhooks**: `DeliveriesTrue` counts and is not inductive: a test that has been
  answered and not recorded yet can still make a record. `Balance` says, of each
  webhook and status, that the records and those tests (`Unrecorded`) are together
  at most the answers; `OfLiveHooks` that a record is of a webhook that is there.
* **TargetFindings**: `JudgedAsSeen`; `FindInv` says that what is reported of a TLS server is the
  judgment of the session seen last (`Judgment`), and `SuiteLists` that the scanner's
  lists of suites and the properties of a suite say the same of each that can be agreed on.
* **AuditLog**: of the list and the export `ViewsAgree` needs no invariant: a window is
  exported line by line (`LinePerRow`, a bijection), and an answer of the list that
  leaves a row out has taken its limit of rows that are as new (`AnyAnswerFits`).
  Of a summary, whose queries events may be written between, `AuditInv` says that
  what there was when it began and what each query has counted are at most what there
  is now, and that a query counted no less than there was at the beginning: rows are
  only added (`LogGrows`). Client and server errors are disjoint parts of a window
  (`ErrorsApart`), so together at most its lines.
* **Inventory**: `InvInv` says that rows have all their columns, that details hang on an
  asset that is there and has their category, and that each query an undisturbed
  summary has made counted what is there still (`ThirteenQueries`). That categories
  partition the total is the cardinality of a union of disjoint parts; that a limited
  list is whole unless more rows match than its limit, that of a proper subset
  (`AnyListFits`).
* **ComplianceRecords**: `CompInv` says that rows have all their columns and never a
  score of zero, that a kind is there once, and that controls are in a row;
  `ListOrDashboard` follows, the parts of a dashboard being disjoint.
* **CloudInventory**: in `CloudInv` `Counted` says that what has been fetched so far
  is counted once and shows no open bucket as closed, `Listing` that the services
  before the one being listed are whole and that one is up to the cursor, and
  `WholeAnswer` that a live answer lost nothing. That the
  next page starts right behind the last item of this one, and that a listing ends
  only when nothing is left, is the hard part: a page is the first items above a
  mark. Its last item exists because the set is finite and not empty (`Max`), by the
  smallest counterexample in place of an induction.
* **CbomStore**: `CbomInv` says that assets and events belong to reports, and
  (`Undisturbed`) that what a calm reader has counted so far is still what the store
  has. That the distribution adds up to the total is a sum over the algorithms, which
  is proved by the smallest set for which it would fail.
* **CbomOperator**: `NothingForgotten` is not inductive. `Versions` says that no
  copy of a report is newer than the report, so that an update against an old copy
  is refused; `Ensured` that a status about to be written has its deployment or
  will be looked at again; `AllOwed` strengthens what is owed to what is queued,
  in the worker's hands or still to reach the cache.
* **Startup**: `Behind` says that what a process has executed is in the schema,
  which nothing is removed from; `ServesMigrated` follows for any servers and
  programs beside each other.

* **SbomScan**: the tree is a sequence of files (`SbomInv`), and that is all that is
  needed of the state; the rest is what folds over sequences compute. `DistinctIsExact`
  says that merging components into a list without doubles adds their keys and none
  twice, `WalkIsExact` the same of the walk over files, whose steps are such merges,
  and `FilesListed` that every parser answers a list. Files are text by assumption (`FilesAreText`).
* **QuantumRules**: `RuleInv` says that an asset's name was discovered or is one of the
  PQC service's safe names. `MigrationsHelp`: `OneAssetMoves` says which sets of assets
  lose or gain the migrated one; the scores follow from cardinalities and from a
  quotient being monotone (`ReportPays`), the roadmap's from a sum that does not grow
  when no summand does (`SumMonotone`). `SafeForOne` needs `SafeWords`: no word of a
  safe name is or ends with that of a classical family, and that the names of
  `Algorithms` have a word (`NamesHaveWords`; `strings.Split` returns no empty list).

The library's induction theorems take an operator, which the installed provers cannot
instantiate. Where an induction over a list or a set is needed, it is done in one of
two other ways: the smallest counterexample, which exists since < on the naturals is
well-founded; or `Climb`, the induction up to a bound for a set of numbers, which the
provers can instantiate. From `Climb` follow that a set of numbers up to n has a
greatest one and that the function of a left fold exists (`FoldExists`); a fold over a
list is then a chain of states `v[0]`, ..., `v[n]` (`InOrderSteps`, `DistinctSteps`,
`WalkSteps`, `SumSteps`), along which properties are carried by `Climb`. The model
therefore writes its loops with `FoldLeft` and `InOrder`: the provers know nothing of
`SelectSeq`, `SortSeq` and `FlattenSeq`, which the library defines by recursion.

Every safety property and every action property of a passing run is stated by a
theorem. What is only model-checked is liveness (`ScansEnd`, `ContextBoundsScan`,
`PollersStop`, `StreamEnds`, `SessionReleased`, `IdleForgotten`, `ButtonReturns`,
`PollingEnds`, `ReportsGetServed`, `OssServersSettle`), since TLAPS does
not reason about ENABLED; and of course what a run refutes is not proved.

## 5. Not modelled

* Handlers that answer constants: monitoring, Cilium and cluster views, the
  posture views of `cspm.go`, the OSS demo handlers, the demo guard.
* Code without a caller that keeps no state: `DispatchEvent`, `ListScans`,
  `SignRecord`, `ValidateQuantumSafety`, `GenerateAttestationReport`, the mock
  user store, the deprecated `RefreshToken`.
* Stateless plumbing: CORS, request ids, security headers, tracing, the tenant of a
  context, route tables, environment variables, logging; the IBM and Cilium clients
  and the mapping of fields of cloud resources; the scan of a GitHub repository, one
  synchronous chain of calls.
* Demo targets, benchmark data sets, command-line drivers, charts, manifests and
  scripts: data and configuration.
* The other pages of the web client: views of single requests.
* How one line of a manifest is split, and the wording of findings.

## 6. Plan

Done: the modules above. Still worth doing, in this order:

1. `ScanPage` over `ScanService` in place of its own reduced server.
2. Abstract specifications for `Accounts` (a session as one record with a set of
   live tokens) and for `CbomOperator` (a report that is served at once).
3. `ScanProgressStream.tsx` composed with `ScanStream`, `AuthContext.tsx` composed
   with `Accounts`.
