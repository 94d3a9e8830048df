----------------------------- MODULE CbomStore -----------------------------
(***************************************************************************)
(* The CBOM database behind the shared handlers: reports, assets, security *)
(* events, clusters, and the metrics that four separate queries compute.   *)
(* No handler creates an asset or, as their inserts are refused, an event  *)
(* or a cluster: other users of the database (Elsewhere) do.  Without a    *)
(* database the handlers answer demo data and change nothing.              *)
(***************************************************************************)
EXTENDS Naturals, FiniteSets, FiniteSetsExt

CONSTANTS Reports, Assets, Events, Algorithms, Readers, None

VARIABLES
  connected, \* the server reached its database when it started
  up,        \* the database answers now
  tenant,    \* the row of the default tenant exists
  reports,   \* reports[r]: "none", "pending" or what a client made of it
  assets,    \* assets[a]: None, or its report, algorithm and quantum_safe
  events,    \* events[e]: "none", "open" or "resolved"
  metrics,   \* metrics[c]: a metrics request and what it has read so far
  answer     \* the last answer: the handler, its status, what it is about

cbomVars == <<connected, up, tenant, reports, assets, events, metrics, answer>>

Quiet == [at |-> "idle"]
NoAnswer == [op |-> "none", code |-> 0, about |-> None]

Init ==
  /\ connected \in BOOLEAN /\ up = connected /\ tenant \in BOOLEAN
  /\ reports = [r \in Reports |-> "none"]
  /\ assets = [a \in Assets |-> None]
  /\ events = [e \in Events |-> "none"]
  /\ metrics = [c \in Readers |-> Quiet]
  /\ answer = NoAnswer

Reply(op, code, about) == answer' = [op |-> op, code |-> code, about |-> about]
StoreSame == UNCHANGED <<connected, up, tenant, reports, assets, events, metrics>>

\* A metrics request under way no longer sees one store.
Disturb == metrics' = [c \in Readers |->
             IF metrics[c] = Quiet THEN Quiet
             ELSE [metrics[c] EXCEPT !.calm = FALSE]]

\* The foreign key of assets has no cascade.
Referenced(r) == \E a \in Assets : assets[a] # None /\ assets[a].report = r
Ours(a) == assets[a] # None /\ reports[assets[a].report] # "none"

-----------------------------------------------------------------------------
\* Reports.
CreateCBOMReport(r, complete) ==
  /\ reports[r] = "none"
  /\ IF connected /\ complete /\ up /\ tenant
     THEN reports' = [reports EXCEPT ![r] = "pending"] ELSE UNCHANGED reports
  /\ Reply("create_report",
           IF ~connected THEN 201 ELSE IF ~complete THEN 400
           ELSE IF up /\ tenant THEN 201 ELSE 500, r)
  /\ UNCHANGED <<connected, up, tenant, assets, events, metrics>>

ListCBOMReports ==
  Reply("list_reports", IF connected /\ ~up THEN 500 ELSE 200,
        IF connected THEN {r \in Reports : reports[r] # "none"} ELSE {}) /\ StoreSame

\* Every error is a report that was not found.
GetCBOMReport(r) ==
  Reply("get_report", IF ~connected \/ (up /\ reports[r] # "none") THEN 200 ELSE 404, r) /\ StoreSame

\* The handler leaves the bill of materials empty, which is no JSON: the update
\* of a JSONB column is refused whether or not the report exists.
UpdateCBOMReport(r) ==
  Reply("update_report", IF connected THEN 500 ELSE 200, r) /\ StoreSame

\* A report that does not exist is deleted too.
DeleteCBOMReport(r) ==
  /\ IF connected /\ up /\ ~Referenced(r)
     THEN reports' = [reports EXCEPT ![r] = "none"] ELSE UNCHANGED reports
  /\ Reply("delete_report", IF connected /\ (~up \/ Referenced(r)) THEN 500 ELSE 200, r)
  /\ UNCHANGED <<connected, up, tenant, assets, events, metrics>>

-----------------------------------------------------------------------------
\* Assets, events and clusters.
ListCryptoAssets(r) ==
  Reply("list_assets",
        IF ~connected THEN 200 ELSE IF r = None THEN 400 ELSE IF up THEN 200 ELSE 500,
        IF connected /\ up THEN {a \in Assets : assets[a] # None /\ assets[a].report = r} ELSE {})
  /\ StoreSame
GetCryptoAsset(a) ==
  Reply("get_asset", IF ~connected \/ (up /\ assets[a] # None) THEN 200 ELSE 404, a) /\ StoreSame

\* The next three hand over empty metadata, which a JSONB column refuses.
UpdateCryptoAsset(a) ==
  Reply("update_asset", IF connected THEN 500 ELSE 200, a) /\ StoreSame
CreateSecurityEvent(complete) ==
  Reply("create_event", IF ~connected THEN 201 ELSE IF complete THEN 500 ELSE 400, None) /\ StoreSame
AddKubernetesCluster(complete) ==
  Reply("add_cluster", IF ~connected THEN 201 ELSE IF complete THEN 500 ELSE 400, None) /\ StoreSame

ListSecurityEvents ==
  Reply("list_events", IF connected /\ ~up THEN 500 ELSE 200,
        IF connected THEN {e \in Events : events[e] # "none"} ELSE {}) /\ StoreSame
ResolveSecurityEvent(e) ==
  /\ IF connected /\ up /\ events[e] # "none"
     THEN events' = [events EXCEPT ![e] = "resolved"] /\ Disturb ELSE UNCHANGED <<events, metrics>>
  /\ Reply("resolve_event",
           IF ~connected THEN 200 ELSE IF ~up THEN 500 ELSE IF events[e] # "none" THEN 200 ELSE 404, e)
  /\ UNCHANGED <<connected, up, tenant, reports, assets>>

-----------------------------------------------------------------------------
\* Metrics: four queries, each of the store as it is by then.
Total == Cardinality({a \in Assets : Ours(a)})
SafeTotal == Cardinality({a \in Assets : Ours(a) /\ assets[a].safe})
OpenEvents == Cardinality({e \in Events : events[e] = "open"})
Distribution == [g \in Algorithms |-> Cardinality({a \in Assets : Ours(a) /\ assets[a].algorithm = g})]

\* In tenths of a percent; an empty store scores 85.5.
Score(safe, total) == IF total > 0 THEN (1000 * safe) \div total ELSE 855

\* calm: nothing has been written since the request began.
StartMetrics(c) ==
  /\ connected /\ metrics[c] = Quiet
  /\ metrics' = [metrics EXCEPT ![c] = [at |-> "total", calm |-> TRUE]]
  /\ UNCHANGED <<connected, up, tenant, reports, assets, events, answer>>
CountTotal(c) ==
  /\ metrics[c].at = "total" /\ up
  /\ metrics' = [metrics EXCEPT ![c] = [at |-> "safe", calm |-> @.calm, total |-> Total]]
  /\ UNCHANGED <<connected, up, tenant, reports, assets, events, answer>>
\* Fault: safe assets of deleted reports are counted too.
CountSafeUnjoined(c) ==
  /\ metrics[c].at = "safe" /\ up
  /\ metrics' = [metrics EXCEPT ![c] = [at |-> "open", calm |-> @.calm, total |-> @.total,
       safe |-> Cardinality({a \in Assets : assets[a] # None})]]
  /\ UNCHANGED <<connected, up, tenant, reports, assets, events, answer>>
CountSafe(c) ==
  /\ metrics[c].at = "safe" /\ up
  /\ metrics' = [metrics EXCEPT ![c] = [at |-> "open", calm |-> @.calm, total |-> @.total,
                                        safe |-> SafeTotal]]
  /\ UNCHANGED <<connected, up, tenant, reports, assets, events, answer>>
CountOpen(c) ==
  /\ metrics[c].at = "open" /\ up
  /\ metrics' = [metrics EXCEPT ![c] = [at |-> "group", calm |-> @.calm, total |-> @.total,
                                        safe |-> @.safe, open |-> OpenEvents]]
  /\ UNCHANGED <<connected, up, tenant, reports, assets, events, answer>>
GroupByAlgorithm(c) ==
  /\ metrics[c].at = "group" /\ up
  /\ LET m == metrics[c]
     IN  Reply("metrics", 200, [calm |-> m.calm, total |-> m.total, safe |-> m.safe, open |-> m.open,
                                algorithms |-> Distribution, score |-> Score(m.safe, m.total)])
  /\ metrics' = [metrics EXCEPT ![c] = Quiet]
  /\ UNCHANGED <<connected, up, tenant, reports, assets, events>>
\* An error at any query: the dashboard and the overview answer a perfect score,
\* the compliance status a zero, all with status 200.
MetricsFail(c, handler) ==
  /\ metrics[c].at \in {"total", "safe", "open", "group"} /\ ~up
  /\ metrics' = [metrics EXCEPT ![c] = Quiet]
  /\ Reply(handler, 200, IF handler = "compliance" THEN 0 ELSE 1000)
  /\ UNCHANGED <<connected, up, tenant, reports, assets, events>>

-----------------------------------------------------------------------------
\* Other users of the same database, and the database itself.
Elsewhere ==
  /\ connected /\ up
  /\ \/ \E a \in Assets, r \in Reports, g \in Algorithms, s \in BOOLEAN :
          /\ assets[a] = None /\ reports[r] # "none"
          /\ assets' = [assets EXCEPT ![a] = [report |-> r, algorithm |-> g, safe |-> s]]
          /\ UNCHANGED events
     \/ \E a \in Assets : assets[a] # None /\ assets' = [assets EXCEPT ![a] = None] /\ UNCHANGED events
     \/ \E e \in Events : /\ tenant /\ events[e] = "none"
                          /\ events' = [events EXCEPT ![e] = "open"] /\ UNCHANGED assets
  /\ Disturb
  /\ UNCHANGED <<connected, up, tenant, reports, answer>>
Outage == connected /\ up' = ~up /\ UNCHANGED <<connected, tenant, reports, assets, events, metrics, answer>>

Handlers ==
  \/ \E r \in Reports, complete \in BOOLEAN : CreateCBOMReport(r, complete)
  \/ \E r \in Reports : GetCBOMReport(r) \/ UpdateCBOMReport(r) \/ DeleteCBOMReport(r)
  \/ ListCBOMReports \/ ListSecurityEvents
  \/ \E r \in Reports \cup {None} : ListCryptoAssets(r)
  \/ \E a \in Assets : GetCryptoAsset(a) \/ UpdateCryptoAsset(a)
  \/ \E complete \in BOOLEAN : CreateSecurityEvent(complete) \/ AddKubernetesCluster(complete)
  \/ \E e \in Events : ResolveSecurityEvent(e)
MetricsNext ==
  \E c \in Readers : StartMetrics(c) \/ CountTotal(c) \/ CountSafe(c) \/ CountOpen(c)
    \/ GroupByAlgorithm(c) \/ (\E h \in {"dashboard", "overview", "compliance"} : MetricsFail(c, h))
Next == Handlers \/ MetricsNext \/ Elsewhere \/ Outage

Spec == Init /\ [][Next]_cbomVars

(* The overview is put together from four queries outside a transaction: if  *)
(* nothing was written meanwhile it describes the store, its score is that   *)
(* of its own counts, and its distribution adds up to its total.             *)
TrueIfCalm ==
  answer'.op = "metrics" /\ answer' # answer =>
     LET m == answer'.about
     IN  m.calm =>
           /\ m.total = Total /\ m.safe = SafeTotal /\ m.open = OpenEvents
           /\ m.safe <= m.total /\ m.score = (IF Total = 0 THEN 855 ELSE (1000 * SafeTotal) \div Total)
           /\ m.total = MapThenSumSet(LAMBDA g : m.algorithms[g], Algorithms)
QuietMetricsTrue == [][TrueIfCalm]_cbomVars
=============================================================================
