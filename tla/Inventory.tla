----------------------------- MODULE Inventory -----------------------------
(***************************************************************************)
(* The enterprise inventory: assets with a category and a provider, the    *)
(* details that hang on them by a foreign key, the lists, the summary and  *)
(* the SBOM import.  Without the enterprise database the guarded handlers  *)
(* answer demo data and the others panic into a 500.  Rows others wrote    *)
(* may hold NULLs, which the lists cannot scan and drop.                   *)
(***************************************************************************)
EXTENDS Naturals, Sequences, FiniteSets

CONSTANTS
  Assets, NoAsset,
  Names,        \* asset_id, unique with the category
  ListLimit,    \* the default LIMIT of the list
  MaxDetails    \* bound

VARIABLES
  invUp,     \* the enterprise database: "absent", "up" or "down"
  assets,    \* assets[a]: NoAsset or its row
  details,   \* rows of the detail tables: of which asset, in which table, what
  invAnswer, \* the last answer: status, how much it claims
  summary    \* NoAsset or a request for the summary: how many queries it has made, their counts

invVars == <<invUp, assets, details, invAnswer, summary>>

Categories == {"cryptographic", "ai", "hardware", "software", "infrastructure"}
Providers == {"aws", "gcp", "ibm_cloud", "azure", "on_premise"}
\* What clients send, among it what the enumerations of the schema lack.
SentCategories == {"software", "network"}
OtherCategories == {"cryptographic", "infrastructure"}
SentProviders == {"aws", "on_premise", ""}

\* The rows of the table; of those that others wrote "null" stands for no provider.
Rows ==
  {r \in [name : Names, category : Categories, provider : Providers \cup {"null"}, nulls : BOOLEAN] :
     r.provider = "null" => r.nulls}

Init ==
  /\ invUp \in {"absent", "up"}
  /\ assets = [a \in Assets |-> NoAsset] /\ details = {}
  /\ invAnswer = [code |-> 0, claims |-> 0]
  /\ summary = NoAsset

Reply(code, claims) == invAnswer' = [code |-> code, claims |-> claims]
Row(name, category, provider, nulls) ==
  [name |-> name, category |-> category, provider |-> provider, nulls |-> nulls]
Taken(name, category) ==
  \E b \in Assets : assets[b] # NoAsset /\ assets[b].name = name /\ assets[b].category = category

-----------------------------------------------------------------------------
CreateAsset(a, name, category, provider) ==
  LET stored == invUp = "up" /\ category \in Categories /\ provider \in Providers
                  /\ ~Taken(name, category)
  IN  /\ assets[a] = NoAsset
      /\ assets' = IF stored THEN [assets EXCEPT ![a] = Row(name, category, provider, FALSE)]
                   ELSE assets
      /\ Reply(IF stored THEN 201 ELSE 500, 0)
      /\ UNCHANGED <<invUp, details>>

\* Replaces every column but the category; an asset that is not there is
\* updated as well, and no NULL is left but in columns that may be scanned.
UpdateAsset(a, provider) ==
  LET accepted == invUp = "up" /\ provider \in Providers
  IN  /\ assets' = IF accepted /\ assets[a] # NoAsset
                   THEN [assets EXCEPT ![a].provider = provider, ![a].nulls = FALSE]
                   ELSE assets
      /\ Reply(IF accepted THEN 200 ELSE 500, 0)
      /\ UNCHANGED <<invUp, details>>

\* The details have no cascade.
DeleteAsset(a) ==
  LET accepted == invUp = "up" /\ ~\E d \in details : d.asset = a
  IN  /\ assets' = IF accepted THEN [assets EXCEPT ![a] = NoAsset] ELSE assets
      /\ Reply(IF accepted THEN 200 ELSE 500, 0)
      /\ UNCHANGED <<invUp, details>>

\* The driver has no conversion for the slices among the columns.
RegisterAIModel(a) == Reply(500, 0) /\ UNCHANGED <<invUp, assets, details>>

\* Answer, and start nothing.
ScanCryptoAssets == Reply(200, 0) /\ UNCHANGED <<invUp, assets, details>>
DiscoverHardware == Reply(200, 0) /\ UNCHANGED <<invUp, assets, details>>
SyncInfrastructure == Reply(200, 0) /\ UNCHANGED <<invUp, assets, details>>
ExportInventory == Reply(200, 0) /\ UNCHANGED <<invUp, assets, details>>

\* found: the components of the path, none if it cannot be read; three of the
\* handler's own without a path.  The provider the handler writes is not one of
\* the enumeration, so no insert succeeds, and their errors are ignored.
ImportProvider == "on_prem"
ImportSBOM(found) ==
  /\ LET free == {a \in Assets : assets[a] = NoAsset}
     IN  IF invUp = "up" /\ ImportProvider \in Providers /\ free # {} /\ found > 0
         THEN \E a \in free, name \in Names :
                assets' = [assets EXCEPT ![a] = Row(name, "software", ImportProvider, TRUE)]
         ELSE UNCHANGED assets
  /\ Reply(200, found)
  /\ UNCHANGED <<invUp, details>>

\* Other writers of the database.
Elsewhere ==
  /\ invUp = "up"
  /\ \/ \E a \in Assets, name \in Names, category \in OtherCategories, provider \in {"aws", "null"},
           nulls \in BOOLEAN :
          /\ assets[a] = NoAsset /\ ~Taken(name, category) /\ (provider = "null" => nulls)
          /\ assets' = [assets EXCEPT ![a] = Row(name, category, provider, nulls)]
          /\ UNCHANGED details
     \/ \E a \in Assets, safe \in {"yes", "no", "null"}, high \in BOOLEAN :
          /\ assets[a] # NoAsset /\ Cardinality(details) < MaxDetails
          /\ details' = details \cup {[asset |-> a, table |-> assets[a].category, safe |-> safe, high |-> high]}
          /\ UNCHANGED assets
     \/ \E d \in details : details' = details \ {d} /\ UNCHANGED assets
  /\ UNCHANGED <<invUp, invAnswer>>
InvOutage ==
  /\ invUp # "absent" /\ invUp' = IF invUp = "up" THEN "down" ELSE "up"
  /\ UNCHANGED <<assets, details, invAnswer>>

Operation ==
  \/ \E a \in Assets, name \in Names, category \in SentCategories, provider \in SentProviders :
        CreateAsset(a, name, category, provider)
  \/ \E a \in Assets, provider \in SentProviders : UpdateAsset(a, provider)
  \/ \E a \in Assets : DeleteAsset(a) \/ RegisterAIModel(a)
  \/ ScanCryptoAssets \/ DiscoverHardware \/ SyncInfrastructure \/ ExportInventory
  \/ \E found \in {0, 3} : ImportSBOM(found)
  \/ Elsewhere \/ InvOutage
\* A request for the summary that a write falls into counts some of it before and
\* some of it after: it is followed no further.
Undisturbed == summary' = IF UNCHANGED <<assets, details>> THEN summary ELSE NoAsset

-----------------------------------------------------------------------------
\* The summary: a query for each of these, one after the other.
\* Fault: a category is forgotten.
SummaryQueriesShort ==
  <<"total", "cryptographic", "ai", "hardware", "software", "aws", "gcp", "ibm_cloud", "azure",
    "safe", "unsafe", "vulnerable">>
SummaryQueries ==
  <<"total", "cryptographic", "ai", "hardware", "software", "infrastructure",
    "aws", "gcp", "ibm_cloud", "azure", "safe", "unsafe", "vulnerable">>
SummaryProviders == {"aws", "gcp", "ibm_cloud", "azure"}

Present == {a \in Assets : assets[a] # NoAsset}
CountedAssets(query) ==
  {a \in Present : query \in {"total", assets[a].category, assets[a].provider}}
CountedDetails(query) ==
  {d \in details : /\ d.table = "cryptographic"
                   /\ \/ query = "safe" /\ d.safe = "yes"
                      \/ query = "unsafe" /\ d.safe = "no"
                      \/ query = "vulnerable" /\ d.high}
Count(query) ==
  Cardinality(IF query \in {"safe", "unsafe", "vulnerable"} THEN CountedDetails(query)
              ELSE CountedAssets(query))

\* Without a database the handler panics.
BeginSummary ==
  /\ invUp # "absent" /\ summary = NoAsset
  /\ summary' = [made |-> 0,
                 counts |-> [q \in {"total", "safe", "unsafe", "vulnerable"} \cup Categories
                                     \cup SummaryProviders |-> 0]]
  /\ UNCHANGED <<invUp, assets, details, invAnswer>>
\* Errors are ignored: a query that fails leaves a zero in the answer, which then
\* is not looked at.
GetInventorySummary ==
  /\ summary # NoAsset /\ summary.made < Len(SummaryQueries)
  /\ LET query == SummaryQueries[summary.made + 1]
     IN  \/ /\ invUp = "up"
            /\ summary' = [summary EXCEPT !.made = @ + 1, !.counts[query] = Count(query)]
         \/ summary' = NoAsset
  /\ UNCHANGED <<invUp, assets, details, invAnswer>>

Next == (Operation /\ Undisturbed) \/ BeginSummary \/ GetInventorySummary
Spec == Init /\ [][Next]_invVars

-----------------------------------------------------------------------------
\* What the lists say of one state of the database.
Matching(category, provider) ==
  {a \in Present : /\ category # "" => assets[a].category = category
                   /\ provider # "" => assets[a].provider = provider}
Scannable(a) == ~assets[a].nulls
\* As many rows as the limit allows, the last discovered; when they were is not
\* modelled, so any may be.  Those with a NULL are dropped from them.
ListAssets(category, provider) ==
  LET rows == Matching(category, provider)
  IN  {{a \in T : Scannable(a)} :
         T \in {U \in SUBSET rows : /\ Cardinality(U) <= ListLimit
                                    /\ U = rows \/ Cardinality(U) = ListLimit}}
GetAsset(a) == IF a \in Present /\ Scannable(a) THEN 200 ELSE 404
\* These two have no limit.
ListAssetsByCategory(category) == {a \in Matching(category, "") : Scannable(a)}
ListAssetsByCloudProvider(provider) == {a \in Matching("", provider) : Scannable(a)}
\* A row is listed when the handler scans as many columns as its query selects;
\* four of the five select all of a table and some of the asset's.
Scanned(table, selected, fields) ==
  IF selected = fields THEN {d \in details : d.table = table} ELSE {}
ListCryptoAssets == Scanned("cryptographic", 15 + 3, 12)
ListAIAssets == Scanned("ai", 18 + 2, 15)
ListHardwareAssets == Scanned("hardware", 16 + 2, 14)
ListSoftwareAssets == Scanned("software", 17 + 2, 14)
ListInfrastructureAssets == Scanned("infrastructure", 13, 13)

\* An answer of the list has what the lists without a limit have in common, all of
\* it unless more rows match than the limit allows; and what it has can be fetched.
ListFits(category, provider, listed) ==
  LET of == UNION {ListAssetsByCategory(c) : c \in IF category = "" THEN Categories ELSE {category}}
      from == UNION {ListAssetsByCloudProvider(p) : p \in IF provider = "" THEN Providers ELSE {provider}}
  IN  /\ listed \subseteq of \cap from
      /\ listed = of \cap from \/ Cardinality(Matching(category, provider)) > ListLimit
      /\ \A a \in listed : GetAsset(a) = 200

SummaryFits ==
  LET counts == summary.counts
  IN  /\ counts["total"] = counts["cryptographic"] + counts["ai"] + counts["hardware"]
                           + counts["software"] + counts["infrastructure"]
      /\ \A p \in SummaryProviders :
           Cardinality(ListAssetsByCloudProvider(p)) <= counts[p]
      /\ counts["safe"] + counts["unsafe"] + counts["vulnerable"] > 0 => counts["cryptographic"] > 0

(* What the summary counts and what the lists show fit together, whatever    *)
(* was created, updated and deleted by whom.  An answer of the list fits     *)
(* those of a category or provider; a listed detail is one of an asset of    *)
(* its category.  Of a summary with no write and no error since it began the *)
(* categories partition the total, a provider has at least the assets listed *)
(* for it, and what is counted as safe, unsafe or vulnerable belongs to a    *)
(* cryptographic asset.                                                      *)
InventoryViewsAgree ==
  /\ \A category \in Categories \cup {""}, provider \in Providers \cup {""} :
       \A listed \in ListAssets(category, provider) : ListFits(category, provider, listed)
  /\ \A d \in ListCryptoAssets \cup ListAIAssets \cup ListHardwareAssets
                \cup ListSoftwareAssets \cup ListInfrastructureAssets :
       d.asset \in Present /\ assets[d.asset].category = d.table
  /\ summary # NoAsset => (summary.made = Len(SummaryQueries) => SummaryFits)
=============================================================================
