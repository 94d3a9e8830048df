-------------------------- MODULE CloudInventory ---------------------------
(***************************************************************************)
(* The live inventories of the multicloud API.  A request builds the SDK   *)
(* clients the environment configures and lists the provider's services    *)
(* one after the other, page by page, while the cloud changes.  An error   *)
(* of any listing, or nothing listed, is answered with demo resources.     *)
(***************************************************************************)
EXTENDS Naturals, Sequences, FiniteSets, FiniteSetsExt

CONSTANTS
  Items,       \* resources of a service; the listings are ordered by them
  PageSize,    \* of a listing; 100 in the code
  MaxChanges   \* bound on the changes of the cloud

VARIABLES
  cloud,    \* cloud[s]: the resources of a service
  blocked,  \* the buckets whose public access is blocked
  steady,   \* steady[s]: those that have been there since the request began
  skipped,  \* clusters whose description failed
  fetch,    \* the request: provider, stage, cursor, what it found, its answer
  changes

inventoryVars == <<cloud, blocked, steady, skipped, fetch, changes>>

Providers == {"aws", "gcp", "azure", "ibm_cloud"}
Services(p) ==
  CASE p = "aws" -> <<"ec2", "s3", "rds", "eks">>
    [] p = "gcp" -> <<"compute", "storage", "gke">>
    [] p = "azure" -> <<"virtual_machines", "storage_accounts", "aks">>
    [] p = "ibm_cloud" -> <<>>
AllServices == UNION {{Services(p)[i] : i \in DOMAIN Services(p)} : p \in Providers}
\* Listed by one call: the buckets and the GKE clusters whole, the EKS
\* clusters only as far as the first page goes.
OneCall == {"s3", "gke", "eks"}

Quiet == [provider |-> "none", stage |-> 0, cursor |-> 0, found |-> {}, open |-> {}, total |-> 0,
          source |-> "none"]

Init ==
  /\ cloud \in {[s \in AllServices |-> Items], [s \in AllServices |-> {}]}
  /\ blocked \in {{}, Items}
  /\ steady = cloud /\ skipped = {}
  /\ fetch = Quiet /\ changes = 0

-----------------------------------------------------------------------------
Upto(s, n) == {i \in s : Cardinality({j \in s : j <= i}) <= n}
After(s, cursor) == {i \in cloud[s] : i > cursor}
\* Fault: the token of the next page is not followed.
NextPageFirst(s, cursor) ==
  [items |-> Upto(After(s, cursor), IF s \in {"s3", "gke"} THEN Cardinality(Items) ELSE PageSize),
   more |-> FALSE]
\* A page of a listing and whether there is another.
NextPage(s, cursor) ==
  LET items == Upto(After(s, cursor), IF s \in {"s3", "gke"} THEN Cardinality(Items) ELSE PageSize)
  IN  [items |-> items, more |-> s \notin OneCall /\ items # After(s, cursor)]

\* Whether the bucket is shown as public: also when its block cannot be read.
InspectBucket(b, failed) == failed \/ b \notin blocked

Service == Services(fetch.provider)[fetch.stage]
Answer(f, source) == [f EXCEPT !.source = source, !.stage = 0, !.cursor = 0]
\* The request goes on, with the next service or with the answer.
Proceed(f) ==
  IF f.stage < Len(Services(f.provider)) THEN [f EXCEPT !.stage = @ + 1, !.cursor = 0]
  ELSE Answer(f, IF f.total = 0 THEN "demo" ELSE "live")

\* configured: the clients could be built from the environment; without them
\* nothing is listed.  IBM Cloud is answered without any listing.
Begin(p, configured) ==
  LET f == [Quiet EXCEPT !.provider = p, !.stage = 1]
  IN  /\ fetch.stage = 0 /\ fetch.source = "none"
      /\ fetch' = IF configured /\ p # "ibm_cloud" THEN f ELSE Answer(f, "demo")
      /\ steady' = cloud /\ skipped' = {}
      /\ UNCHANGED <<cloud, blocked, changes>>

ListPage ==
  /\ fetch.stage > 0
  /\ LET page == NextPage(Service, fetch.cursor)
     IN  \E failed \in IF Service \in {"s3", "eks"} THEN SUBSET page.items ELSE {{}} :
           LET listed == IF Service = "eks" THEN page.items \ failed ELSE page.items
               f == [fetch EXCEPT
                      !.found = @ \cup {<<Service, i>> : i \in listed},
                      !.open = @ \cup IF Service = "s3"
                                      THEN {i \in listed : InspectBucket(i, i \in failed)} ELSE {},
                      !.total = @ + Cardinality(listed),
                      !.cursor = IF page.items = {} THEN @ ELSE Max(page.items)]
           IN  /\ fetch' = IF page.more THEN f ELSE Proceed(f)
               /\ skipped' = IF Service = "eks" THEN failed ELSE skipped
  /\ UNCHANGED <<cloud, blocked, steady, changes>>

\* A listing fails, or the client of the service could not be built.
ListFails ==
  /\ fetch.stage > 0
  /\ fetch' = Answer([fetch EXCEPT !.found = {}, !.open = {}, !.total = 0], "demo")
  /\ UNCHANGED <<cloud, blocked, steady, skipped, changes>>

\* The answer is received, and the client asks anew.
Received ==
  /\ fetch.stage = 0 /\ fetch.source # "none"
  /\ fetch' = Quiet /\ steady' = cloud /\ skipped' = {}
  /\ UNCHANGED <<cloud, blocked, changes>>

CloudChanges ==
  /\ fetch.stage > 0 /\ changes < MaxChanges /\ changes' = changes + 1
  /\ \E n \in DOMAIN Services(fetch.provider), i \in Items :
        LET s == Services(fetch.provider)[n] IN
          /\ cloud' = [cloud EXCEPT ![s] = IF i \in @ THEN @ \ {i} ELSE @ \cup {i}]
          /\ steady' = [steady EXCEPT ![s] = @ \ {i}]
  /\ UNCHANGED <<blocked, skipped, fetch>>

Next ==
  \/ \E p \in Providers, configured \in BOOLEAN : Begin(p, configured)
  \/ ListPage \/ ListFails \/ Received \/ CloudChanges
Spec == Init /\ [][Next]_inventoryVars

-----------------------------------------------------------------------------
(* A live answer is whole, however the cloud changed while the services were *)
(* listed one after the other (cloud_sdk.go, the clients' paging): it holds   *)
(* every resource that was there throughout, but for the EKS clusters whose   *)
(* description failed or that the first page does not reach, its total is    *)
(* what it lists, and no bucket looks less public than it is.                *)
LiveAnswersWhole ==
  fetch.source = "live" =>
    /\ fetch.total = Cardinality(fetch.found)
    /\ \A n \in DOMAIN Services(fetch.provider) :
         LET s == Services(fetch.provider)[n]
             listed == {i \in Items : <<s, i>> \in fetch.found}
         IN  IF s = "eks" THEN Cardinality(listed) + Cardinality(skipped) <= PageSize
             ELSE steady[s] \subseteq listed
    /\ \A i \in Items : <<"s3", i>> \in fetch.found /\ i \notin blocked => i \in fetch.open
=============================================================================
