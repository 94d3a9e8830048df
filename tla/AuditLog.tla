------------------------------ MODULE AuditLog ------------------------------
(***************************************************************************)
(* The audit trail: the middleware that writes an event per request into   *)
(* the main database, and the viewer that reads the table of the same name *)
(* in the enterprise database.  Both may be one database.  Rows are only   *)
(* ever added.                                                             *)
(***************************************************************************)
EXTENDS Naturals, SequencesExt, FiniteSets

CONSTANTS
  Rows, NoRow, \* identities of rows
  Tenants, Statuses, Ages,   \* values of their columns; an age is in days
  Asked,     \* the numbers of days clients ask for
  ListLimit, \* the LIMIT of the list
  MaxServed  \* bound

VARIABLES
  mainDb,    \* the server has a main database
  table,     \* table[i]: NoRow or the columns of an audit event
  served,    \* how many requests were answered so far
  summary    \* NoRow or the last request for a summary, its queries and counts

auditVars == <<mainDb, table, served, summary>>

\* A column that only list and event are scanned from, and one that the export is
\* scanned from as well; both may be NULL.
Nullable == {"user_agent", "actor_id"}
ListColumns == {"user_agent", "actor_id"}
ExportColumns == {"actor_id"}

Event(tenant, type, status, age, nulls) ==
  [tenant |-> tenant, type |-> type, status |-> status, age |-> age, nulls |-> nulls]

Init ==
  /\ mainDb \in BOOLEAN
  /\ table = [i \in Rows |-> NoRow]
  /\ served = 0 /\ summary = NoRow

-----------------------------------------------------------------------------
EventType(status) == IF status >= 500 THEN "server_error"
                     ELSE IF status >= 400 THEN "client_error" ELSE "request"

\* The column is a UUID: the empty tenant the middleware passes is refused.
IsUuid(tenant) == tenant # ""
InsertAuditEvent(tenant, status) ==
  IF mainDb /\ IsUuid(tenant)
  THEN \E i \in Rows : /\ table[i] = NoRow
                       /\ table' = [table EXCEPT ![i] = Event(tenant, EventType(status), status, 0, {})]
  ELSE UNCHANGED table

\* The event is written after the answer, and the error ignored.
Serve(status) ==
  /\ served < MaxServed /\ served' = served + 1
  /\ InsertAuditEvent("", status)
  /\ UNCHANGED <<mainDb, summary>>

\* Rows somebody else wrote, some with a column that is NULL.
WrittenElsewhere ==
  /\ \E i \in Rows, tenant \in Tenants, status \in Statuses, age \in Ages,
       nulls \in {{}} \cup {{c} : c \in Nullable} :
       /\ table[i] = NoRow
       /\ table' = [table EXCEPT ![i] = Event(tenant, EventType(status), status, age, nulls)]
  /\ UNCHANGED <<mainDb, served, summary>>

-----------------------------------------------------------------------------
\* The viewer.  A window of n days holds the rows of at most that age.
Within(tenant, days) ==
  {i \in Rows : table[i] # NoRow /\ table[i].tenant = tenant /\ table[i].age <= days}

\* The newest rows of the window, up to the limit; of one age the database may
\* choose.  Those with a NULL are skipped: the answers the list may give.
Newest(tenant, days) ==
  LET in == Within(tenant, days)
  IN  {T \in SUBSET in :
         /\ Cardinality(T) <= ListLimit
         /\ T = in \/ Cardinality(T) = ListLimit
         /\ \A i \in T, j \in in \ T : table[i].age <= table[j].age}
Scannable(i) == table[i].nulls \cap ListColumns = {}
ListEvents(tenant, days) == {{i \in T : Scannable(i)} : T \in Newest(tenant, days)}
GetEvent(i) == IF table[i] # NoRow /\ Scannable(i) THEN 200 ELSE 404

\* Fault: the widest export is a month.
ExportDaysMonth(days) == IF days <= 0 \/ days > 30 THEN 7 ELSE days
ExportDays(days) == IF days <= 0 \/ days > 365 THEN 7 ELSE days
\* A line is cut at the first of its columns that is NULL.
ExportEvents(tenant, days) ==
  {[row |-> i, cut |-> table[i].nulls \cap ExportColumns # {}] : i \in Within(tenant, ExportDays(days))}

\* The summary asks for all rows, those of clients' errors and those of the server's.
Counted == <<"total", "errors_4xx", "errors_5xx">>
Matches(status, query) ==
  \/ query = "total"
  \/ query = "errors_4xx" /\ status \in 400 .. 499
  \/ query = "errors_5xx" /\ status >= 500
Count(tenant, days, query) ==
  Cardinality({i \in Within(tenant, days) : Matches(table[i].status, query)})

\* `before` is what there was when the request began: not in the code.
BeginSummary(tenant, days) ==
  /\ summary # NoRow => summary.next > Len(Counted)
  /\ summary' = [tenant |-> tenant, days |-> days, next |-> 1,
                 counts |-> [q \in ToSet(Counted) |-> 0], failed |-> {},
                 before |-> [q \in ToSet(Counted) |-> Count(tenant, days, q)]]
  /\ UNCHANGED <<mainDb, table, served>>
\* Three queries one after the other; one that fails leaves its zero.
GetSummary ==
  /\ summary # NoRow /\ summary.next <= Len(Counted)
  /\ LET query == Counted[summary.next]
         found == Count(summary.tenant, summary.days, query)
     IN  \/ summary' = [summary EXCEPT !.next = @ + 1, !.counts = [@ EXCEPT ![query] = found]]
         \/ summary' = [summary EXCEPT !.next = @ + 1, !.failed = @ \cup {query}]
  /\ UNCHANGED <<mainDb, table, served>>

Next ==
  \/ \E status \in Statuses : Serve(status)
  \/ WrittenElsewhere
  \/ \E tenant \in Tenants, days \in Asked : BeginSummary(tenant, days)
  \/ GetSummary
Spec == Init /\ [][Next]_auditVars

-----------------------------------------------------------------------------
\* Every row an answer lists is a whole line of the export and can be fetched.  A
\* line that is missing has a NULL, or as many others are as new as the list takes.
ListFits(tenant, days, listed) ==
  LET lines == ExportEvents(tenant, days)
  IN  /\ Cardinality(listed) <= ListLimit
      /\ \A i \in listed : [row |-> i, cut |-> FALSE] \in lines /\ GetEvent(i) = 200
      /\ \A l \in lines : l.row \notin listed =>
           \/ ~Scannable(l.row)
           \/ Cardinality({j \in Within(tenant, days) \ {l.row} : table[j].age <= table[l.row].age})
                >= ListLimit

\* What a query counted was there when the request began, and still is; so the
\* errors, counted at different times, are lines of an export of that window.
SummaryFits ==
  /\ \A k \in 1 .. Len(Counted) : k < summary.next /\ Counted[k] \notin summary.failed =>
       LET q == Counted[k]
       IN  summary.before[q] <= summary.counts[q]
             /\ summary.counts[q] <= Count(summary.tenant, summary.days, q)
  /\ summary.days \in 1 .. 365 =>
       summary.counts["errors_4xx"] + summary.counts["errors_5xx"]
         <= Cardinality(ExportEvents(summary.tenant, summary.days))

(* The three views of a window agree, although they differ in the columns    *)
(* they scan, in what they do with a NULL, in how many rows they take and    *)
(* in how often they look: each answer of the list fits the export, and so   *)
(* do the counts of a summary, whatever is written between its queries.      *)
AuditViewsAgree ==
  /\ \A tenant \in Tenants, days \in Asked \cap 1 .. 365 :
       \A listed \in ListEvents(tenant, days) : ListFits(tenant, days, listed)
  /\ summary # NoRow => SummaryFits
=============================================================================
