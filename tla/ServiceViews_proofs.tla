------------------------ MODULE ServiceViews_proofs -------------------------
(* Proofs about the services of Services that answer with a view of several  *)
(* tables or listings: what they count adds up and what they list is whole,  *)
(* for any values of the constants.                                          *)
EXTENDS Services, FiniteSetTheorems, FunctionTheorems, TLAPS

(* No step changes what a behaviour is about. *)
LEMMA WorldStays == [Next]_serviceVars => world' = world
BY DEF Next, Others, serviceVars

(* Disjoint parts of a finite set have no more elements than the set. *)
LEMMA TwoParts ==
  ASSUME NEW S, IsFiniteSet(S), NEW A \in SUBSET S, NEW B \in SUBSET S, A \cap B = {}
  PROVE  /\ IsFiniteSet(A) /\ IsFiniteSet(B) /\ IsFiniteSet(A \cup B)
         /\ Cardinality(A) \in Nat /\ Cardinality(B) \in Nat /\ Cardinality(S) \in Nat
         /\ Cardinality(A \cup B) = Cardinality(A) + Cardinality(B)
         /\ Cardinality(A) + Cardinality(B) <= Cardinality(S)
<1>1. IsFiniteSet(A) /\ IsFiniteSet(B)
  BY FS_Subset
<1>2. Cardinality(A) \in Nat /\ Cardinality(B) \in Nat /\ Cardinality(S) \in Nat
  BY <1>1, FS_CardinalityType
<1>3. /\ IsFiniteSet(A \cup B)
      /\ Cardinality(A \cup B) = Cardinality(A) + Cardinality(B) - Cardinality(A \cap B)
  BY <1>1, FS_Union
<1>4. Cardinality(A \cap B) = 0
  BY FS_EmptySet
<1>5. Cardinality(A \cup B) <= Cardinality(S)
  BY FS_Subset
<1> QED
  BY <1>1, <1>2, <1>3, <1>4, <1>5
LEMMA ThreeParts ==
  ASSUME NEW S, IsFiniteSet(S), NEW A \in SUBSET S, NEW B \in SUBSET S, NEW C \in SUBSET S,
         A \cap B = {}, (A \cup B) \cap C = {}
  PROVE  Cardinality(A) + Cardinality(B) + Cardinality(C) <= Cardinality(S)
<1>1. /\ Cardinality(A \cup B) = Cardinality(A) + Cardinality(B)
      /\ Cardinality(A) \in Nat /\ Cardinality(B) \in Nat
  BY TwoParts
<1>2. Cardinality(A \cup B) + Cardinality(C) <= Cardinality(S) /\ Cardinality(C) \in Nat
      /\ Cardinality(S) \in Nat
  <2>1. A \cup B \in SUBSET S
    OBVIOUS
  <2> QED
    BY <2>1, TwoParts
<1> QED
  BY <1>1, <1>2

-----------------------------------------------------------------------------
(* Compliance. *)
FrameworkRows ==
  [kind : Comp!KnownKinds, status : {"not_started", "compliant"}, score : Int, scope : BOOLEAN,
   defaults : Nat, on : SUBSET {"delve", "kertos"}]

ControlStatuses == {"passed", "failed", "pending", "waived"}

(* Rows have all their columns and no score of zero, no kind is there twice, *)
(* and the controls of a framework are in a row.                             *)
CompInv ==
  /\ frameworks \in [Frameworks -> FrameworkRows \cup {None}]
  /\ controls \in [Frameworks -> Seq(ControlStatuses)]
  /\ \A f \in Comp!Present : frameworks[f] \in FrameworkRows /\ frameworks[f].score # 0
  /\ \A f, g \in Comp!Present : frameworks[f].kind = frameworks[g].kind => f = g

LEMMA CompInit == Comp!Init => CompInv
<1> SUFFICES ASSUME Comp!Init PROVE CompInv
  OBVIOUS
<1>1. /\ frameworks = [f \in Frameworks |-> None] /\ controls = [f \in Frameworks |-> <<>>]
  BY DEF Comp!Init
<1>2. Comp!Present = {}
  BY <1>1 DEF Comp!Present
<1> QED
  BY <1>1, <1>2 DEF CompInv

(* A row that takes the place of one there was, with the same kind. *)
LEMMA RowRewritten ==
  ASSUME CompInv, frameworks' \in [Frameworks -> FrameworkRows \cup {None}],
         \A f \in Frameworks :
           \/ frameworks'[f] = frameworks[f]
           \/ /\ frameworks[f] # None /\ frameworks'[f] \in FrameworkRows
              /\ frameworks'[f].kind = frameworks[f].kind /\ frameworks'[f].score # 0,
         controls' \in [Frameworks -> Seq(ControlStatuses)]
  PROVE  CompInv'
<1>1. ASSUME NEW f \in Comp!Present'
      PROVE  /\ f \in Comp!Present /\ frameworks'[f] \in FrameworkRows
             /\ frameworks'[f].kind = frameworks[f].kind /\ frameworks'[f].score # 0
  BY DEF CompInv, Comp!Present
<1> QED
  BY <1>1 DEF CompInv

LEMMA PositiveIsNotZero == \A i \in Int : i > 0 => i # 0
OBVIOUS

LEMMA CompStep == CompInv /\ [Comp!Next]_complianceVars => CompInv'
<1> SUFFICES ASSUME CompInv, [Comp!Next]_complianceVars PROVE CompInv'
  OBVIOUS
<1>0. /\ frameworks \in [Frameworks -> FrameworkRows \cup {None}]
      /\ controls \in [Frameworks -> Seq(ControlStatuses)]
      /\ \A f \in Comp!Present : frameworks[f] \in FrameworkRows /\ frameworks[f].score # 0
  BY DEF CompInv
<1>1. ASSUME NEW f \in Frameworks, NEW kind \in Kinds, Comp!CreateFramework(f, kind) PROVE CompInv'
  <2> DEFINE row == [kind |-> kind, status |-> "not_started", score |-> -1, scope |-> TRUE,
                     defaults |-> Comp!DefaultControls(kind), on |-> {}]
  <2>1. row \in FrameworkRows /\ row.score # 0 /\ row.kind = kind
    <3>1. Comp!DefaultControls(kind) \in Nat /\ kind \in Comp!KnownKinds
      BY <1>1 DEF Comp!DefaultControls, Comp!CreateFramework
    <3> QED
      BY <3>1 DEF FrameworkRows
  <2>2. /\ frameworks' = [frameworks EXCEPT ![f] = row] /\ controls' = controls
        /\ \A g \in Comp!Present : frameworks[g].kind # kind
    BY <1>1 DEF Comp!CreateFramework, Comp!Null
  <2> HIDE DEF row
  <2>3. /\ frameworks' \in [Frameworks -> FrameworkRows \cup {None}] /\ frameworks'[f] = row
        /\ \A g \in Frameworks : g # f => frameworks'[g] = frameworks[g]
    BY <1>0, <2>1, <2>2
  <2>4. \A g \in Comp!Present' : g # f => g \in Comp!Present
    BY <2>3 DEF Comp!Present
  <2> QED
    BY <1>0, <2>1, <2>2, <2>3, <2>4 DEF CompInv
<1>2. ASSUME NEW f \in Frameworks, NEW status \in {"", "compliant"}, NEW score \in Scores,
             Comp!UpdateFramework(f, status, score)
      PROVE  CompInv'
  <2> DEFINE new == [frameworks[f] EXCEPT
                       !.status = IF status = "" THEN frameworks[f].status ELSE status,
                       !.score = IF score > 0 THEN score ELSE frameworks[f].score]
  <2>1. frameworks' = [frameworks EXCEPT ![f] = new] /\ controls' = controls
    BY <1>2 DEF Comp!UpdateFramework
  <2>2. frameworks[f] \in FrameworkRows /\ frameworks[f].score # 0 /\ f \in Comp!Present
    BY <1>0, <1>2 DEF Comp!UpdateFramework
  <2>3. new \in FrameworkRows /\ new.kind = frameworks[f].kind /\ new.score # 0
    <3> DEFINE st == IF status = "" THEN frameworks[f].status ELSE status
               sc == IF score > 0 THEN score ELSE frameworks[f].score
    <3>1. st \in {"not_started", "compliant"}
      BY <2>2, Zenon DEF FrameworkRows
    <3>2. frameworks[f].score \in Int /\ score \in Int
      BY <2>2, ScoresAreNumbers DEF FrameworkRows
    <3>3. sc \in Int /\ sc # 0
      <4>1. CASE score > 0
        <5>1. sc = score
          BY <4>1, Zenon
        <5> QED
          BY <3>2, <4>1, <5>1, PositiveIsNotZero, Zenon
      <4>2. CASE ~(score > 0)
        <5>1. sc = frameworks[f].score
          BY <4>2, Zenon
        <5> QED
          BY <2>2, <3>2, <5>1, Zenon
      <4> QED
        BY <4>1, <4>2
    <3>4. new = [frameworks[f] EXCEPT !.status = st, !.score = sc]
      OBVIOUS
    <3> HIDE DEF st, sc, new
    <3> QED
      BY <2>2, <3>1, <3>3, <3>4 DEF FrameworkRows
  <2> HIDE DEF new
  <2> QED
    BY <1>0, <2>1, <2>2, <2>3, RowRewritten DEF Comp!Present
<1>3. ASSUME NEW integration \in {"delve", "kertos"}, Comp!Connect(integration) PROVE CompInv'
  <2>1. controls' = controls
    BY <1>3 DEF Comp!Connect
  <2>2. CASE frameworks' = frameworks
    BY <1>0, <2>1, <2>2, RowRewritten
  <2>3. CASE frameworks' # frameworks
    <3> DEFINE on(f) == [frameworks[f] EXCEPT !.on = frameworks[f].on \cup {integration}]
    <3>1. frameworks' = [f \in Frameworks |-> IF f \in Comp!Present THEN on(f) ELSE None]
      BY <1>3, <2>3 DEF Comp!Connect
    <3>2. \A f \in Comp!Present :
            on(f) \in FrameworkRows /\ on(f).kind = frameworks[f].kind /\ on(f).score # 0
      BY <1>0 DEF FrameworkRows
    <3> HIDE DEF on
    <3> QED
      BY <1>0, <2>1, <3>1, <3>2, RowRewritten DEF Comp!Present
  <2> QED
    BY <2>2, <2>3
<1>4. CASE Comp!Elsewhere
  <2>1. CASE frameworks' = frameworks
    <3>1. controls' \in [Frameworks -> Seq(ControlStatuses)]
      <4>1. \/ controls' = controls
            \/ \E f \in Frameworks : \E status \in {"passed", "failed", "pending", "waived"} :
                 controls' = [controls EXCEPT ![f] = Append(controls[f], status)]
        BY <1>4 DEF Comp!Elsewhere, Comp!Present
      <4>2. ASSUME NEW f \in Frameworks, NEW status \in ControlStatuses
            PROVE  Append(controls[f], status) \in Seq(ControlStatuses)
        BY <1>0
      <4> HIDE DEF ControlStatuses
      <4>3. \/ controls' = controls
            \/ \E f \in Frameworks : \E status \in ControlStatuses :
                 controls' = [controls EXCEPT ![f] = Append(controls[f], status)]
        BY <4>1 DEF ControlStatuses
      <4> QED
        BY <1>0, <4>2, <4>3
    <3> QED
      BY <1>0, <2>1, <3>1, RowRewritten
  <2>2. CASE frameworks' # frameworks
    <3>1. PICK f \in Comp!Present :
            frameworks' = [frameworks EXCEPT ![f] = [frameworks[f] EXCEPT !.scope = FALSE]]
            /\ controls' = controls
      BY <1>4, <2>2 DEF Comp!Elsewhere
    <3> DEFINE new == [frameworks[f] EXCEPT !.scope = FALSE]
    <3>2. new \in FrameworkRows /\ new.kind = frameworks[f].kind /\ new.score # 0 /\ f \in Frameworks
      BY <1>0 DEF FrameworkRows, Comp!Present
    <3> HIDE DEF new
    <3> QED
      BY <1>0, <3>1, <3>2, RowRewritten DEF Comp!Present, new
  <2> QED
    BY <2>1, <2>2
<1>5. ASSUME UNCHANGED <<frameworks, controls>> PROVE CompInv'
  BY <1>0, <1>5, RowRewritten
<1> QED
  BY <1>1, <1>2, <1>3, <1>4, <1>5
  DEF Comp!Next, Comp!ConnectDelve, Comp!ConnectKertos, Comp!AnswerOnly, Comp!CompOutage,
      Comp!ScanCompliance, Comp!RemediationPlan, Comp!GenerateReport, Comp!SyncDelveData,
      Comp!SyncKertosData, Comp!CreateRisk, Comp!UpdateRisk, Comp!MitigateRisk,
      Comp!compVars, complianceVars

LEMMA CompSteps == [Next]_serviceVars /\ world = "compliance" => [Comp!Next]_complianceVars
BY DEF Next, serviceVars

(* The counts of a dashboard are of disjoint parts of the controls. *)
LEMMA DashboardParts ==
  ASSUME CompInv, NEW f \in Comp!Present
  PROVE  LET d == Comp!GetComplianceDashboard(f) IN d.passed + d.failed + d.pending <= d.total
<1> DEFINE n == Len(controls[f])
           part(status) == {i \in DOMAIN controls[f] : controls[f][i] = status}
<1>1. n \in Nat /\ DOMAIN controls[f] = 1 .. n
  BY DEF CompInv, Comp!Present
<1>2. IsFiniteSet(1 .. n) /\ Cardinality(1 .. n) = n
  BY <1>1, FS_Interval
<1>3. \A status : Comp!Count(f, status) = Cardinality(part(status))
  BY DEF Comp!Count, Comp!Cardinality, Cardinality
<1>4. /\ part("passed") \in SUBSET (1 .. n) /\ part("failed") \in SUBSET (1 .. n)
      /\ part("pending") \in SUBSET (1 .. n)
      /\ part("passed") \cap part("failed") = {}
      /\ (part("passed") \cup part("failed")) \cap part("pending") = {}
  BY <1>1
<1> HIDE DEF part, n
<1>5. Cardinality(part("passed")) + Cardinality(part("failed")) + Cardinality(part("pending")) <= n
  BY <1>2, <1>4, ThreeParts
<1> DEFINE d == Comp!GetComplianceDashboard(f)
<1>6. /\ d.passed = Cardinality(part("passed")) /\ d.failed = Cardinality(part("failed"))
      /\ d.pending = Cardinality(part("pending")) /\ d.total = n
  BY <1>3 DEF Comp!GetComplianceDashboard, n
<1> HIDE DEF d
<1>7. d.passed + d.failed + d.pending <= d.total
  BY <1>5, <1>6
<1> QED
  BY <1>7 DEF d

CompHolds == world = "compliance" => CompInv

(* The list or the dashboard shows a framework and never both, no update     *)
(* loses a score, the parts of a dashboard fit its total and no kind is      *)
(* there twice, whatever others write and however the integrations come.     *)
THEOREM ListOrDashboard == Spec => []FrameworksShown
<1>1. Init => CompHolds
  BY CompInit DEF Init, CompHolds
<1>2. CompHolds /\ [Next]_serviceVars => CompHolds'
  BY WorldStays, CompSteps, CompStep DEF CompHolds
<1>3. CompHolds => FrameworksShown
  <2> SUFFICES ASSUME CompInv PROVE Comp!FrameworksShown
    BY DEF CompHolds, FrameworksShown
  <2>1. ASSUME NEW f \in Comp!Present
        PROVE  Comp!GetFramework(f) => (f \in Comp!ListFrameworks) # Comp!DashboardShows(f)
    BY DEF Comp!GetFramework, Comp!ListFrameworks, Comp!DashboardShows
  <2> QED
    BY <2>1, DashboardParts, Zenon DEF CompInv, Comp!FrameworksShown
<1> QED
  BY <1>1, <1>2, <1>3, PTL DEF Spec

-----------------------------------------------------------------------------
(* The audit log.  What the list shows is compared with one state of the     *)
(* table; what the summary counted with all of them since it began, in which *)
(* rows were only added.                                                     *)
LEMMA AuditCounts == \A S : Audit!Cardinality(S) = Cardinality(S)
BY DEF Audit!Cardinality, Cardinality

(* A window that may be exported is exported as it was asked for. *)
LEMMA WindowExported == \A days \in 1 .. 365 : Audit!ExportDays(days) = days
BY DEF Audit!ExportDays

(* The export has one line for each row of its window. *)
LEMMA LinePerRow ==
  ASSUME NEW owner, NEW days \in 1 .. 365
  PROVE  Cardinality(Audit!ExportEvents(owner, days)) = Cardinality(Audit!Within(owner, days))
<1> DEFINE in == Audit!Within(owner, days)
           line(i) == [row |-> i, cut |-> table[i].nulls \cap Audit!ExportColumns # {}]
           f == [i \in in |-> line(i)]
<1>1. Audit!ExportEvents(owner, days) = {line(i) : i \in in}
  BY WindowExported DEF Audit!ExportEvents
<1>2. IsFiniteSet(in)
  BY FS_Subset, FiniteParameters DEF Audit!Within
<1>3. \A i, j : line(i) = line(j) => i = j
  <2> SUFFICES ASSUME NEW i, NEW j, line(i) = line(j) PROVE i = j
    OBVIOUS
  <2>1. line(i).row = i /\ line(j).row = j
    OBVIOUS
  <2> QED
    BY <2>1
<1> HIDE DEF line, in
<1>4. f \in Bijection(in, {line(i) : i \in in})
  <2>1. f \in [in -> {line(i) : i \in in}] /\ \A i \in in : f[i] = line(i)
    OBVIOUS
  <2>2. \A l \in {line(i) : i \in in} : \E i \in in : f[i] = l
    BY <2>1
  <2> HIDE DEF f
  <2> QED
    BY <1>3, <2>1, <2>2, Fun_IsBij
<1> QED
  BY <1>1, <1>2, <1>4, FS_Bijection DEF ExistsBijection, in

(* Counts are numbers, and no row is an error of a client and of the server. *)
LEMMA ErrorsApart ==
  ASSUME NEW owner, NEW days
  PROVE  /\ \A q : Audit!Count(owner, days, q) \in Nat
         /\ Audit!Count(owner, days, "errors_4xx") + Audit!Count(owner, days, "errors_5xx")
              <= Cardinality(Audit!Within(owner, days))
<1> DEFINE in == Audit!Within(owner, days)
           of(q) == {i \in in : Audit!Matches(table[i].status, q)}
<1>1. IsFiniteSet(in)
  BY FS_Subset, FiniteParameters DEF Audit!Within
<1>2. \A q : Audit!Count(owner, days, q) = Cardinality(of(q))
  BY AuditCounts, Zenon DEF Audit!Count
<1>3. of("errors_4xx") \cap of("errors_5xx") = {}
  BY DEF Audit!Matches
<1> HIDE DEF in
<1>4. \A q : of(q) \in SUBSET in /\ IsFiniteSet(of(q)) /\ Cardinality(of(q)) \in Nat
  <2> SUFFICES ASSUME NEW q PROVE of(q) \in SUBSET in /\ IsFiniteSet(of(q)) /\ Cardinality(of(q)) \in Nat
    OBVIOUS
  <2>1. of(q) \in SUBSET in
    OBVIOUS
  <2> QED
    BY <1>1, <2>1, FS_Subset, FS_CardinalityType
<1> HIDE DEF of
<1>5. Cardinality(of("errors_4xx")) + Cardinality(of("errors_5xx")) <= Cardinality(in)
  BY <1>1, <1>3, <1>4, TwoParts
<1> QED
  BY <1>2, <1>4, <1>5 DEF in

Queries == {"total", "errors_4xx", "errors_5xx"}
Summaries ==
  [tenant : Tenants, days : Asked, next : 1 .. 4, counts : [Queries -> Nat], failed : SUBSET Queries,
   before : [Queries -> Nat]]
CountedNow(q) == Audit!Count(auditSummary.tenant, auditSummary.days, q)

(* What there was when the request began and what each query has counted are *)
(* still there, and what was counted was counted later than that.            *)
AuditInv ==
  /\ table = [i \in AuditRows |-> table[i]]
  /\ auditSummary # None =>
       /\ auditSummary \in Summaries
       /\ \A q \in Queries : /\ auditSummary.before[q] <= CountedNow(q)
                             /\ auditSummary.counts[q] <= CountedNow(q)
       /\ \A k \in 1 .. 3 :
            k < auditSummary.next /\ Audit!Counted[k] \notin auditSummary.failed
              => auditSummary.before[Audit!Counted[k]] <= auditSummary.counts[Audit!Counted[k]]
AuditHolds == world = "audit" => AuditInv

(* What a query does to a request: it is counted, or it fails. *)
CountedIn(s, query, n) == [s EXCEPT !.next = @ + 1, !.counts = [@ EXCEPT ![query] = n]]
FailedIn(s, query) == [s EXCEPT !.next = @ + 1, !.failed = @ \cup {query}]
Moved(s, t) ==
  /\ t \in Summaries /\ t.tenant = s.tenant /\ t.days = s.days /\ t.before = s.before
  /\ t.next = s.next + 1
LEMMA QueryCounted ==
  ASSUME NEW s \in Summaries, s.next \in 1 .. 3, NEW query \in Queries, NEW n \in Nat
  PROVE  LET t == CountedIn(s, query, n)
         IN  /\ Moved(s, t) /\ t.failed = s.failed
             /\ t.counts[query] = n /\ \A q \in Queries \ {query} : t.counts[q] = s.counts[q]
<1> DEFINE c == [s.counts EXCEPT ![query] = n]
           new == [tenant |-> s.tenant, days |-> s.days, next |-> s.next + 1, counts |-> c,
                   failed |-> s.failed, before |-> s.before]
<1>1. c \in [Queries -> Nat] /\ c[query] = n /\ \A q \in Queries \ {query} : c[q] = s.counts[q]
  BY DEF Summaries
<1>2. CountedIn(s, query, n) = [s EXCEPT !.next = s.next + 1, !.counts = c]
  BY Zenon DEF CountedIn
<1> HIDE DEF c
<1>3. CountedIn(s, query, n) = new
  BY <1>2 DEF Summaries
<1>4. Moved(s, new) /\ new.failed = s.failed /\ new.counts = c
  BY <1>1 DEF Summaries, Moved
<1> HIDE DEF new
<1> QED
  BY <1>1, <1>3, <1>4
LEMMA QueryFailed ==
  ASSUME NEW s \in Summaries, s.next \in 1 .. 3, NEW query \in Queries
  PROVE  LET t == FailedIn(s, query)
         IN  Moved(s, t) /\ t.failed = s.failed \cup {query} /\ t.counts = s.counts
<1> DEFINE f == s.failed \cup {query}
           new == [tenant |-> s.tenant, days |-> s.days, next |-> s.next + 1, counts |-> s.counts,
                   failed |-> f, before |-> s.before]
<1>1. f \in SUBSET Queries
  BY DEF Summaries
<1>2. FailedIn(s, query) = [s EXCEPT !.next = s.next + 1, !.failed = f]
  BY Zenon DEF FailedIn
<1> HIDE DEF f
<1>3. FailedIn(s, query) = new
  BY <1>2 DEF Summaries
<1>4. Moved(s, new) /\ new.failed = f /\ new.counts = s.counts
  BY <1>1 DEF Summaries, Moved
<1> HIDE DEF new
<1> QED
  BY <1>3, <1>4 DEF f

LEMMA ThreeQueries ==
  /\ Len(Audit!Counted) = 3 /\ Audit!ToSet(Audit!Counted) = Queries
  /\ \A k \in 1 .. 3 : Audit!Counted[k] \in Queries
<1>1. Audit!Counted = <<"total", "errors_4xx", "errors_5xx">>
  BY DEF Audit!Counted
<1>2. Len(Audit!Counted) = 3 /\ DOMAIN Audit!Counted = 1 .. 3
  BY <1>1
<1>3. \A k \in 1 .. 3 : k = 1 \/ k = 2 \/ k = 3
  OBVIOUS
<1>4. Audit!Counted[1] = "total" /\ Audit!Counted[2] = "errors_4xx" /\ Audit!Counted[3] = "errors_5xx"
  BY <1>1
<1> QED
  BY <1>2, <1>3, <1>4 DEF Queries, Audit!ToSet

(* Rows are only added, so no count becomes less. *)
LEMMA LogGrows ==
  ASSUME AuditInv, [Audit!Next]_auditVars
  PROVE  /\ table' = [i \in AuditRows |-> table'[i]]
         /\ \A owner, days, q : Audit!Count(owner, days, q) <= Audit!Count(owner, days, q)'
<1> DEFINE Kept == /\ table' = [i \in AuditRows |-> table'[i]]
                   /\ \A i \in AuditRows : table[i] # None => table'[i] = table[i]
<1>1. Kept
  <2>1. ASSUME NEW i \in AuditRows, NEW row, table[i] = None, table' = [table EXCEPT ![i] = row]
        PROVE  Kept
    BY <2>1 DEF AuditInv
  <2>2. ASSUME NEW status \in Statuses, Audit!Serve(status) PROVE Kept
    BY <2>1, <2>2 DEF AuditInv, Audit!Serve, Audit!InsertAuditEvent
  <2>3. CASE Audit!WrittenElsewhere
    BY <2>1, <2>3 DEF Audit!WrittenElsewhere
  <2>4. CASE table' = table
    BY <2>4 DEF AuditInv
  <2>5. (\E owner \in Tenants, days \in Asked : Audit!BeginSummary(owner, days))
          \/ Audit!GetSummary \/ UNCHANGED auditVars => table' = table
    BY DEF Audit!BeginSummary, Audit!GetSummary, auditVars
  <2> QED
    BY <2>2, <2>3, <2>4, <2>5 DEF Audit!Next
<1>2. ASSUME NEW owner, NEW days, NEW q
      PROVE  Audit!Count(owner, days, q) <= Audit!Count(owner, days, q)'
  <2> DEFINE was == {i \in Audit!Within(owner, days) : Audit!Matches(table[i].status, q)}
             now == {i \in Audit!Within(owner, days)' : Audit!Matches(table'[i].status, q)}
  <2>1. was \subseteq now /\ now \subseteq AuditRows
    BY <1>1 DEF Audit!Within
  <2>2. Cardinality(was) <= Cardinality(now)
    BY <2>1, FS_Subset, FiniteParameters
  <2>3. Audit!Count(owner, days, q) = Cardinality(was) /\ Audit!Count(owner, days, q)' = Cardinality(now)
    BY AuditCounts, Zenon DEF Audit!Count, Audit!Matches
  <2> QED
    BY <2>2, <2>3
<1> QED
  BY <1>1, <1>2

LEMMA CountsNow == \A owner, days, q : Audit!Count(owner, days, q) \in Nat
BY ErrorsApart
LEMMA CountsNext == \A owner, days, q : Audit!Count(owner, days, q)' \in Nat
<1>1. (\A owner, days, q : Audit!Count(owner, days, q) \in Nat)'
  BY CountsNow, PTL
<1> QED
  BY <1>1

LEMMA AuditStep == AuditInv /\ [Audit!Next]_auditVars => AuditInv'
<1> SUFFICES ASSUME AuditInv, [Audit!Next]_auditVars PROVE AuditInv'
  OBVIOUS
<1> DEFINE Now(owner, days, q) == Audit!Count(owner, days, q)'
<1>0. /\ table' = [i \in AuditRows |-> table'[i]]
      /\ \A owner, days, q : /\ Audit!Count(owner, days, q) <= Now(owner, days, q)
                             /\ Audit!Count(owner, days, q) \in Nat /\ Now(owner, days, q) \in Nat
  BY CountsNow, CountsNext, LogGrows
<1> HIDE DEF Now
<1>1. CASE auditSummary' = auditSummary
  <2> SUFFICES ASSUME auditSummary # None
               PROVE  \A q \in Queries :
                        /\ auditSummary.before[q] <= Now(auditSummary.tenant, auditSummary.days, q)
                        /\ auditSummary.counts[q] <= Now(auditSummary.tenant, auditSummary.days, q)
    BY <1>0, <1>1 DEF AuditInv, CountedNow, Now
  <2>1. auditSummary.counts \in [Queries -> Nat] /\ auditSummary.before \in [Queries -> Nat]
    BY DEF AuditInv, Summaries
  <2> QED
    BY <1>0, <2>1 DEF AuditInv, CountedNow
<1>2. ASSUME NEW owner \in Tenants, NEW days \in Asked, Audit!BeginSummary(owner, days)
      PROVE  AuditInv'
  <2> DEFINE new == [tenant |-> owner, days |-> days, next |-> 1, counts |-> [q \in Queries |-> 0],
                     failed |-> {}, before |-> [q \in Queries |-> Audit!Count(owner, days, q)]]
  <2>1. auditSummary' = new
    BY <1>2, ThreeQueries DEF Audit!BeginSummary
  <2>2. new \in Summaries /\ \A q \in Queries : new.before[q] <= Now(owner, days, q)
                                               /\ new.counts[q] <= Now(owner, days, q)
    BY <1>0 DEF Summaries
  <2>3. new.tenant = owner /\ new.days = days /\ new.next = 1
    OBVIOUS
  <2> HIDE DEF new
  <2> QED
    BY <1>0, <2>1, <2>2, <2>3 DEF AuditInv, CountedNow, Now
<1>3. CASE Audit!GetSummary
  <2> DEFINE s == auditSummary
             query == Audit!Counted[s.next]
             n == Audit!Count(s.tenant, s.days, query)
  <2>1. /\ s # None /\ s.next \in 1 .. 3 /\ table' = table
        /\ s' = CountedIn(s, query, n) \/ s' = FailedIn(s, query)
    BY <1>3, ThreeQueries DEF Audit!GetSummary, AuditInv, Summaries, CountedIn, FailedIn
  <2>2. /\ s \in Summaries /\ query \in Queries /\ n \in Nat
        /\ \A q \in Queries : s.before[q] <= CountedNow(q) /\ s.counts[q] <= CountedNow(q)
        /\ \A k \in 1 .. 3 : k < s.next /\ Audit!Counted[k] \notin s.failed
                               => s.before[Audit!Counted[k]] <= s.counts[Audit!Counted[k]]
    BY <1>0, <2>1, ThreeQueries DEF AuditInv
  <2>3. \A q : Audit!Count(s.tenant, s.days, q) <= Now(s.tenant, s.days, q)
               /\ Now(s.tenant, s.days, q) \in Nat /\ CountedNow(q) \in Nat
               /\ CountedNow(q) = Audit!Count(s.tenant, s.days, q)
    BY <1>0 DEF CountedNow
  <2>4. \A k \in 1 .. 3 : Audit!Counted[k] \in Queries
    BY ThreeQueries
  <2>5. /\ s' \in Summaries /\ s'.tenant = s.tenant /\ s'.days = s.days /\ s'.before = s.before
        /\ s'.next = s.next + 1
        /\ \A q \in Queries : s'.counts[q] \in {s.counts[q], CountedNow(q)}
        /\ \/ s'.failed = s.failed /\ s'.counts[query] = n
              /\ \A q \in Queries \ {query} : s'.counts[q] = s.counts[q]
           \/ s'.failed = s.failed \cup {query} /\ s'.counts = s.counts
    <3>1. CountedNow(query) = n
      BY DEF CountedNow
    <3> HIDE DEF n, query
    <3>2. CASE s' = CountedIn(s, query, n)
      <4>1. /\ Moved(s, s') /\ s'.failed = s.failed
            /\ s'.counts[query] = n /\ \A q \in Queries \ {query} : s'.counts[q] = s.counts[q]
        BY <2>1, <2>2, <3>2, QueryCounted
      <4> QED
        BY <3>1, <4>1 DEF Moved
    <3>3. CASE s' = FailedIn(s, query)
      <4>1. Moved(s, s') /\ s'.failed = s.failed \cup {query} /\ s'.counts = s.counts
        BY <2>1, <2>2, <3>3, QueryFailed
      <4> QED
        BY <4>1 DEF Moved
    <3> QED
      BY <2>1, <3>2, <3>3
  <2>6. \A k \in 1 .. 3 : k < s'.next /\ Audit!Counted[k] \notin s'.failed
                            => s'.before[Audit!Counted[k]] <= s'.counts[Audit!Counted[k]]
    <3> SUFFICES ASSUME NEW k \in 1 .. 3, k < s.next + 1, Audit!Counted[k] \notin s'.failed
                 PROVE  s.before[Audit!Counted[k]] <= s'.counts[Audit!Counted[k]]
      BY <2>5
    <3> DEFINE q == Audit!Counted[k]
    <3>1. q \in Queries /\ s.before[q] <= CountedNow(q)
      BY <2>2, <2>4
    <3>2. CASE q = query /\ s'.failed = s.failed
      BY <2>3, <2>5, <3>1, <3>2
    <3>3. CASE q # query
      <4>1. k # s.next /\ s.next \in 1 .. 3
        BY <2>1, <3>3
      <4>2. q \notin s.failed
        BY <2>5
      <4>3. s.before[q] <= s.counts[q]
        BY <2>2, <4>1, <4>2
      <4> QED
        BY <2>5, <3>1, <3>3, <4>3
    <3>4. s'.failed # s.failed => q # query
      BY <2>5
    <3> QED
      BY <3>2, <3>3, <3>4
  <2>7. \A q \in Queries : s'.before[q] <= Now(s.tenant, s.days, q)
                           /\ s'.counts[q] <= Now(s.tenant, s.days, q)
    <3> SUFFICES ASSUME NEW q \in Queries
                 PROVE  s.before[q] <= Now(s.tenant, s.days, q) /\ s'.counts[q] <= Now(s.tenant, s.days, q)
      BY <2>5
    <3>1. s.before[q] \in Nat /\ s.counts[q] \in Nat
      BY <2>2 DEF Summaries
    <3>2. s.before[q] <= CountedNow(q) /\ s.counts[q] <= CountedNow(q)
          /\ CountedNow(q) <= Now(s.tenant, s.days, q)
      BY <2>2, <2>3
    <3>3. s'.counts[q] = s.counts[q] \/ s'.counts[q] = CountedNow(q)
      BY <2>5
    <3> QED
      BY <2>3, <3>1, <3>2, <3>3
  <2>8. \A q : CountedNow(q)' = Now(s.tenant, s.days, q)
    BY <2>5 DEF CountedNow, Now
  <2> QED
    BY <1>0, <2>5, <2>6, <2>7, <2>8 DEF AuditInv
<1>4. (\E status \in Statuses : Audit!Serve(status)) \/ Audit!WrittenElsewhere \/ UNCHANGED auditVars
        => auditSummary' = auditSummary
  BY DEF Audit!Serve, Audit!WrittenElsewhere, auditVars
<1> QED
  BY <1>1, <1>2, <1>3, <1>4 DEF Audit!Next

(* An answer of the list, of the rows it took. *)
LEMMA AnyAnswerFits ==
  ASSUME NEW owner \in Tenants, NEW days \in 1 .. 365, NEW listed \in Audit!ListEvents(owner, days)
  PROVE  Audit!ListFits(owner, days, listed)
<1> DEFINE in == Audit!Within(owner, days)
           lines == Audit!ExportEvents(owner, days)
<1>1. PICK T \in Audit!Newest(owner, days) : listed = {i \in T : Audit!Scannable(i)}
  BY DEF Audit!ListEvents
<1>2. /\ T \subseteq in /\ Cardinality(T) <= ListLimit /\ (T = in \/ Cardinality(T) = ListLimit)
      /\ \A i \in T, j \in in \ T : table[i].age <= table[j].age
  BY AuditCounts, Zenon DEF Audit!Newest
<1>3. IsFiniteSet(in)
  BY FS_Subset, FiniteParameters DEF Audit!Within
<1>4. IsFiniteSet(T) /\ Cardinality(T) \in Nat
  BY <1>2, <1>3, FS_Subset, FS_CardinalityType
<1>5. lines = {[row |-> i, cut |-> table[i].nulls \cap Audit!ExportColumns # {}] : i \in in}
  BY WindowExported DEF Audit!ExportEvents
<1>6. Audit!Cardinality(listed) <= ListLimit
  <2>1. listed \subseteq T
    BY <1>1
  <2>2. Cardinality(listed) <= Cardinality(T) /\ IsFiniteSet(listed)
    BY <1>4, <2>1, FS_Subset
  <2>3. Cardinality(listed) \in Nat
    BY <2>2, FS_CardinalityType
  <2> QED
    BY <1>2, <1>4, <2>2, <2>3, AuditCounts, FiniteParameters
<1>7. ASSUME NEW i \in listed
      PROVE  [row |-> i, cut |-> FALSE] \in lines /\ Audit!GetEvent(i) = 200
  <2>1. i \in in /\ Audit!Scannable(i) /\ table[i] # None
    BY <1>1, <1>2 DEF Audit!Within
  <2>2. (table[i].nulls \cap Audit!ExportColumns # {}) = FALSE
    BY <2>1 DEF Audit!Scannable, Audit!ListColumns, Audit!ExportColumns
  <2> HIDE DEF in, lines
  <2>3. [row |-> i, cut |-> FALSE] \in lines
    BY <1>5, <2>1, <2>2
  <2> QED
    BY <2>1, <2>3 DEF Audit!GetEvent
<1>8. ASSUME NEW l \in lines, l.row \notin listed, Audit!Scannable(l.row)
      PROVE  Audit!Cardinality({j \in in \ {l.row} : table[j].age <= table[l.row].age}) >= ListLimit
  <2> DEFINE newer == {j \in in \ {l.row} : table[j].age <= table[l.row].age}
  <2>1. l.row \in in /\ l.row \notin T
    BY <1>1, <1>5, <1>8
  <2>2. Cardinality(T) = ListLimit /\ T \subseteq newer
    BY <1>2, <2>1
  <2>3. IsFiniteSet(newer)
    <3> newer \subseteq in
      OBVIOUS
    <3> QED
      BY <1>3, FS_Subset
  <2> HIDE DEF newer
  <2>4. Cardinality(T) <= Cardinality(newer) /\ Cardinality(newer) \in Nat
    BY <2>2, <2>3, FS_Subset, FS_CardinalityType
  <2> QED
    BY <2>2, <2>4, AuditCounts, FiniteParameters DEF newer
<1> QED
  BY <1>6, <1>7, <1>8 DEF Audit!ListFits

(* The errors that were counted are lines of an export. *)
LEMMA CountsFit == ASSUME AuditInv, auditSummary # None PROVE Audit!SummaryFits
<1> DEFINE s == auditSummary
<1>1. /\ s \in Summaries
      /\ \A q \in Queries : s.before[q] <= CountedNow(q) /\ s.counts[q] <= CountedNow(q)
      /\ \A k \in 1 .. 3 : k < s.next /\ Audit!Counted[k] \notin s.failed
                             => s.before[Audit!Counted[k]] <= s.counts[Audit!Counted[k]]
  BY DEF AuditInv
<1>2. \A q : CountedNow(q) = Audit!Count(s.tenant, s.days, q) /\ CountedNow(q) \in Nat
  BY ErrorsApart DEF CountedNow
<1>3. ASSUME s.days \in 1 .. 365
      PROVE  s.counts["errors_4xx"] + s.counts["errors_5xx"]
               <= Audit!Cardinality(Audit!ExportEvents(s.tenant, s.days))
  <2>1. /\ s.counts["errors_4xx"] \in Nat /\ s.counts["errors_5xx"] \in Nat
        /\ s.counts["errors_4xx"] <= CountedNow("errors_4xx")
        /\ s.counts["errors_5xx"] <= CountedNow("errors_5xx")
    BY <1>1 DEF Summaries, Queries
  <2>2. CountedNow("errors_4xx") + CountedNow("errors_5xx") <= Cardinality(Audit!Within(s.tenant, s.days))
    BY <1>2, ErrorsApart
  <2>3. Cardinality(Audit!Within(s.tenant, s.days)) \in Nat
    BY FS_Subset, FS_CardinalityType, FiniteParameters DEF Audit!Within
  <2>4. Audit!Cardinality(Audit!ExportEvents(s.tenant, s.days)) = Cardinality(Audit!Within(s.tenant, s.days))
    BY <1>3, LinePerRow, AuditCounts
  <2> QED
    BY <1>2, <2>1, <2>2, <2>3, <2>4
<1>4. \A k \in 1 .. 3 : k < s.next /\ Audit!Counted[k] \notin s.failed =>
         LET q == Audit!Counted[k]
         IN  s.before[q] <= s.counts[q] /\ s.counts[q] <= Audit!Count(s.tenant, s.days, q)
  BY <1>1, <1>2, ThreeQueries
<1> QED
  BY <1>3, <1>4, ThreeQueries DEF Audit!SummaryFits

(* List, export and summary of the audit log agree, although rows with NULLs *)
(* are dropped or cut, the list has a limit and the summary three queries.   *)
THEOREM ViewsAgree == Spec => []AuditViewsAgree
<1>1. Init => AuditHolds
  BY DEF Init, AuditHolds, AuditInv, Audit!Init
<1>2. AuditHolds /\ [Next]_serviceVars => AuditHolds'
  <2>1. [Next]_serviceVars /\ world = "audit" => [Audit!Next]_auditVars
    BY DEF Next, serviceVars
  <2> QED
    BY <2>1, WorldStays, AuditStep DEF AuditHolds
<1>3. AuditHolds => AuditViewsAgree
  BY AnyAnswerFits, CountsFit DEF AuditHolds, AuditViewsAgree, Audit!AuditViewsAgree
<1> QED
  BY <1>1, <1>2, <1>3, PTL DEF Spec

-----------------------------------------------------------------------------
(* Every element of S is in one of the five. *)
Partition(S, A1, A2, A3, A4, A5) ==
  /\ S = A1 \cup A2 \cup A3 \cup A4 \cup A5
  /\ A1 \cap A2 = {} /\ (A1 \cup A2) \cap A3 = {} /\ (A1 \cup A2 \cup A3) \cap A4 = {}
  /\ (A1 \cup A2 \cup A3 \cup A4) \cap A5 = {}
LEMMA FiveParts ==
  ASSUME NEW S, IsFiniteSet(S), NEW A1, NEW A2, NEW A3, NEW A4, NEW A5,
         Partition(S, A1, A2, A3, A4, A5)
  PROVE  Cardinality(S) = Cardinality(A1) + Cardinality(A2) + Cardinality(A3) + Cardinality(A4)
                            + Cardinality(A5)
<1> USE DEF Partition
<1>1. Cardinality(A1 \cup A2) = Cardinality(A1) + Cardinality(A2)
  BY TwoParts
<1>2. Cardinality((A1 \cup A2) \cup A3) = Cardinality(A1 \cup A2) + Cardinality(A3)
  <2>1. A1 \cup A2 \in SUBSET S
    OBVIOUS
  <2> QED
    BY <2>1, TwoParts
<1>3. Cardinality((A1 \cup A2 \cup A3) \cup A4) = Cardinality(A1 \cup A2 \cup A3) + Cardinality(A4)
  <2>1. A1 \cup A2 \cup A3 \in SUBSET S
    OBVIOUS
  <2> QED
    BY <2>1, TwoParts
<1>4. Cardinality((A1 \cup A2 \cup A3 \cup A4) \cup A5)
        = Cardinality(A1 \cup A2 \cup A3 \cup A4) + Cardinality(A5)
  <2>1. A1 \cup A2 \cup A3 \cup A4 \in SUBSET S
    OBVIOUS
  <2> QED
    BY <2>1, TwoParts
<1> QED
  BY <1>1, <1>2, <1>3, <1>4

-----------------------------------------------------------------------------
(* The inventory. *)
(* Rows have all their columns, and what hangs on an asset by the foreign    *)
(* key hangs on one that is there, in the table of its category.             *)
InvRows ==
  /\ invAssets \in [InvAssets -> Inv!Rows \cup {None}]
  /\ IsFiniteSet(details)
  /\ \A d \in details : d.asset \in Inv!Present /\ invAssets[d.asset].category = d.table

(* A summary that is followed has counted what there is.                     *)
InvQueries ==
  {"total", "safe", "unsafe", "vulnerable"} \cup Inv!Categories \cup Inv!SummaryProviders
InvInv ==
  /\ InvRows
  /\ invSummary # None =>
       /\ invSummary \in [made : 0 .. 13, counts : [InvQueries -> Nat]]
       /\ \A k \in 1 .. 13 : k <= invSummary.made =>
            invSummary.counts[Inv!SummaryQueries[k]] = Inv!Count(Inv!SummaryQueries[k])

LEMMA InvInit == Inv!Init => InvInv
BY FS_EmptySet DEF Inv!Init, InvInv, InvRows

(* A row that is there may change in any column but its category. *)
LEMMA AssetsKept ==
  ASSUME InvRows, details' \in SUBSET details,
         invAssets' \in [InvAssets -> Inv!Rows \cup {None}],
         \A a \in Inv!Present : a \in Inv!Present' /\ invAssets'[a].category = invAssets[a].category
  PROVE  InvRows'
BY FS_Subset DEF InvRows

(* A row that is added takes the place of none. *)
LEMMA AssetAdded ==
  ASSUME InvRows, NEW a \in InvAssets, invAssets[a] = None, NEW row \in Inv!Rows,
         invAssets' = [invAssets EXCEPT ![a] = row], details' = details
  PROVE  InvRows'
<1>1. /\ invAssets' \in [InvAssets -> Inv!Rows \cup {None}]
      /\ \A b \in InvAssets : b # a => invAssets'[b] = invAssets[b]
  BY DEF InvRows
<1>2. \A b \in Inv!Present : b \in InvAssets /\ b # a /\ invAssets'[b] = invAssets[b]
  BY <1>1 DEF Inv!Present
<1>3. \A b \in Inv!Present : b \in Inv!Present' /\ invAssets'[b].category = invAssets[b].category
  BY <1>2 DEF Inv!Present
<1> QED
  BY <1>1, <1>3, AssetsKept

LEMMA RowsStep == InvRows /\ [Inv!Operation]_inventoryVars => InvRows'
<1> SUFFICES ASSUME InvRows, [Inv!Operation]_inventoryVars PROVE InvRows'
  OBVIOUS
<1>0. invAssets \in [InvAssets -> Inv!Rows \cup {None}]
  BY DEF InvRows
<1>1. ASSUME NEW a \in InvAssets, NEW name \in Names, NEW category \in Inv!SentCategories,
             NEW provider \in Inv!SentProviders, Inv!CreateAsset(a, name, category, provider)
      PROVE  InvRows'
  <2> DEFINE row == Inv!Row(name, category, provider, FALSE)
  <2>1. details' = details /\ invAssets[a] = None
    BY <1>1 DEF Inv!CreateAsset
  <2>2. \/ invAssets' = invAssets
        \/ /\ category \in Inv!Categories /\ provider \in Inv!Providers
           /\ invAssets' = [invAssets EXCEPT ![a] = row]
    BY <1>1, Zenon DEF Inv!CreateAsset
  <2>3. category \in Inv!Categories /\ provider \in Inv!Providers => row \in Inv!Rows
    BY DEF Inv!Row, Inv!Rows, Inv!Providers
  <2> HIDE DEF row
  <2>4. CASE invAssets' = invAssets
    BY <1>0, <2>1, <2>4, AssetsKept DEF Inv!Present
  <2> QED
    BY <2>1, <2>2, <2>3, <2>4, AssetAdded
<1>2. ASSUME NEW a \in InvAssets, NEW provider \in Inv!SentProviders, Inv!UpdateAsset(a, provider)
      PROVE  InvRows'
  <2> DEFINE new == [invAssets[a] EXCEPT !.provider = provider, !.nulls = FALSE]
  <2>1. details' = details
    BY <1>2 DEF Inv!UpdateAsset
  <2>2. CASE invAssets' = invAssets
    BY <1>0, <2>1, <2>2, AssetsKept DEF Inv!Present
  <2>3. CASE invAssets' # invAssets
    <3>1. /\ provider \in Inv!Providers /\ invAssets[a] # None
          /\ invAssets' = [invAssets EXCEPT ![a] = new]
      BY <1>2, <2>3 DEF Inv!UpdateAsset
    <3>2. new \in Inv!Rows /\ new.category = invAssets[a].category
      BY <1>0, <3>1 DEF Inv!Rows, Inv!Providers
    <3> HIDE DEF new
    <3>3. /\ invAssets' \in [InvAssets -> Inv!Rows \cup {None}] /\ invAssets'[a] = new /\ new # None
          /\ \A b \in InvAssets : b # a => invAssets'[b] = invAssets[b]
      BY <1>0, <3>1, <3>2, NoneIsNoRow
    <3>4. \A b \in Inv!Present : b \in Inv!Present' /\ invAssets'[b].category = invAssets[b].category
      BY <3>2, <3>3 DEF Inv!Present
    <3> QED
      BY <2>1, <3>3, <3>4, AssetsKept
  <2> QED
    BY <2>2, <2>3
<1>3. ASSUME NEW a \in InvAssets, Inv!DeleteAsset(a) PROVE InvRows'
  <2>1. details' = details
    BY <1>3 DEF Inv!DeleteAsset
  <2>2. CASE invAssets' = invAssets
    BY <1>0, <2>1, <2>2, AssetsKept DEF Inv!Present
  <2>3. CASE invAssets' # invAssets
    <3>1. /\ \A d \in details : d.asset # a
          /\ invAssets' = [invAssets EXCEPT ![a] = None]
      BY <1>3, <2>3 DEF Inv!DeleteAsset
    <3> QED
      BY <2>1, <3>1 DEF InvRows, Inv!Present
  <2> QED
    BY <2>2, <2>3
<1>4. ASSUME NEW found \in {0, 3}, Inv!ImportSBOM(found) PROVE InvRows'
  <2>1. UNCHANGED <<invAssets, details>>
    BY <1>4 DEF Inv!ImportSBOM, Inv!ImportProvider, Inv!Providers
  <2> QED
    BY <1>0, <2>1, AssetsKept DEF Inv!Present
<1>5. CASE Inv!Elsewhere
  <2>1. ASSUME NEW a \in InvAssets, NEW name \in Names, NEW category \in Inv!OtherCategories,
               NEW provider \in {"aws", "on_premise", "null"}, NEW nulls \in BOOLEAN,
               provider = "null" => nulls, invAssets[a] = None, details' = details,
               invAssets' = [invAssets EXCEPT ![a] = Inv!Row(name, category, provider, nulls)]
        PROVE  InvRows'
    <3>1. Inv!Row(name, category, provider, nulls) \in Inv!Rows
      BY <2>1 DEF Inv!Row, Inv!Rows, Inv!OtherCategories, Inv!Categories, Inv!Providers
    <3> QED
      BY <2>1, <3>1, AssetAdded
  <2>2. ASSUME NEW a \in InvAssets, NEW safe \in {"yes", "no", "null"}, NEW high \in BOOLEAN,
               invAssets[a] # None, invAssets' = invAssets,
               details' = details \cup {[asset |-> a, table |-> invAssets[a].category,
                                         safe |-> safe, high |-> high]}
        PROVE  InvRows'
    <3>1. IsFiniteSet(details')
      BY <2>2, FS_AddElement, Zenon DEF InvRows
    <3> QED
      BY <2>2, <3>1 DEF InvRows, Inv!Present
  <2>3. ASSUME NEW d \in details, details' = details \ {d}, invAssets' = invAssets
        PROVE  InvRows'
    BY <1>0, <2>3, AssetsKept DEF Inv!Present
  <2> QED
    BY <1>5, <2>1, <2>2, <2>3 DEF Inv!Elsewhere
<1>6. ASSUME UNCHANGED <<invAssets, details>> PROVE InvRows'
  BY <1>0, <1>6, AssetsKept DEF Inv!Present
<1>7. \A a \in InvAssets : Inv!RegisterAIModel(a) => UNCHANGED <<invAssets, details>>
  BY DEF Inv!RegisterAIModel
<1>8. Inv!ScanCryptoAssets \/ Inv!DiscoverHardware \/ Inv!SyncInfrastructure \/ Inv!ExportInventory
        \/ Inv!InvOutage \/ UNCHANGED inventoryVars
      => UNCHANGED <<invAssets, details>>
  BY DEF Inv!ScanCryptoAssets, Inv!DiscoverHardware, Inv!SyncInfrastructure, Inv!ExportInventory,
         Inv!InvOutage, inventoryVars
<1> QED
  BY <1>1, <1>2, <1>3, <1>4, <1>5, <1>6, <1>7, <1>8 DEF Inv!Operation

LEMMA InvCounts == \A S : Inv!Cardinality(S) = Cardinality(S)
BY DEF Inv!Cardinality, Cardinality

LEMMA CountsAreNumbers == ASSUME InvRows PROVE \A q \in InvQueries : Inv!Count(q) \in Nat
<1>1. IsFiniteSet(Inv!Present) /\ IsFiniteSet(details)
  BY FS_Subset, FiniteParameters DEF Inv!Present, InvRows
<1>2. ASSUME NEW q \in InvQueries
      PROVE  \E S : (S \subseteq Inv!Present \/ S \subseteq details) /\ Inv!Count(q) = Cardinality(S)
  <2>1. Inv!CountedAssets(q) \subseteq Inv!Present /\ Inv!CountedDetails(q) \subseteq details
    BY DEF Inv!CountedAssets, Inv!CountedDetails
  <2> QED
    BY <2>1, InvCounts, Zenon DEF Inv!Count
<1> QED
  BY <1>1, <1>2, FS_Subset, FS_CardinalityType

LEMMA ThirteenQueries ==
  /\ Len(Inv!SummaryQueries) = 13 /\ \A k \in 1 .. 13 : Inv!SummaryQueries[k] \in InvQueries
  /\ \A q \in InvQueries : \E k \in 1 .. 13 : Inv!SummaryQueries[k] = q
<1> DEFINE s == Inv!SummaryQueries
<1>1. Len(s) = 13 /\ DOMAIN s = 1 .. 13
  BY DEF Inv!SummaryQueries
<1>2. /\ s[1] = "total" /\ s[2] = "cryptographic" /\ s[3] = "ai" /\ s[4] = "hardware"
      /\ s[5] = "software" /\ s[6] = "infrastructure" /\ s[7] = "aws" /\ s[8] = "gcp"
      /\ s[9] = "ibm_cloud" /\ s[10] = "azure" /\ s[11] = "safe" /\ s[12] = "unsafe"
      /\ s[13] = "vulnerable"
  BY DEF Inv!SummaryQueries
<1> HIDE DEF s
<1>3. \A k \in 1 .. 13 : k \in {1, 2, 3, 4, 5, 6, 7, 8, 9, 10, 11, 12, 13}
  OBVIOUS
<1>4. \A k \in 1 .. 13 : s[k] \in InvQueries
  BY <1>2, <1>3 DEF InvQueries, Inv!Categories, Inv!SummaryProviders
<1>5. ASSUME NEW q \in InvQueries PROVE \E k \in 1 .. 13 : s[k] = q
  BY <1>2 DEF InvQueries, Inv!Categories, Inv!SummaryProviders
<1> QED
  BY <1>1, <1>4, <1>5 DEF s

(* A write ends the summary that is followed; a query adds what there is.    *)
LEMMA InvStep == InvInv /\ [Inv!Next]_inventoryVars => InvInv'
<1> SUFFICES ASSUME InvInv, [Inv!Next]_inventoryVars PROVE InvInv'
  OBVIOUS
<1>0. InvRows /\ InvRows'
  <2>1. Inv!BeginSummary \/ Inv!GetInventorySummary \/ UNCHANGED inventoryVars
          => UNCHANGED <<invAssets, details>>
    BY DEF Inv!BeginSummary, Inv!GetInventorySummary, inventoryVars
  <2>2. UNCHANGED <<invAssets, details>> => InvRows'
    BY DEF InvInv, InvRows, Inv!Present
  <2> QED
    BY <2>1, <2>2, RowsStep DEF InvInv, Inv!Next
<1>1. CASE invSummary' = None
  BY <1>0, <1>1 DEF InvInv
<1>2. CASE UNCHANGED <<invAssets, details, invSummary>>
  BY <1>0, <1>2 DEF InvInv, Inv!Count, Inv!CountedAssets, Inv!CountedDetails, Inv!Present
<1>3. CASE Inv!Operation /\ Inv!Undisturbed
  BY <1>1, <1>2, <1>3 DEF Inv!Undisturbed
<1>4. CASE Inv!BeginSummary
  <2>1. invSummary' = [made |-> 0, counts |-> [q \in InvQueries |-> 0]]
    BY <1>4 DEF Inv!BeginSummary, InvQueries
  <2> QED
    BY <1>0, <2>1 DEF InvInv
<1>5. CASE Inv!GetInventorySummary
  <2> DEFINE s == invSummary
             query == Inv!SummaryQueries[s.made + 1]
             n == Inv!Count(query)
  <2>1. /\ s # None /\ s.made < 13 /\ UNCHANGED <<invAssets, details>>
        /\ s' = None \/ s' = [s EXCEPT !.made = @ + 1, !.counts[query] = n]
    BY <1>5, ThirteenQueries DEF Inv!GetInventorySummary
  <2>2. /\ s \in [made : 0 .. 13, counts : [InvQueries -> Nat]]
        /\ \A k \in 1 .. 13 : k <= s.made =>
             s.counts[Inv!SummaryQueries[k]] = Inv!Count(Inv!SummaryQueries[k])
    BY <2>1 DEF InvInv
  <2>3. query \in InvQueries /\ n \in Nat
    BY <1>0, <2>1, <2>2, CountsAreNumbers, ThirteenQueries
  <2>4. CASE s' = [s EXCEPT !.made = @ + 1, !.counts[query] = n]
    <3> HIDE DEF n
    <3>1. /\ s' \in [made : 0 .. 13, counts : [InvQueries -> Nat]] /\ s'.made = s.made + 1
          /\ s'.counts[query] = n /\ \A q \in InvQueries \ {query} : s'.counts[q] = s.counts[q]
      <4> DEFINE c == [s.counts EXCEPT ![query] = n]
      <4>1. s' = [s EXCEPT !.made = s.made + 1, !.counts = c]
        BY <2>4, Zenon
      <4> HIDE DEF query
      <4>2. c \in [InvQueries -> Nat] /\ c[query] = n
            /\ \A q \in InvQueries \ {query} : c[q] = s.counts[q]
        BY <2>2, <2>3
      <4> HIDE DEF c
      <4>3. s' = [made |-> s.made + 1, counts |-> c]
        BY <2>2, <4>1
      <4> QED
        BY <2>1, <2>2, <4>2, <4>3
    <3>2. \A q : Inv!Count(q)' = Inv!Count(q)
      BY <2>1 DEF Inv!Count, Inv!CountedAssets, Inv!CountedDetails, Inv!Present
    <3>3. ASSUME NEW k \in 1 .. 13, k <= s'.made
          PROVE  s'.counts[Inv!SummaryQueries[k]] = Inv!Count(Inv!SummaryQueries[k])
      <4>1. CASE Inv!SummaryQueries[k] = query
        BY <3>1, <4>1 DEF n
      <4>2. CASE Inv!SummaryQueries[k] # query
        <5>1. k <= s.made /\ Inv!SummaryQueries[k] \in InvQueries
          BY <2>2, <3>1, <3>3, <4>2, ThirteenQueries
        <5> QED
          BY <2>2, <3>1, <4>2, <5>1
      <4> QED
        BY <4>1, <4>2
    <3> QED
      BY <1>0, <3>1, <3>2, <3>3 DEF InvInv, Inv!SummaryQueries
  <2> QED
    BY <1>1, <2>1, <2>4
<1>6. CASE UNCHANGED inventoryVars
  BY <1>2, <1>6 DEF inventoryVars
<1> QED
  BY <1>3, <1>4, <1>5, <1>6 DEF Inv!Next

LEMMA InvSteps == [Next]_serviceVars /\ world = "inventory" => [Inv!Next]_inventoryVars
BY DEF Next, serviceVars

(* Each asset is of one of the five categories. *)
LEMMA FiveCategories ==
  ASSUME InvRows
  PROVE  LET of(c) == {a \in Inv!Present : invAssets[a].category = c}
         IN  Cardinality(Inv!Present)
               = Cardinality(of("cryptographic")) + Cardinality(of("ai")) + Cardinality(of("hardware"))
                 + Cardinality(of("software")) + Cardinality(of("infrastructure"))
<1> DEFINE S == Inv!Present
           of(c) == {a \in Inv!Present : invAssets[a].category = c}
           A1 == of("cryptographic")
           A2 == of("ai")
           A3 == of("hardware")
           A4 == of("software")
           A5 == of("infrastructure")
<1>1. IsFiniteSet(S)
  BY FS_Subset, FiniteParameters DEF Inv!Present
<1>2. \A a \in S : invAssets[a].category \in Inv!Categories
  BY DEF InvRows, Inv!Present, Inv!Rows
<1>3. Partition(S, A1, A2, A3, A4, A5)
  <2>1. S = A1 \cup A2 \cup A3 \cup A4 \cup A5
    BY <1>2 DEF Inv!Categories
  <2> QED
    BY <2>1 DEF Partition
<1> HIDE DEF A1, A2, A3, A4, A5, S
<1>4. Cardinality(S) = Cardinality(A1) + Cardinality(A2) + Cardinality(A3) + Cardinality(A4)
                         + Cardinality(A5)
  BY <1>1, <1>3, FiveParts
<1> QED
  BY <1>4 DEF S, A1, A2, A3, A4, A5

LEMMA MoreThan == \A m, n \in Nat : m <= n /\ m # n => n > m
OBVIOUS


(* An answer of the list, of the rows it took. *)
LEMMA AnyListFits ==
  ASSUME InvRows, NEW category \in Inv!Categories \cup {""}, NEW provider \in Inv!Providers \cup {""},
         NEW listed \in Inv!ListAssets(category, provider)
  PROVE  Inv!ListFits(category, provider, listed)
<1> DEFINE matching == Inv!Matching(category, provider)
           of == UNION {Inv!ListAssetsByCategory(c) :
                          c \in IF category = "" THEN Inv!Categories ELSE {category}}
           from == UNION {Inv!ListAssetsByCloudProvider(p) :
                            p \in IF provider = "" THEN Inv!Providers ELSE {provider}}
<1>1. PICK T \in SUBSET matching : /\ Cardinality(T) <= ListLimit /\ (T = matching \/ Cardinality(T) = ListLimit)
                               /\ listed = {a \in T : Inv!Scannable(a)}
  BY InvCounts, Zenon DEF Inv!ListAssets
<1>2. "" \notin Inv!Categories /\ "" \notin Inv!Providers
  BY DEF Inv!Categories, Inv!Providers
<1>3. \A a \in Inv!Present : invAssets[a].category \in Inv!Categories
  BY DEF InvRows, Inv!Present, Inv!Rows
<1>4. \A a \in Inv!Present : Inv!Scannable(a) => invAssets[a].provider \in Inv!Providers
  BY DEF InvRows, Inv!Present, Inv!Rows, Inv!Scannable
<1>5. of = {a \in Inv!Present : Inv!Scannable(a) /\ (category # "" => invAssets[a].category = category)}
  <2>1. \A c \in Inv!Categories : \A a :
          a \in Inv!ListAssetsByCategory(c)
            <=> a \in Inv!Present /\ Inv!Scannable(a) /\ invAssets[a].category = c
    BY <1>2 DEF Inv!ListAssetsByCategory, Inv!Matching
  <2>2. \A a : a \in of <=> \E c \in IF category = "" THEN Inv!Categories ELSE {category} : a \in Inv!ListAssetsByCategory(c)
    BY Zenon
  <2> HIDE DEF of
  <2>3. CASE category = ""
    <3>1. \A a : a \in of <=> \E c \in Inv!Categories : a \in Inv!ListAssetsByCategory(c)
      BY <2>2, <2>3
    <3>2. \A a : a \in of <=> a \in Inv!Present /\ Inv!Scannable(a)
      BY <1>3, <2>1, <3>1, Zenon
    <3> QED
      BY <2>3, <3>2
  <2>4. CASE category # ""
    BY <2>1, <2>2, <2>4
  <2> QED
    BY <2>3, <2>4
<1>6. from = {a \in Inv!Present : Inv!Scannable(a) /\ (provider # "" => invAssets[a].provider = provider)}
  <2>1. \A p \in Inv!Providers : \A a :
          a \in Inv!ListAssetsByCloudProvider(p)
            <=> a \in Inv!Present /\ Inv!Scannable(a) /\ invAssets[a].provider = p
    BY <1>2 DEF Inv!ListAssetsByCloudProvider, Inv!Matching
  <2>2. \A a : a \in from <=> \E p \in IF provider = "" THEN Inv!Providers ELSE {provider} : a \in Inv!ListAssetsByCloudProvider(p)
    BY Zenon
  <2> HIDE DEF from
  <2>3. CASE provider = ""
    <3>1. \A a : a \in from <=> \E p \in Inv!Providers : a \in Inv!ListAssetsByCloudProvider(p)
      BY <2>2, <2>3
    <3>2. \A a : a \in from <=> a \in Inv!Present /\ Inv!Scannable(a)
      BY <1>4, <2>1, <3>1, Zenon
    <3> QED
      BY <2>3, <3>2
  <2>4. CASE provider # ""
    BY <2>1, <2>2, <2>4
  <2> QED
    BY <2>3, <2>4
<1>7. of \cap from = {a \in matching : Inv!Scannable(a)} /\ matching \subseteq Inv!Present
  BY <1>5, <1>6 DEF Inv!Matching
<1> HIDE DEF matching, of, from
<1>8. listed \subseteq of \cap from
  BY <1>1, <1>7
<1>9. listed = of \cap from \/ Inv!Cardinality(matching) > ListLimit
  <2> SUFFICES ASSUME T # matching PROVE Cardinality(matching) > ListLimit
    BY <1>1, <1>7, InvCounts
  <2>1. IsFiniteSet(matching)
    BY <1>7, FS_Subset, FiniteParameters DEF Inv!Present
  <2> DEFINE some == Cardinality(T)
             all == Cardinality(matching)
  <2>2. some <= all /\ some # all
    BY <1>1, <2>1, FS_Subset
  <2>3. some \in Nat /\ all \in Nat
    BY <1>1, <2>1, FS_Subset, FS_CardinalityType
  <2>4. some = ListLimit
    BY <1>1
  <2>5. all > some
    <3> HIDE DEF some, all
    <3> QED
      BY <2>2, <2>3, MoreThan, Zenon
  <2> QED
    <3> HIDE DEF some
    <3> QED
      BY <2>4, <2>5, Zenon
<1>10. \A a \in listed : Inv!GetAsset(a) = 200
  <2> SUFFICES ASSUME NEW a \in listed PROVE Inv!GetAsset(a) = 200
    OBVIOUS
  <2>1. Inv!Scannable(a) /\ a \in Inv!Present
    <3>1. a \in {b \in T : Inv!Scannable(b)}
      BY <1>1, Zenon
    <3> QED
      BY <1>7, <3>1, Zenon
  <2> QED
    BY <2>1, Zenon DEF Inv!GetAsset
<1> QED
  BY <1>8, <1>9, <1>10 DEF Inv!ListFits, matching, of, from

(* A summary that was made without a write or an error in between.           *)
LEMMA WholeSummaryFits ==
  ASSUME InvInv, invSummary # None, invSummary.made = 13
  PROVE  Inv!SummaryFits
<1> DEFINE counts == invSummary.counts
           of(c) == {a \in Inv!Present : invAssets[a].category = c}
<1>1. \A q \in InvQueries : counts[q] = Inv!Count(q) /\ counts[q] \in Nat
  BY ThirteenQueries DEF InvInv
<1>2. InvRows /\ IsFiniteSet(Inv!Present)
  BY FS_Subset, FiniteParameters DEF Inv!Present, InvInv
<1> HIDE DEF counts
<1>3. counts["total"] = Cardinality(Inv!Present)
  <2>1. Inv!CountedAssets("total") = Inv!Present
    BY DEF Inv!CountedAssets
  <2> QED
    BY <1>1, <2>1, InvCounts DEF Inv!Count, InvQueries
<1>4. \A c \in Inv!Categories : counts[c] = Cardinality(of(c))
  <2> SUFFICES ASSUME NEW c \in Inv!Categories PROVE counts[c] = Cardinality(of(c))
    OBVIOUS
  <2>1. \A a \in Inv!Present : invAssets[a].category \in Inv!Categories
                              /\ invAssets[a].provider \in Inv!Providers \cup {"null"}
    BY <1>2 DEF InvRows, Inv!Present, Inv!Rows
  <2>2. Inv!CountedAssets(c) = of(c)
    BY <2>1 DEF Inv!CountedAssets, Inv!Categories, Inv!Providers
  <2>3. counts[c] = Inv!Count(c) /\ c \notin {"safe", "unsafe", "vulnerable"}
    BY <1>1 DEF InvQueries, Inv!Categories
  <2> QED
    BY <2>2, <2>3, InvCounts, Zenon DEF Inv!Count
<1>5. counts["total"] = counts["cryptographic"] + counts["ai"] + counts["hardware"]
                          + counts["software"] + counts["infrastructure"]
  BY <1>2, <1>3, <1>4, FiveCategories, Zenon DEF Inv!Categories
<1>6. ASSUME NEW p \in Inv!SummaryProviders
      PROVE  Inv!Cardinality(Inv!ListAssetsByCloudProvider(p)) <= counts[p]
  <2> DEFINE from == {a \in Inv!Present : invAssets[a].provider = p}
  <2>1. counts[p] = Cardinality(from)
    <3>1. \A a \in Inv!Present : invAssets[a].category \in Inv!Categories
      BY <1>2 DEF InvRows, Inv!Present, Inv!Rows
    <3>2. Inv!CountedAssets(p) = from
      BY <3>1 DEF Inv!CountedAssets, Inv!Categories, Inv!SummaryProviders
    <3>3. counts[p] = Inv!Count(p) /\ p \notin {"safe", "unsafe", "vulnerable"}
      BY <1>1 DEF InvQueries, Inv!SummaryProviders
    <3> QED
      BY <3>2, <3>3, InvCounts, Zenon DEF Inv!Count
  <2>2. Inv!ListAssetsByCloudProvider(p) \subseteq from
    BY DEF Inv!ListAssetsByCloudProvider, Inv!Matching, Inv!SummaryProviders
  <2>3. from \subseteq Inv!Present
    OBVIOUS
  <2> HIDE DEF from
  <2> QED
    BY <1>2, <2>1, <2>2, <2>3, FS_Subset, InvCounts
<1>7. ASSUME counts["cryptographic"] = 0
      PROVE  counts["safe"] = 0 /\ counts["unsafe"] = 0 /\ counts["vulnerable"] = 0
  <2>1. of("cryptographic") = {}
    <3>1. Cardinality(of("cryptographic")) = 0
      BY <1>4, <1>7 DEF Inv!Categories
    <3>2. IsFiniteSet(of("cryptographic"))
      BY <1>2, FS_Subset
    <3> QED
      BY <3>1, <3>2, FS_EmptySet
  <2>2. \A d \in details : d.table # "cryptographic"
    BY <1>2, <2>1 DEF InvRows
  <2>3. \A q : Inv!CountedDetails(q) = {}
    BY <2>2 DEF Inv!CountedDetails
  <2>4. Cardinality({}) = 0
    BY FS_EmptySet
  <2>5. Inv!Count("safe") = 0 /\ Inv!Count("unsafe") = 0 /\ Inv!Count("vulnerable") = 0
    BY <2>3, <2>4, InvCounts DEF Inv!Count
  <2> QED
    BY <1>1, <2>5 DEF InvQueries
<1>8. counts["safe"] + counts["unsafe"] + counts["vulnerable"] > 0 => counts["cryptographic"] > 0
  BY <1>1, <1>7 DEF InvQueries, Inv!Categories
<1> QED
  BY <1>5, <1>6, <1>8 DEF Inv!SummaryFits, counts

InvHolds == world = "inventory" => InvInv

(* The lists of the inventory agree with each other, and a summary with them *)
(* when nothing was written while it counted, whatever was created, updated  *)
(* and deleted by whom before.                                               *)
THEOREM InventoryAgrees == Spec => []InventoryViewsAgree
<1>1. Init => InvHolds
  BY InvInit DEF Init, InvHolds
<1>2. InvHolds /\ [Next]_serviceVars => InvHolds'
  BY WorldStays, InvSteps, InvStep DEF InvHolds
<1>3. InvHolds => InventoryViewsAgree
  <2> SUFFICES ASSUME InvInv PROVE Inv!InventoryViewsAgree
    BY DEF InvHolds, InventoryViewsAgree
  <2>1. \A d \in Inv!ListCryptoAssets \cup Inv!ListAIAssets \cup Inv!ListHardwareAssets
                  \cup Inv!ListSoftwareAssets \cup Inv!ListInfrastructureAssets :
          d.asset \in Inv!Present /\ invAssets[d.asset].category = d.table
    BY DEF InvInv, InvRows, Inv!ListCryptoAssets, Inv!ListAIAssets, Inv!ListHardwareAssets,
           Inv!ListSoftwareAssets, Inv!ListInfrastructureAssets, Inv!Scanned
  <2>2. InvRows
    BY DEF InvInv
  <2> QED
    BY <2>1, <2>2, AnyListFits, WholeSummaryFits, ThirteenQueries DEF Inv!InventoryViewsAgree
<1> QED
  BY <1>1, <1>2, <1>3, PTL DEF Spec

-----------------------------------------------------------------------------
(* A finite set of numbers that is not empty has a greatest one: a smallest  *)
(* set without one has one, as it has when an element is put back.           *)
LEMMA Greatest ==
  ASSUME NEW S, IsFiniteSet(S), S \subseteq Nat, S # {}
  PROVE  \E m \in S : \A i \in S : i <= m
<1> DEFINE Without == {T \in FiniteSubsetsOf(S) : T # {} /\ ~\E m \in T : \A i \in T : i <= m}
<1> SUFFICES ASSUME Without # {} PROVE FALSE
  <2>1. S \in FiniteSubsetsOf(S)
    BY DEF FiniteSubsetsOf
  <2> QED
    BY <2>1, Zenon
<1>1. PICK T \in Without : \A U \in Without : <<U, T>> \notin StrictSubsetOrdering(S)
  <2>1. Without \subseteq FiniteSubsetsOf(S)
    OBVIOUS
  <2> HIDE DEF Without
  <2> QED
    BY <2>1, FS_StrictSubsetOrderingWellFounded, WFMin, Zenon
<1>2. /\ T \in SUBSET S /\ IsFiniteSet(T) /\ T # {} /\ ~\E m \in T : \A i \in T : i <= m
  BY DEF FiniteSubsetsOf
<1>3. PICK x \in T : x \in Nat
  BY <1>2
<1> DEFINE U == T \ {x}
<1>4. IsFiniteSet(U) /\ U \in SUBSET S /\ U # T
  BY <1>2, FS_RemoveElement
<1>5. U \notin Without
  BY <1>1, <1>2, <1>4 DEF StrictSubsetOrdering
<1>6. U = {} \/ \E m \in U : \A i \in U : i <= m
  BY <1>4, <1>5 DEF FiniteSubsetsOf
<1>7. CASE U = {}
  <2>1. \A i \in T : i <= x
    BY <1>2, <1>3, <1>7
  <2> QED
    BY <1>2, <2>1
<1>8. ASSUME NEW m \in U, \A i \in U : i <= m PROVE FALSE
  <2>1. m \in Nat /\ m \in T /\ \A i \in T : i \in Nat
    BY <1>2
  <2>2. CASE x <= m
    <3>1. \A i \in T : i <= m
      BY <1>8, <2>2
    <3> QED
      BY <1>2, <2>1, <3>1
  <2>3. CASE ~(x <= m)
    <3>1. \A i \in T : i <= x
      BY <1>3, <1>8, <2>1, <2>3
    <3> QED
      BY <1>2, <3>1
  <2> QED
    BY <2>2, <2>3
<1> QED
  BY <1>6, <1>7, <1>8

LEMMA GreatestIsMax ==
  ASSUME NEW S, IsFiniteSet(S), S \subseteq Nat, S # {}
  PROVE  Cloud!Max(S) \in S /\ \A i \in S : i <= Cloud!Max(S)
<1>1. \E m \in S : \A i \in S : m >= i
  BY Greatest
<1>2. Cloud!Max(S) \in S /\ \A i \in S : Cloud!Max(S) >= i
  BY <1>1, Zenon DEF Cloud!Max
<1> QED
  BY <1>2

LEMMA CloudCounts == \A S : Cloud!Cardinality(S) = Cardinality(S)
BY DEF Cloud!Cardinality, Cardinality

(* A page has the lowest elements of a set, and no more than asked for; all  *)
(* of them if that is enough.                                                *)
LEMMA PageOf ==
  ASSUME NEW S, IsFiniteSet(S), S \subseteq Nat, NEW n \in Nat
  PROVE  /\ Cloud!Upto(S, n) \subseteq S /\ IsFiniteSet(Cloud!Upto(S, n))
         /\ Cardinality(Cloud!Upto(S, n)) <= n
         /\ \A i \in Cloud!Upto(S, n), j \in S : j <= i => j \in Cloud!Upto(S, n)
         /\ Cardinality(S) <= n => Cloud!Upto(S, n) = S
<1> DEFINE low(i) == {j \in S : j <= i}
           page == Cloud!Upto(S, n)
<1>1. page = {i \in S : Cardinality(low(i)) <= n}
  BY CloudCounts, Zenon DEF Cloud!Upto
<1>2. \A i : low(i) \in SUBSET S /\ IsFiniteSet(low(i)) /\ Cardinality(low(i)) \in Nat
             /\ Cardinality(low(i)) <= Cardinality(S)
  BY FS_Subset, FS_CardinalityType
<1>3. page \in SUBSET S /\ IsFiniteSet(page) /\ Cardinality(page) \in Nat /\ Cardinality(S) \in Nat
  BY <1>1, FS_Subset, FS_CardinalityType
<1>4. Cardinality(page) <= n
  <2>1. CASE page = {}
    BY <2>1, FS_EmptySet
  <2>2. CASE page # {}
    <3>1. PICK m \in page : \A i \in page : i <= m
      BY <1>3, <2>2, Greatest
    <3>2. page \in SUBSET low(m)
      BY <1>3, <3>1
    <3>3. Cardinality(page) <= Cardinality(low(m))
      BY <1>2, <3>2, FS_Subset
    <3>4. Cardinality(low(m)) <= n
      BY <1>1
    <3> HIDE DEF page, low
    <3> QED
      BY <1>2, <1>3, <3>3, <3>4
  <2> QED
    BY <2>1, <2>2
<1>5. ASSUME NEW i \in page, NEW j \in S, j <= i PROVE j \in page
  <2>1. low(j) \in SUBSET low(i)
    <3> SUFFICES ASSUME NEW k \in S, k <= j PROVE k <= i
      BY Zenon
    <3>1. i \in Nat /\ j \in Nat /\ k \in Nat
      BY <1>3
    <3> HIDE DEF page, low
    <3> QED
      BY <1>5, <3>1
  <2>2. Cardinality(low(j)) <= Cardinality(low(i))
    BY <1>2, <2>1, FS_Subset
  <2>3. Cardinality(low(i)) <= n
    BY <1>1
  <2> HIDE DEF low
  <2>4. Cardinality(low(j)) <= n
    BY <1>2, <2>2, <2>3
  <2> QED
    BY <1>1, <2>4
<1>6. Cardinality(S) <= n => page = S
  <2> SUFFICES ASSUME Cardinality(S) <= n, NEW i \in S PROVE Cardinality(low(i)) <= n
    BY <1>1
  <2>1. /\ Cardinality(low(i)) \in Nat /\ Cardinality(S) \in Nat
        /\ Cardinality(low(i)) <= Cardinality(S)
    BY <1>2, <1>3
  <2> HIDE DEF low, page
  <2> QED
    BY <2>1
<1> QED
  BY <1>3, <1>4, <1>5, <1>6

-----------------------------------------------------------------------------
(* The listings of a provider are of different services, the EKS clusters    *)
(* come last, and no listing is made of IBM Cloud.                           *)
Listed3 == {"aws", "gcp", "azure"}
LEMMA ServiceLists ==
  ASSUME NEW p \in Listed3
  PROVE  LET L == Cloud!Services(p)
         IN  /\ Len(L) \in Nat \ {0} /\ DOMAIN L = 1 .. Len(L)
             /\ \A n \in DOMAIN L : L[n] \in Cloud!AllServices
             /\ \A m, n \in DOMAIN L : L[m] = L[n] => m = n
             /\ \A n \in DOMAIN L : L[n] = "eks" => n = Len(L)
<1> DEFINE aws == <<"ec2", "s3", "rds", "eks">>
           gcp == <<"compute", "storage", "gke">>
           azure == <<"virtual_machines", "storage_accounts", "aks">>
<1>1. /\ Cloud!Services("aws") = aws /\ Cloud!Services("gcp") = gcp
      /\ Cloud!Services("azure") = azure
  BY DEF Cloud!Services
<1>2. \A n \in DOMAIN Cloud!Services(p) : Cloud!Services(p)[n] \in Cloud!AllServices
  <2>1. p \in Cloud!Providers
    BY DEF Listed3, Cloud!Providers
  <2> DEFINE of(q) == {Cloud!Services(q)[n] : n \in DOMAIN Cloud!Services(q)}
  <2>2. of(p) \in {of(q) : q \in Cloud!Providers}
    BY <2>1, Zenon
  <2>3. \A n \in DOMAIN Cloud!Services(p) : Cloud!Services(p)[n] \in of(p)
    BY Zenon
  <2>4. Cloud!AllServices = UNION {of(q) : q \in Cloud!Providers}
    BY Zenon DEF Cloud!AllServices
  <2> HIDE DEF of
  <2> QED
    BY <2>2, <2>3, <2>4, Zenon
<1>3. CASE p = "aws"
  <2>1. Len(aws) = 4 /\ DOMAIN aws = 1 .. 4
    OBVIOUS
  <2>2. Len(aws) \in Nat \ {0} /\ DOMAIN aws = 1 .. Len(aws)
    OBVIOUS
  <2>3. aws[1] = "ec2" /\ aws[2] = "s3" /\ aws[3] = "rds" /\ aws[4] = "eks"
    OBVIOUS
  <2>4. \A n \in 1 .. 4 : n = 1 \/ n = 2 \/ n = 3 \/ n = 4
    OBVIOUS
  <2> HIDE DEF aws, gcp, azure
  <2>5. \A m, n \in DOMAIN aws : aws[m] = aws[n] => m = n
    BY <2>1, <2>3, <2>4
  <2>6. \A n \in DOMAIN aws : aws[n] = "eks" => n = Len(aws)
    BY <2>1, <2>3, <2>4
  <2>7. Cloud!Services(p) = aws
    BY <1>1, <1>3
  <2> QED
    BY <1>2, <2>2, <2>5, <2>6, <2>7, Zenon
<1>4. CASE p = "gcp"
  <2>1. Len(gcp) = 3 /\ DOMAIN gcp = 1 .. 3
    OBVIOUS
  <2>2. Len(gcp) \in Nat \ {0} /\ DOMAIN gcp = 1 .. Len(gcp)
    OBVIOUS
  <2>3. gcp[1] = "compute" /\ gcp[2] = "storage" /\ gcp[3] = "gke"
    OBVIOUS
  <2>4. \A n \in 1 .. 3 : n = 1 \/ n = 2 \/ n = 3
    OBVIOUS
  <2> HIDE DEF aws, gcp, azure
  <2>5. \A m, n \in DOMAIN gcp : gcp[m] = gcp[n] => m = n
    BY <2>1, <2>3, <2>4
  <2>6. \A n \in DOMAIN gcp : gcp[n] = "eks" => n = Len(gcp)
    BY <2>1, <2>3, <2>4
  <2>7. Cloud!Services(p) = gcp
    BY <1>1, <1>4
  <2> QED
    BY <1>2, <2>2, <2>5, <2>6, <2>7, Zenon
<1>5. CASE p = "azure"
  <2>1. Len(azure) = 3 /\ DOMAIN azure = 1 .. 3
    OBVIOUS
  <2>2. Len(azure) \in Nat \ {0} /\ DOMAIN azure = 1 .. Len(azure)
    OBVIOUS
  <2>3. azure[1] = "virtual_machines" /\ azure[2] = "storage_accounts" /\ azure[3] = "aks"
    OBVIOUS
  <2>4. \A n \in 1 .. 3 : n = 1 \/ n = 2 \/ n = 3
    OBVIOUS
  <2> HIDE DEF aws, gcp, azure
  <2>5. \A m, n \in DOMAIN azure : azure[m] = azure[n] => m = n
    BY <2>1, <2>3, <2>4
  <2>6. \A n \in DOMAIN azure : azure[n] = "eks" => n = Len(azure)
    BY <2>1, <2>3, <2>4
  <2>7. Cloud!Services(p) = azure
    BY <1>1, <1>5
  <2> QED
    BY <1>2, <2>2, <2>5, <2>6, <2>7, Zenon
<1> QED
  BY <1>3, <1>4, <1>5 DEF Listed3

(* What one call to a listing returns of the resources after the cursor:     *)
(* there is no gap up to the last of the page, and nothing is left when no   *)
(* page is to follow, but of the EKS clusters.                               *)
LEMMA PagesHaveNoGaps ==
  ASSUME cloud \in [Cloud!AllServices -> SUBSET Items], NEW s \in Cloud!AllServices, NEW cursor \in Nat
  PROVE  LET page == Cloud!NextPage(s, cursor)
             left == {i \in cloud[s] : i > cursor}
         IN  /\ page.items \in SUBSET left /\ IsFiniteSet(page.items)
             /\ \A i \in page.items, j \in left : j <= i => j \in page.items
             /\ page.more => s \notin {"s3", "gke", "eks"}
             /\ ~page.more /\ s # "eks" => page.items = left
             /\ s = "eks" => ~page.more /\ Cardinality(page.items) <= PageSize
<1> DEFINE left == {i \in cloud[s] : i > cursor}
           size == IF s \in {"s3", "gke"} THEN Cardinality(Items) ELSE PageSize
           page == Cloud!NextPage(s, cursor)
<1>1. left \in SUBSET Items
  OBVIOUS
<1>2. left \subseteq Nat /\ IsFiniteSet(left) /\ Cardinality(left) \in Nat
      /\ Cardinality(left) <= Cardinality(Items) /\ Cardinality(Items) \in Nat
  BY <1>1, FS_Subset, FS_CardinalityType, FiniteParameters
<1>3. size \in Nat
  BY <1>2, FiniteParameters
<1>4. page = [items |-> Cloud!Upto(left, size),
              more |-> s \notin {"s3", "gke", "eks"} /\ Cloud!Upto(left, size) # left]
  BY CloudCounts, Zenon DEF Cloud!NextPage, Cloud!After, Cloud!OneCall
<1>5. page.items = Cloud!Upto(left, size)
      /\ (page.more <=> s \notin {"s3", "gke", "eks"} /\ Cloud!Upto(left, size) # left)
  <2> HIDE DEF page, left, size
  <2> QED
    BY <1>4
<1>6. s \in {"s3", "gke"} => Cardinality(left) <= size
  BY <1>2
<1>7. s = "eks" => size = PageSize
  OBVIOUS
<1> HIDE DEF left, size, page
<1>8. /\ Cloud!Upto(left, size) \subseteq left /\ IsFiniteSet(Cloud!Upto(left, size))
      /\ Cardinality(Cloud!Upto(left, size)) <= size
      /\ \A i \in Cloud!Upto(left, size), j \in left : j <= i => j \in Cloud!Upto(left, size)
      /\ Cardinality(left) <= size => Cloud!Upto(left, size) = left
  BY <1>2, <1>3, PageOf
<1>9. /\ page.items \in SUBSET left /\ IsFiniteSet(page.items)
      /\ \A i \in page.items, j \in left : j <= i => j \in page.items
      /\ page.more => s \notin {"s3", "gke", "eks"}
      /\ ~page.more /\ s # "eks" => page.items = left
      /\ s = "eks" => ~page.more /\ Cardinality(page.items) <= PageSize
  BY <1>5, <1>6, <1>7, <1>8
<1> QED
  BY <1>9 DEF left, page

(* Resources that were not there add to a list as many as they are. *)
Pairs(s, S) == {<<s, i>> : i \in S}
LEMMA PairsAdded ==
  ASSUME NEW F, IsFiniteSet(F), NEW s, NEW S, IsFiniteSet(S), \A i \in S : <<s, i>> \notin F
  PROVE  /\ IsFiniteSet(F \cup Pairs(s, S))
         /\ Cardinality(F \cup Pairs(s, S)) = Cardinality(F) + Cardinality(S)
<1> DEFINE pairs == Pairs(s, S)
           f == [i \in S |-> <<s, i>>]
<1>1. f \in [S -> pairs] /\ \A i \in S : f[i] = <<s, i>>
  BY DEF Pairs
<1>2. \A i, j \in S : f[i] = f[j] => i = j
  BY <1>1
<1>3. \A x \in pairs : \E i \in S : f[i] = x
  BY <1>1 DEF Pairs
<1>4. F \cap pairs = {}
  BY DEF Pairs
<1> HIDE DEF pairs, f
<1>5. f \in Bijection(S, pairs)
  BY <1>1, <1>2, <1>3, Fun_IsBij
<1>6. IsFiniteSet(pairs) /\ Cardinality(pairs) = Cardinality(S)
  BY <1>5, FS_Bijection DEF ExistsBijection
<1>7. /\ IsFiniteSet(F \cup pairs)
      /\ Cardinality(F \cup pairs) = Cardinality(F) + Cardinality(pairs) - Cardinality(F \cap pairs)
  BY <1>6, FS_Union
<1>8. Cardinality(F \cap pairs) = 0 /\ Cardinality(F) \in Nat /\ Cardinality(S) \in Nat
  BY <1>4, FS_EmptySet, FS_CardinalityType
<1> QED
  BY <1>6, <1>7, <1>8 DEF pairs

-----------------------------------------------------------------------------
(* What a request f has found of a service, and when that is all of it: what *)
(* was there throughout, st, but of the EKS clusters, of which those in sk   *)
(* were skipped.                                                             *)
Listed(f, s) == {i \in Items : <<s, i>> \in f.found}
Whole(f, s, st, sk) ==
  IF s = "eks" THEN Cardinality(Listed(f, s)) + Cardinality(sk) <= PageSize
  ELSE st[s] \subseteq Listed(f, s)

Fetches ==
  [provider : Cloud!Providers \cup {"none"}, stage : Nat, cursor : Nat,
   found : SUBSET (Cloud!AllServices \X Items), open : SUBSET Items, total : Nat,
   source : {"none", "demo", "live"}]
CloudTypes ==
  /\ cloud \in [Cloud!AllServices -> SUBSET Items] /\ steady \in [Cloud!AllServices -> SUBSET Items]
  /\ \A s \in Cloud!AllServices : steady[s] \subseteq cloud[s]
  /\ skipped \in SUBSET Items /\ fetch \in Fetches
(* The total is of what is listed, and no open bucket is listed as closed. *)
Counted(f) ==
  /\ IsFiniteSet(f.found) /\ f.total = Cardinality(f.found)
  /\ \A i \in Items : <<"s3", i>> \in f.found /\ i \notin blocked => i \in f.open
(* The services before the one that is listed are whole, that one is up to   *)
(* the cursor, and of those after it nothing is listed.  Of the EKS clusters *)
(* there is one page only.                                                   *)
Listing(f, st, sk) ==
  LET L == Cloud!Services(f.provider)
  IN  /\ f.provider \in Listed3 /\ f.source = "none" /\ f.stage \in DOMAIN L
      /\ \A n \in DOMAIN L : n < f.stage => Whole(f, L[n], st, sk)
      /\ \A n \in DOMAIN L : n > f.stage => Listed(f, L[n]) = {}
      /\ L[f.stage] = "eks" => f.cursor = 0
      /\ \A i \in Listed(f, L[f.stage]) : i <= f.cursor
      /\ \A i \in st[L[f.stage]] : i <= f.cursor => i \in Listed(f, L[f.stage])
WholeAnswer(f, st, sk) ==
  LET L == Cloud!Services(f.provider) IN \A n \in DOMAIN L : Whole(f, L[n], st, sk)
CloudInv ==
  /\ CloudTypes
  /\ Counted(fetch)
  /\ fetch.stage > 0 => Listing(fetch, steady, skipped)
  /\ fetch.source = "live" => WholeAnswer(fetch, steady, skipped)

LEMMA ItemsArePositive == \A i \in Items : i \in Nat /\ ~(i <= 0)
<1> SUFFICES ASSUME NEW i \in Items PROVE i \in Nat /\ ~(i <= 0)
  OBVIOUS
<1>1. i \in Nat \ {0}
  BY FiniteParameters
<1> QED
  BY <1>1

LEMMA CloudInit == Cloud!Init => CloudInv
<1> SUFFICES ASSUME Cloud!Init PROVE CloudInv
  OBVIOUS
<1>1. /\ cloud \in [Cloud!AllServices -> SUBSET Items] /\ steady = cloud /\ skipped = {}
      /\ fetch = Cloud!Quiet
  BY DEF Cloud!Init
<1>2. /\ fetch \in Fetches /\ fetch.stage = 0 /\ fetch.source = "none" /\ fetch.found = {}
      /\ fetch.total = 0
  BY <1>1 DEF Cloud!Quiet, Fetches
<1> QED
  BY <1>1, <1>2, FS_EmptySet DEF CloudInv, CloudTypes, Counted

(* A request that has just begun, or ends with an answer that is not live,   *)
(* has nothing to count.                                                     *)
LEMMA NothingFound == fetch'.found = {} /\ fetch'.total = 0 => Counted(fetch)'
BY FS_EmptySet DEF Counted

LEMMA BeginStep ==
  ASSUME CloudInv, NEW p \in Cloud!Providers, NEW configured \in BOOLEAN, Cloud!Begin(p, configured)
  PROVE  CloudInv'
<1> DEFINE f == [Cloud!Quiet EXCEPT !.provider = p, !.stage = 1]
           demo == [f EXCEPT !.source = "demo", !.stage = 0, !.cursor = 0]
<1>1. /\ cloud' = cloud /\ steady' = cloud /\ skipped' = {}
      /\ fetch' = IF configured /\ p # "ibm_cloud" THEN f ELSE demo
  BY DEF Cloud!Begin, Cloud!Answer
<1>2. /\ f \in Fetches /\ f.provider = p /\ f.stage = 1 /\ f.cursor = 0 /\ f.found = {} /\ f.total = 0
      /\ f.source = "none"
  BY DEF Cloud!Quiet, Fetches
<1>3. demo \in Fetches /\ demo.stage = 0 /\ demo.found = {} /\ demo.total = 0 /\ demo.source = "demo"
  BY DEF Cloud!Quiet, Fetches
<1> HIDE DEF f, demo
<1>4. CloudTypes'
  BY <1>1, <1>2, <1>3 DEF CloudInv, CloudTypes
<1>5. CASE configured /\ p # "ibm_cloud"
  <2>1. fetch' = f /\ p \in Listed3
    BY <1>1, <1>5 DEF Listed3, Cloud!Providers
  <2>2. \A s : Listed(f, s) = {}
    BY <1>2 DEF Listed
  <2>3. /\ 1 \in DOMAIN Cloud!Services(p) /\ \A n \in DOMAIN Cloud!Services(p) : ~(n < 1)
        /\ Cloud!Services(p)[1] \in Cloud!AllServices
    BY <2>1, ServiceLists
  <2>4. \A i \in steady'[Cloud!Services(p)[1]] : ~(i <= 0)
    <3>1. steady'[Cloud!Services(p)[1]] \subseteq Items
      BY <1>4, <2>3 DEF CloudTypes
    <3> QED
      BY <3>1, ItemsArePositive
  <2>5. Listing(f, steady', skipped')
    BY <1>2, <2>1, <2>2, <2>3, <2>4 DEF Listing
  <2> QED
    BY <1>2, <1>4, <2>1, <2>5, NothingFound DEF CloudInv
<1>6. CASE ~(configured /\ p # "ibm_cloud")
  BY <1>1, <1>3, <1>4, <1>6, NothingFound DEF CloudInv
<1> QED
  BY <1>5, <1>6

LEMMA FailStep ==
  ASSUME CloudInv, Cloud!ListFails
  PROVE  CloudInv'
<1>1. /\ UNCHANGED <<cloud, blocked, steady, skipped>>
      /\ fetch' = [[fetch EXCEPT !.found = {}, !.open = {}, !.total = 0]
                     EXCEPT !.source = "demo", !.stage = 0, !.cursor = 0]
  BY DEF Cloud!ListFails, Cloud!Answer
<1>2. fetch \in Fetches
  BY DEF CloudInv, CloudTypes
<1>3. /\ fetch' \in Fetches /\ fetch'.stage = 0 /\ fetch'.source = "demo" /\ fetch'.found = {}
      /\ fetch'.total = 0
  BY <1>1, <1>2 DEF Fetches
<1> QED
  BY <1>1, <1>3, NothingFound DEF CloudInv, CloudTypes

LEMMA ReceivedStep ==
  ASSUME CloudInv, Cloud!Received
  PROVE  CloudInv'
<1>1. cloud' = cloud /\ steady' = cloud /\ skipped' = {} /\ fetch' = Cloud!Quiet
  BY DEF Cloud!Received
<1>2. /\ fetch' \in Fetches /\ fetch'.stage = 0 /\ fetch'.source = "none" /\ fetch'.found = {}
      /\ fetch'.total = 0
  BY <1>1 DEF Cloud!Quiet, Fetches
<1> QED
  BY <1>1, <1>2, NothingFound DEF CloudInv, CloudTypes

(* What is whole stays so when less has been there throughout. *)
LEMMA LessIsSteady ==
  ASSUME CloudTypes, CloudTypes', NEW s \in Cloud!AllServices,
         steady'[s] \subseteq steady[s], Whole(fetch, s, steady, skipped)
  PROVE  Whole(fetch, s, steady', skipped)
BY DEF Whole

LEMMA ChangeStep ==
  ASSUME CloudInv, Cloud!CloudChanges
  PROVE  CloudInv'
<1>1. UNCHANGED <<blocked, skipped, fetch>> /\ fetch.stage > 0
  BY DEF Cloud!CloudChanges
<1>2. CloudTypes /\ Counted(fetch) /\ Listing(fetch, steady, skipped)
  BY <1>1 DEF CloudInv
<1> DEFINE L == Cloud!Services(fetch.provider)
<1>3. PICK m \in DOMAIN L, i \in Items :
        /\ cloud' = [cloud EXCEPT ![L[m]] = IF i \in cloud[L[m]] THEN cloud[L[m]] \ {i}
                                            ELSE cloud[L[m]] \cup {i}]
        /\ steady' = [steady EXCEPT ![L[m]] = steady[L[m]] \ {i}]
  BY DEF Cloud!CloudChanges
<1>4. \A n \in DOMAIN L : L[n] \in Cloud!AllServices
  BY <1>2, ServiceLists DEF Listing
<1>5. \A s \in Cloud!AllServices : steady'[s] \subseteq steady[s] /\ steady'[s] \subseteq cloud'[s]
  BY <1>2, <1>3, <1>4 DEF CloudTypes
<1>6. CloudTypes'
  <2>1. cloud' \in [Cloud!AllServices -> SUBSET Items] /\ steady' \in [Cloud!AllServices -> SUBSET Items]
    BY <1>2, <1>3, <1>4 DEF CloudTypes
  <2> QED
    BY <1>1, <1>2, <1>5, <2>1 DEF CloudTypes
<1>7. Listing(fetch, steady', skipped)
  <2>1. fetch.stage \in DOMAIN L
    BY <1>2 DEF Listing
  <2>2. \A n \in DOMAIN L : n < fetch.stage => Whole(fetch, L[n], steady', skipped)
    BY <1>2, <1>4, <1>5, <1>6, LessIsSteady DEF Listing
  <2>3. \A j \in steady'[L[fetch.stage]] : j <= fetch.cursor => j \in Listed(fetch, L[fetch.stage])
    BY <1>2, <1>4, <1>5, <2>1 DEF Listing
  <2> QED
    BY <1>2, <2>2, <2>3 DEF Listing
<1>8. fetch.source # "live"
  BY <1>2 DEF Listing
<1> QED
  BY <1>1, <1>2, <1>6, <1>7, <1>8 DEF CloudInv, Counted

(* What the page of a listing adds to a request, when the items of failed    *)
(* could not be described.                                                   *)
Page == Cloud!NextPage(Cloud!Service, fetch.cursor)
Added(failed) == IF Cloud!Service = "eks" THEN Page.items \ failed ELSE Page.items
WithPage(failed) ==
  [fetch EXCEPT
    !.found = @ \cup {<<Cloud!Service, i>> : i \in Added(failed)},
    !.open = @ \cup IF Cloud!Service = "s3"
                    THEN {i \in Added(failed) : Cloud!InspectBucket(i, i \in failed)} ELSE {},
    !.total = @ + Cloud!Cardinality(Added(failed)),
    !.cursor = IF Page.items = {} THEN @ ELSE Cloud!Max(Page.items)]

LEMMA PagePicked ==
  ASSUME Cloud!ListPage
  PROVE  /\ fetch.stage > 0 /\ UNCHANGED <<cloud, blocked, steady>>
         /\ \E failed \in SUBSET Page.items :
              /\ fetch' = IF Page.more THEN WithPage(failed) ELSE Cloud!Proceed(WithPage(failed))
              /\ skipped' = IF Cloud!Service = "eks" THEN failed ELSE skipped
<1>1. PICK failed \in IF Cloud!Service \in {"s3", "eks"} THEN SUBSET Page.items ELSE {{}} :
          /\ fetch' = IF Page.more THEN WithPage(failed) ELSE Cloud!Proceed(WithPage(failed))
          /\ skipped' = IF Cloud!Service = "eks" THEN failed ELSE skipped
  BY Zenon DEF Cloud!ListPage, Page, Added, WithPage
<1>2. failed \in SUBSET Page.items
  BY <1>1
<1> QED
  BY <1>1, <1>2 DEF Cloud!ListPage

(* The page lies after the cursor and has all that is there up to its last.  *)
LEMMA PageTypes ==
  ASSUME CloudTypes, Listing(fetch, steady, skipped)
  PROVE  /\ Cloud!Service \in Cloud!AllServices
         /\ Page.items \in SUBSET Items /\ IsFiniteSet(Page.items)
         /\ \A i \in Page.items : i > fetch.cursor /\ i \in cloud[Cloud!Service]
         /\ \A i \in Page.items, j \in cloud[Cloud!Service] :
              j > fetch.cursor /\ j <= i => j \in Page.items
         /\ Page.more => Cloud!Service \notin {"s3", "gke", "eks"}
         /\ ~Page.more /\ Cloud!Service # "eks" =>
              \A j \in cloud[Cloud!Service] : j > fetch.cursor => j \in Page.items
         /\ Cloud!Service = "eks" => ~Page.more /\ Cardinality(Page.items) <= PageSize
<1>1. Cloud!Service \in Cloud!AllServices
  BY ServiceLists DEF Listing, Cloud!Service
<1>2. fetch.cursor \in Nat /\ cloud \in [Cloud!AllServices -> SUBSET Items]
  BY DEF CloudTypes, Fetches
<1> DEFINE s == Cloud!Service
           left == {i \in cloud[s] : i > fetch.cursor}
<1>3. /\ Page.items \in SUBSET left /\ IsFiniteSet(Page.items)
      /\ \A i \in Page.items, j \in left : j <= i => j \in Page.items
      /\ Page.more => s \notin {"s3", "gke", "eks"}
      /\ ~Page.more /\ s # "eks" => Page.items = left
      /\ s = "eks" => ~Page.more /\ Cardinality(Page.items) <= PageSize
  BY <1>1, <1>2, PagesHaveNoGaps DEF Page
<1>4. cloud[s] \subseteq Items
  BY <1>1, <1>2
<1> HIDE DEF s
<1>5. \A j : j \in left <=> j \in cloud[s] /\ j > fetch.cursor
  OBVIOUS
<1> HIDE DEF left
<1>6. s = Cloud!Service
  BY DEF s
<1> QED
  BY <1>1, <1>3, <1>4, <1>5, <1>6, Zenon

(* The fields of the request after the page. *)
LEMMA WithPageFields ==
  ASSUME CloudTypes, Listing(fetch, steady, skipped), NEW failed \in SUBSET Page.items
  PROVE  LET f == WithPage(failed)
         IN  /\ f \in Fetches /\ f.provider = fetch.provider /\ f.stage = fetch.stage
             /\ f.source = fetch.source
             /\ f.found = fetch.found \cup {<<Cloud!Service, i>> : i \in Added(failed)}
             /\ f.open = fetch.open \cup IF Cloud!Service = "s3"
                    THEN {i \in Added(failed) : i \in failed \/ i \notin blocked} ELSE {}
             /\ f.total = fetch.total + Cardinality(Added(failed))
             /\ f.cursor \in Nat
             /\ Page.items = {} => f.cursor = fetch.cursor
             /\ Page.items # {} =>
                  f.cursor \in Page.items /\ \A i \in Page.items : i <= f.cursor
<1> DEFINE top == IF Page.items = {} THEN fetch.cursor ELSE Cloud!Max(Page.items)
           found == fetch.found \cup {<<Cloud!Service, i>> : i \in Added(failed)}
           open == fetch.open \cup IF Cloud!Service = "s3"
                    THEN {i \in Added(failed) : i \in failed \/ i \notin blocked} ELSE {}
           total == fetch.total + Cardinality(Added(failed))
<1>1. /\ Cloud!Service \in Cloud!AllServices /\ Page.items \in SUBSET Items
      /\ IsFiniteSet(Page.items)
  BY PageTypes
<1>2. /\ fetch \in Fetches /\ fetch.cursor \in Nat /\ fetch.total \in Nat
      /\ fetch.found \in SUBSET (Cloud!AllServices \X Items) /\ fetch.open \in SUBSET Items
  BY DEF CloudTypes, Fetches
<1>3. Added(failed) \subseteq Page.items
  BY DEF Added
<1>4. Cardinality(Added(failed)) \in Nat
  BY <1>1, <1>3, FS_Subset, FS_CardinalityType
<1>5. /\ top \in Nat
      /\ Page.items # {} => top \in Page.items /\ \A i \in Page.items : i <= top
  <2>1. Page.items \subseteq Nat
    BY <1>1, ItemsArePositive
  <2> QED
    BY <1>1, <1>2, <2>1, GreatestIsMax
<1>6. found \in SUBSET (Cloud!AllServices \X Items)
  BY <1>1, <1>2, <1>3
<1>7. open \in SUBSET Items
  BY <1>1, <1>2, <1>3
<1>8. total \in Nat
  BY <1>2, <1>4
<1>9. WithPage(failed) =
        [fetch EXCEPT !.found = found, !.open = open, !.total = total, !.cursor = top]
  BY <1>2, CloudCounts DEF WithPage, Cloud!InspectBucket, Fetches
<1>10. Page.items = {} => top = fetch.cursor
  OBVIOUS
<1> HIDE DEF found, open, total, top
<1>11. /\ WithPage(failed) \in Fetches /\ WithPage(failed).provider = fetch.provider
       /\ WithPage(failed).stage = fetch.stage /\ WithPage(failed).source = fetch.source
       /\ WithPage(failed).found = found /\ WithPage(failed).open = open
       /\ WithPage(failed).total = total /\ WithPage(failed).cursor = top
  BY <1>2, <1>5, <1>6, <1>7, <1>8, <1>9 DEF Fetches
<1> QED
  BY <1>5, <1>10, <1>11 DEF found, open, total

(* What is listed of each service after the page. *)
LEMMA PageListed ==
  ASSUME CloudTypes, Listing(fetch, steady, skipped), NEW failed \in SUBSET Page.items
  PROVE  /\ Listed(WithPage(failed), Cloud!Service)
               = Listed(fetch, Cloud!Service) \cup Added(failed)
         /\ \A s : s # Cloud!Service => Listed(WithPage(failed), s) = Listed(fetch, s)
         /\ Listed(fetch, Cloud!Service) \cap Added(failed) = {}
         /\ Added(failed) \subseteq Page.items
<1>1. WithPage(failed).found = fetch.found \cup {<<Cloud!Service, i>> : i \in Added(failed)}
  BY WithPageFields
<1>2. Page.items \subseteq Items /\ Added(failed) \subseteq Page.items
  BY PageTypes DEF Added
<1>3. \A s, i : <<s, i>> \in WithPage(failed).found
                  <=> <<s, i>> \in fetch.found \/ (s = Cloud!Service /\ i \in Added(failed))
  BY <1>1
<1>4. \A i \in Listed(fetch, Cloud!Service) : i \notin Page.items
  <2> SUFFICES ASSUME NEW i \in Listed(fetch, Cloud!Service), i \in Page.items PROVE FALSE
    OBVIOUS
  <2>1. i <= fetch.cursor
    BY DEF Listing, Cloud!Service
  <2>2. i > fetch.cursor /\ i \in Nat
    BY PageTypes, ItemsArePositive
  <2>3. fetch.cursor \in Nat
    BY DEF CloudTypes, Fetches
  <2> QED
    BY <2>1, <2>2, <2>3
<1>5. Listed(WithPage(failed), Cloud!Service) = Listed(fetch, Cloud!Service) \cup Added(failed)
  BY <1>2, <1>3 DEF Listed
<1>6. \A s : s # Cloud!Service => Listed(WithPage(failed), s) = Listed(fetch, s)
  BY <1>3 DEF Listed
<1> QED
  BY <1>2, <1>4, <1>5, <1>6

(* The page is counted with what was found before. *)
LEMMA PageCounted ==
  ASSUME CloudTypes, Counted(fetch), Listing(fetch, steady, skipped),
         NEW failed \in SUBSET Page.items
  PROVE  Counted(WithPage(failed))
<1> DEFINE s == Cloud!Service
           f == WithPage(failed)
<1>1. /\ f.found = fetch.found \cup {<<s, i>> : i \in Added(failed)}
      /\ f.open = fetch.open \cup IF s = "s3"
                    THEN {i \in Added(failed) : i \in failed \/ i \notin blocked} ELSE {}
      /\ f.total = fetch.total + Cardinality(Added(failed))
  BY WithPageFields
<1>2. IsFiniteSet(f.found) /\ f.total = Cardinality(f.found)
  <2>1. IsFiniteSet(fetch.found)
    BY DEF Counted
  <2>2. IsFiniteSet(Added(failed))
    BY PageTypes, PageListed, FS_Subset
  <2>3. \A i \in Added(failed) : <<s, i>> \notin fetch.found
    BY PageListed, PageTypes DEF Listed
  <2>4. /\ IsFiniteSet(fetch.found \cup Pairs(s, Added(failed)))
        /\ Cardinality(fetch.found \cup Pairs(s, Added(failed)))
             = Cardinality(fetch.found) + Cardinality(Added(failed))
    <3> HIDE DEF s, f
    <3> QED
      BY <2>1, <2>2, <2>3, PairsAdded, Zenon
  <2> QED
    BY <1>1, <2>4 DEF Counted, Pairs
<1>3. ASSUME NEW i \in Items, <<"s3", i>> \in f.found, i \notin blocked
      PROVE  i \in f.open
  <2>1. CASE <<"s3", i>> \in fetch.found
    BY <1>1, <1>3, <2>1 DEF Counted
  <2>2. CASE s = "s3" /\ i \in Added(failed)
    BY <1>1, <1>3, <2>2
  <2>3. <<"s3", i>> \in fetch.found \/ (s = "s3" /\ i \in Added(failed))
    BY <1>1, <1>3
  <2> QED
    BY <2>1, <2>2, <2>3
<1> QED
  BY <1>2, <1>3 DEF Counted

(* With the last page the service is whole. *)
LEMMA LastPageWhole ==
  ASSUME CloudTypes, Listing(fetch, steady, skipped), NEW failed \in SUBSET Page.items,
         ~Page.more
  PROVE  Whole(WithPage(failed), Cloud!Service, steady, failed)
<1> DEFINE s == Cloud!Service
           f == WithPage(failed)
<1>1. Listed(f, s) = Listed(fetch, s) \cup Added(failed) /\ Added(failed) \subseteq Page.items
  BY PageListed
<1>2. CASE s # "eks"
  <2> SUFFICES ASSUME NEW i \in steady[s] PROVE i \in Listed(f, s)
    BY <1>2 DEF Whole
  <2>1. i \in cloud[s] /\ i \in Items
    BY PageTypes DEF CloudTypes
  <2>2. i \in Nat /\ fetch.cursor \in Nat
    BY <2>1, ItemsArePositive DEF CloudTypes, Fetches
  <2>3. CASE i <= fetch.cursor
    <3>1. s = Cloud!Services(fetch.provider)[fetch.stage]
      BY DEF Cloud!Service
    <3> HIDE DEF s, f
    <3>2. i \in Listed(fetch, s)
      BY <2>3, <3>1, Zenon DEF Listing
    <3> QED
      BY <1>1, <3>2
  <2>4. CASE i > fetch.cursor
    <3>1. i \in Page.items
      BY <1>2, <2>1, <2>4, PageTypes
    <3> QED
      BY <1>1, <1>2, <3>1 DEF Added
  <2> QED
    <3> HIDE DEF s, f
    <3> QED
      BY <2>2, <2>3, <2>4
<1>3. CASE s = "eks"
  <2>1. Listed(fetch, s) = {}
    <3>1. fetch.cursor = 0
      BY <1>3 DEF Listing, Cloud!Service
    <3>2. \A i \in Listed(fetch, s) : i <= 0 /\ i \in Items
      BY <3>1 DEF Listing, Cloud!Service, Listed
    <3> QED
      BY <3>2, ItemsArePositive
  <2>2. Listed(f, s) = Page.items \ failed
    BY <1>1, <1>3, <2>1 DEF Added
  <2>3. IsFiniteSet(Page.items) /\ Cardinality(Page.items) <= PageSize
    BY <1>3, PageTypes
  <2>4. /\ Cardinality(Page.items \ failed) \in Nat /\ Cardinality(failed) \in Nat
        /\ Cardinality(Page.items) \in Nat
        /\ Cardinality(Page.items \ failed) + Cardinality(failed) <= Cardinality(Page.items)
    <3>1. Page.items \ failed \in SUBSET Page.items /\ (Page.items \ failed) \cap failed = {}
      OBVIOUS
    <3> QED
      BY <2>3, <3>1, TwoParts
  <2>5. PageSize \in Nat
    BY FiniteParameters
  <2>6. Cardinality(Page.items \ failed) + Cardinality(failed) <= PageSize
    BY <2>3, <2>4, <2>5
  <2> QED
    BY <1>3, <2>2, <2>6 DEF Whole
<1> QED
  BY <1>2, <1>3

(* A page after the cursor moves it to its last item.                        *)
LEMMA CursorMoves ==
  ASSUME NEW P \in SUBSET Nat, NEW c \in Nat, NEW t \in Nat, \A i \in P : i > c,
         P = {} => t = c, P # {} => t \in P /\ \A i \in P : i <= t
  PROVE  /\ \A i \in P : i <= t
         /\ \A i \in Nat : i <= c => i <= t
         /\ \A i \in Nat : i > c /\ i <= t => t \in P
OBVIOUS

(* A page that another is to follow leaves the service where it is. *)
LEMMA PageInside ==
  ASSUME CloudTypes, Listing(fetch, steady, skipped), NEW failed \in SUBSET Page.items, Page.more
  PROVE  Listing(WithPage(failed), steady, skipped)
<1> DEFINE s == Cloud!Service
           f == WithPage(failed)
           L == Cloud!Services(fetch.provider)
<1>1. /\ f.provider = fetch.provider /\ f.stage = fetch.stage /\ f.source = fetch.source
      /\ f.cursor \in Nat
      /\ Page.items = {} => f.cursor = fetch.cursor
      /\ Page.items # {} => f.cursor \in Page.items /\ \A i \in Page.items : i <= f.cursor
  BY WithPageFields
<1>2. /\ Listed(f, s) = Listed(fetch, s) \cup Added(failed)
      /\ \A t : t # s => Listed(f, t) = Listed(fetch, t)
      /\ Added(failed) \subseteq Page.items
  BY PageListed
<1>3. s \notin {"s3", "gke", "eks"} /\ s = L[fetch.stage]
  BY PageTypes DEF Cloud!Service
<1>4. Added(failed) = Page.items
  BY <1>3 DEF Added
<1>5. /\ fetch.provider \in Listed3 /\ fetch.source = "none" /\ fetch.stage \in DOMAIN L
      /\ \A n \in DOMAIN L : n < fetch.stage => Whole(fetch, L[n], steady, skipped)
      /\ \A n \in DOMAIN L : n > fetch.stage => Listed(fetch, L[n]) = {}
      /\ \A i \in Listed(fetch, s) : i <= fetch.cursor
      /\ \A i \in steady[s] : i <= fetch.cursor => i \in Listed(fetch, s)
  BY <1>3 DEF Listing
<1>6. fetch.cursor \in Nat /\ \A i \in Items : i \in Nat
  BY ItemsArePositive DEF CloudTypes, Fetches
<1>7. /\ Page.items \in SUBSET Items /\ \A i \in Page.items : i > fetch.cursor
      /\ \A i \in Page.items, j \in cloud[s] : j > fetch.cursor /\ j <= i => j \in Page.items
      /\ steady[s] \subseteq cloud[s] /\ steady[s] \subseteq Items
  BY PageTypes DEF CloudTypes
<1>8. \A n \in DOMAIN L : n # fetch.stage => L[n] # s
  BY <1>3, <1>5, ServiceLists
<1>9. fetch.stage \in Nat /\ \A n \in DOMAIN L : n \in Nat
  BY <1>5, ServiceLists DEF CloudTypes, Fetches
<1> HIDE DEF s, f, L
<1>10. ASSUME NEW n \in DOMAIN L, n < f.stage PROVE Whole(f, L[n], steady, skipped)
  <2>1. n # fetch.stage /\ n < fetch.stage
    BY <1>1, <1>9, <1>10
  <2>2. Listed(f, L[n]) = Listed(fetch, L[n]) /\ Whole(fetch, L[n], steady, skipped)
    BY <1>2, <1>5, <1>8, <2>1
  <2> QED
    BY <2>2 DEF Whole
<1>11. ASSUME NEW n \in DOMAIN L, n > f.stage PROVE Listed(f, L[n]) = {}
  <2>1. n # fetch.stage /\ n > fetch.stage
    BY <1>1, <1>9, <1>11
  <2> QED
    BY <1>2, <1>5, <1>8, <2>1
<1>12. /\ \A i \in Page.items : i <= f.cursor
       /\ \A i \in Nat : i <= fetch.cursor => i <= f.cursor
       /\ \A i \in Nat : i > fetch.cursor /\ i <= f.cursor => f.cursor \in Page.items
  <2>1. Page.items \in SUBSET Nat
    BY <1>6, <1>7
  <2>2. fetch.cursor \in Nat /\ f.cursor \in Nat
    BY <1>1, <1>6
  <2>3. \A i \in Page.items : i > fetch.cursor
    BY <1>7
  <2>4. Page.items = {} => f.cursor = fetch.cursor
    BY <1>1
  <2>5. Page.items # {} => f.cursor \in Page.items /\ \A i \in Page.items : i <= f.cursor
    BY <1>1
  <2> QED
    BY <2>1, <2>2, <2>3, <2>4, <2>5, CursorMoves
<1>13. \A i \in Listed(f, s) : i <= f.cursor
  <2> SUFFICES ASSUME NEW i \in Listed(f, s) PROVE i <= f.cursor
    OBVIOUS
  <2>1. CASE i \in Page.items
    BY <1>12, <2>1
  <2>2. CASE i \in Listed(fetch, s)
    <3>1. i <= fetch.cursor /\ i \in Nat
      BY <1>5, <1>6, <2>2 DEF Listed
    <3> QED
      BY <1>12, <3>1, Zenon
  <2> QED
    BY <1>2, <1>4, <2>1, <2>2
<1>15. \A i \in steady[s] : i <= f.cursor => i \in Listed(f, s)
  <2> SUFFICES ASSUME NEW i \in steady[s], i <= f.cursor PROVE i \in Listed(f, s)
    OBVIOUS
  <2>1. i \in cloud[s] /\ i \in Nat
    BY <1>6, <1>7
  <2>2. CASE i <= fetch.cursor
    BY <1>2, <1>5, <2>2
  <2>3. CASE i > fetch.cursor
    <3>1. f.cursor \in Page.items
      BY <1>12, <2>1, <2>3, Zenon
    <3>2. i \in Page.items
      BY <1>7, <2>1, <2>3, <3>1, Zenon
    <3> QED
      BY <1>2, <1>4, <3>2
  <2> QED
    BY <1>6, <2>1, <2>2, <2>3
<1>14. f.provider = fetch.provider /\ Cloud!Services(f.provider) = L /\ L[f.stage] = s
  BY <1>1, <1>3 DEF L
<1> QED
  BY <1>1, <1>3, <1>5, <1>10, <1>11, <1>12, <1>13, <1>15, <1>14 DEF Listing, f

(* After the last page of a service the request goes on with the next, of    *)
(* which nothing is listed yet, or with the answer.                          *)
LEMMA PageEnds ==
  ASSUME CloudTypes, Listing(fetch, steady, skipped), NEW failed \in SUBSET Page.items,
         ~Page.more, fetch' = Cloud!Proceed(WithPage(failed)), CloudTypes',
         skipped' = IF Cloud!Service = "eks" THEN failed ELSE skipped
  PROVE  /\ fetch'.stage > 0 => Listing(fetch', steady, skipped')
         /\ fetch'.source = "live" => WholeAnswer(fetch', steady, skipped')
<1> DEFINE s == Cloud!Service
           f == WithPage(failed)
           L == Cloud!Services(fetch.provider)
<1>1. /\ f \in Fetches /\ f.provider = fetch.provider /\ f.stage = fetch.stage
      /\ f.source = fetch.source
  BY WithPageFields
<1>2. \A t : t # s => Listed(f, t) = Listed(fetch, t)
  BY PageListed
<1>3. /\ fetch.provider \in Listed3 /\ fetch.source = "none" /\ fetch.stage \in DOMAIN L
      /\ s = L[fetch.stage]
      /\ \A n \in DOMAIN L : n < fetch.stage => Whole(fetch, L[n], steady, skipped)
      /\ \A n \in DOMAIN L : n > fetch.stage => Listed(fetch, L[n]) = {}
  BY DEF Listing, Cloud!Service
<1>4. /\ Len(L) \in Nat \ {0} /\ DOMAIN L = 1 .. Len(L)
      /\ \A n \in DOMAIN L : L[n] \in Cloud!AllServices
      /\ \A m, n \in DOMAIN L : L[m] = L[n] => m = n
      /\ \A n \in DOMAIN L : L[n] = "eks" => n = Len(L)
  BY <1>3, ServiceLists
<1>5. Whole(f, s, steady, skipped')
  <2>1. Whole(f, s, steady, failed)
    BY LastPageWhole
  <2>2. s = "eks" => skipped' = failed
    OBVIOUS
  <2> QED
    BY <2>1, <2>2 DEF Whole
<1>6. fetch' = IF f.stage < Len(L) THEN [f EXCEPT !.stage = f.stage + 1, !.cursor = 0]
               ELSE [f EXCEPT !.source = IF f.total = 0 THEN "demo" ELSE "live",
                              !.stage = 0, !.cursor = 0]
  BY <1>1 DEF Cloud!Proceed, Cloud!Answer
<1> HIDE DEF s, f, L
<1>7. \A n \in DOMAIN L : n <= f.stage => Whole(f, L[n], steady, skipped')
  <2> SUFFICES ASSUME NEW n \in DOMAIN L, n <= f.stage PROVE Whole(f, L[n], steady, skipped')
    OBVIOUS
  <2>1. CASE n = f.stage
    BY <1>1, <1>3, <1>5, <2>1
  <2>2. CASE n < f.stage
    <3>1. Whole(fetch, L[n], steady, skipped)
      BY <1>1, <1>3, <2>2
    <3>2. n # fetch.stage /\ n # Len(L)
      BY <1>1, <1>3, <1>4, <2>2
    <3>3. L[n] # "eks" /\ L[n] # s
      BY <1>3, <1>4, <3>2
    <3>4. Listed(f, L[n]) = Listed(fetch, L[n])
      BY <1>2, <3>3
    <3> QED
      BY <3>1, <3>3, <3>4 DEF Whole
  <2> QED
    BY <1>1, <1>3, <1>4, <2>1, <2>2
<1>8. \A n \in DOMAIN L : n > f.stage => Listed(f, L[n]) = {}
  <2> SUFFICES ASSUME NEW n \in DOMAIN L, n > f.stage PROVE Listed(f, L[n]) = {}
    OBVIOUS
  <2>1. L[n] # s
    BY <1>1, <1>3, <1>4
  <2> QED
    BY <1>1, <1>2, <1>3, <2>1
<1>9. CASE f.stage < Len(L)
  <2>1. /\ fetch'.provider = fetch.provider /\ fetch'.stage = f.stage + 1 /\ fetch'.cursor = 0
        /\ fetch'.source = "none" /\ fetch'.found = f.found
    BY <1>1, <1>3, <1>6, <1>9 DEF Fetches
  <2>2. \A t : Listed(fetch', t) = Listed(f, t)
    BY <2>1 DEF Listed
  <2>3. f.stage + 1 \in DOMAIN L /\ f.stage + 1 > f.stage
    BY <1>1, <1>3, <1>4, <1>9
  <2>4. \A n \in DOMAIN L : n < fetch'.stage => Whole(fetch', L[n], steady, skipped')
    <3> SUFFICES ASSUME NEW n \in DOMAIN L, n < fetch'.stage
                 PROVE  Whole(fetch', L[n], steady, skipped')
      OBVIOUS
    <3>1. n <= f.stage
      BY <1>1, <1>3, <1>4, <2>1
    <3> QED
      BY <1>7, <2>2, <3>1 DEF Whole
  <2>5. \A n \in DOMAIN L : n > fetch'.stage => Listed(fetch', L[n]) = {}
    <3> SUFFICES ASSUME NEW n \in DOMAIN L, n > fetch'.stage PROVE Listed(fetch', L[n]) = {}
      OBVIOUS
    <3>1. n > f.stage
      BY <1>1, <1>3, <1>4, <2>1
    <3> QED
      BY <1>8, <2>2, <3>1
  <2>6. Listed(fetch', L[fetch'.stage]) = {}
    BY <1>8, <2>1, <2>2, <2>3
  <2>7. \A i \in steady[L[fetch'.stage]] : ~(i <= fetch'.cursor)
    <3>1. steady[L[fetch'.stage]] \subseteq Items
      BY <1>4, <2>1, <2>3 DEF CloudTypes
    <3> QED
      BY <2>1, <3>1, ItemsArePositive
  <2>8. Listing(fetch', steady, skipped')
    BY <1>3, <2>1, <2>3, <2>4, <2>5, <2>6, <2>7, Zenon DEF Listing, L
  <2> QED
    BY <2>1, <2>8
<1>10. CASE ~(f.stage < Len(L))
  <2>1. /\ fetch'.provider = fetch.provider /\ fetch'.stage = 0 /\ fetch'.found = f.found
    BY <1>1, <1>3, <1>6, <1>10 DEF Fetches
  <2>2. \A n \in DOMAIN L : n <= f.stage
    BY <1>1, <1>3, <1>4, <1>10
  <2>3. \A t : Listed(fetch', t) = Listed(f, t)
    BY <2>1 DEF Listed
  <2>4. \A n \in DOMAIN L : Whole(fetch', L[n], steady, skipped')
    BY <1>7, <2>2, <2>3 DEF Whole
  <2> QED
    BY <2>1, <2>4 DEF WholeAnswer, L
<1> QED
  BY <1>9, <1>10

LEMMA PageStep ==
  ASSUME CloudInv, Cloud!ListPage
  PROVE  CloudInv'
<1>1. fetch.stage > 0 /\ UNCHANGED <<cloud, blocked, steady>>
  BY PagePicked
<1>2. CloudTypes /\ Counted(fetch) /\ Listing(fetch, steady, skipped)
  BY <1>1 DEF CloudInv
<1>3. PICK failed \in SUBSET Page.items :
        /\ fetch' = IF Page.more THEN WithPage(failed) ELSE Cloud!Proceed(WithPage(failed))
        /\ skipped' = IF Cloud!Service = "eks" THEN failed ELSE skipped
  BY PagePicked
<1> DEFINE f == WithPage(failed)
<1>4. f \in Fetches /\ f.source = "none" /\ f.stage \in Nat /\ Counted(f)
  BY <1>2, WithPageFields, PageCounted DEF Listing, Fetches
<1>5. /\ fetch' \in Fetches /\ fetch'.found = f.found /\ fetch'.open = f.open
      /\ fetch'.total = f.total
  <2> HIDE DEF f
  <2>1. fetch' \in {f, [f EXCEPT !.stage = f.stage + 1, !.cursor = 0],
                    [f EXCEPT !.source = "demo", !.stage = 0, !.cursor = 0],
                    [f EXCEPT !.source = "live", !.stage = 0, !.cursor = 0]}
    BY <1>3 DEF Cloud!Proceed, Cloud!Answer, f
  <2>2. CASE fetch' = [f EXCEPT !.stage = f.stage + 1, !.cursor = 0]
    <3>1. f.stage + 1 \in Nat
      BY <1>4
    <3>2. PICK next \in Nat : fetch' = [f EXCEPT !.stage = next, !.cursor = 0]
      BY <2>2, <3>1, Zenon
    <3> QED
      BY <1>4, <3>2 DEF Fetches
  <2>3. CASE fetch' = [f EXCEPT !.source = "demo", !.stage = 0, !.cursor = 0]
    BY <1>4, <2>3 DEF Fetches
  <2>4. CASE fetch' = [f EXCEPT !.source = "live", !.stage = 0, !.cursor = 0]
    BY <1>4, <2>4 DEF Fetches
  <2> QED
    BY <1>4, <2>1, <2>2, <2>3, <2>4, Zenon
<1>6. CloudTypes'
  <2>1. skipped' \in SUBSET Items
    BY <1>2, <1>3, PageTypes DEF CloudTypes
  <2> QED
    BY <1>1, <1>2, <1>5, <2>1 DEF CloudTypes
<1>7. Counted(fetch)'
  BY <1>1, <1>4, <1>5 DEF Counted
<1>8. CASE Page.more
  <2>1. fetch' = f /\ skipped' = skipped
    BY <1>2, <1>3, <1>8, PageTypes
  <2>2. Listing(f, steady, skipped)
    BY <1>2, <1>8, PageInside
  <2> HIDE DEF f
  <2> QED
    BY <1>1, <1>4, <1>6, <1>7, <2>1, <2>2 DEF CloudInv
<1>9. CASE ~Page.more
  <2>1. /\ fetch'.stage > 0 => Listing(fetch', steady, skipped')
        /\ fetch'.source = "live" => WholeAnswer(fetch', steady, skipped')
    BY <1>2, <1>3, <1>6, <1>9, PageEnds
  <2> QED
    BY <1>1, <1>6, <1>7, <2>1 DEF CloudInv
<1> QED
  BY <1>8, <1>9
-----------------------------------------------------------------------------
LEMMA CloudStep == CloudInv /\ [Cloud!Next]_cloudVars => CloudInv'
<1> SUFFICES ASSUME CloudInv, [Cloud!Next]_cloudVars PROVE CloudInv'
  OBVIOUS
<1>1. CASE \E p \in Cloud!Providers, configured \in BOOLEAN : Cloud!Begin(p, configured)
  BY <1>1, BeginStep
<1>2. CASE Cloud!ListPage
  BY <1>2, PageStep
<1>3. CASE Cloud!ListFails
  BY <1>3, FailStep
<1>4. CASE Cloud!Received
  BY <1>4, ReceivedStep
<1>5. CASE Cloud!CloudChanges
  BY <1>5, ChangeStep
<1>6. CASE UNCHANGED cloudVars
  BY <1>6 DEF cloudVars, CloudInv, CloudTypes, Counted, Listing, WholeAnswer
<1> QED
  BY <1>1, <1>2, <1>3, <1>4, <1>5, <1>6 DEF Cloud!Next

LEMMA CloudSteps == [Next]_serviceVars /\ world = "cloud" => [Cloud!Next]_cloudVars
BY DEF Next, Others, serviceVars, cloudVars

CloudHolds == world = "cloud" => CloudInv

(* A live answer has every resource that was there throughout the request,   *)
(* its total is what it lists, and no open bucket looks closed.              *)
THEOREM LiveIsWhole == Spec => []LiveAnswersWhole
<1>1. Init => CloudHolds
  BY CloudInit DEF Init, CloudHolds
<1>2. CloudHolds /\ [Next]_serviceVars => CloudHolds'
  BY WorldStays, CloudSteps, CloudStep DEF CloudHolds
<1>3. CloudHolds => LiveAnswersWhole
  <2> SUFFICES ASSUME CloudInv, fetch.source = "live" PROVE Cloud!LiveAnswersWhole
    BY DEF CloudHolds, LiveAnswersWhole, Cloud!LiveAnswersWhole
  <2>1. Counted(fetch) /\ WholeAnswer(fetch, steady, skipped)
    BY DEF CloudInv
  <2>2. fetch.total = Cloud!Cardinality(fetch.found)
    BY <2>1, CloudCounts DEF Counted
  <2>3. ASSUME NEW n \in DOMAIN Cloud!Services(fetch.provider)
        PROVE  LET s == Cloud!Services(fetch.provider)[n]
                   listed == {i \in Items : <<s, i>> \in fetch.found}
               IN  IF s = "eks" THEN Cloud!Cardinality(listed) + Cloud!Cardinality(skipped) <= PageSize
                   ELSE steady[s] \subseteq listed
    BY <2>1, CloudCounts DEF WholeAnswer, Whole, Listed
  <2> QED
    BY <2>1, <2>2, <2>3 DEF Cloud!LiveAnswersWhole, Counted
<1> QED
  BY <1>1, <1>2, <1>3, PTL DEF Spec
-----------------------------------------------------------------------------
(* The metrics.  What adds up a distribution one algorithm after the other   *)
(* is a function on the sets of algorithms, and there is only one.           *)
Picked(s) == CHOOSE g \in s : TRUE
AddsUp(it, D) ==
  it = [s \in SUBSET CbomAlgorithms |->
          IF s = {} THEN 0 ELSE D[Picked(s)] + it[s \ {Picked(s)}]]
SumOf(D) == Cbom!MapThenSumSet(LAMBDA g : D[g], CbomAlgorithms)
LEMMA SumIsFold ==
  ASSUME NEW D, NEW h, AddsUp(h, D)
  PROVE  \E it : AddsUp(it, D) /\ SumOf(D) = it[CbomAlgorithms]
<1> DEFINE it == CHOOSE f : AddsUp(f, D)
<1>1. AddsUp(it, D)
  OBVIOUS
<1>2. SumOf(D) = it[CbomAlgorithms]
  BY DEF SumOf, Cbom!MapThenSumSet, Cbom!MapThenFoldSet, AddsUp, Picked
<1> QED
  BY <1>1, <1>2

(* A smallest set about which two such functions differ would be the empty   *)
(* one, or they would differ about it without one of its elements.           *)
LEMMA OneSum ==
  ASSUME NEW D, NEW f, NEW h, AddsUp(f, D), AddsUp(h, D)
  PROVE  f[CbomAlgorithms] = h[CbomAlgorithms]
<1> DEFINE A == CbomAlgorithms
           Differ == {s \in SUBSET A : f[s] # h[s]}
<1> SUFFICES ASSUME Differ # {} PROVE FALSE
  OBVIOUS
<1>1. Differ \subseteq FiniteSubsetsOf(A)
  <2>1. IsFiniteSet(A)
    BY FiniteParameters
  <2> QED
    BY <2>1, FS_Subset DEF FiniteSubsetsOf
<1>2. PICK s \in Differ : \A t \in Differ : <<t, s>> \notin StrictSubsetOrdering(A)
  <2> HIDE DEF Differ, A
  <2> QED
    BY <1>1, FS_StrictSubsetOrderingWellFounded, WFMin, Zenon
<1>3. s \in SUBSET A /\ f[s] # h[s]
  OBVIOUS
<1>4. /\ f[s] = IF s = {} THEN 0 ELSE D[Picked(s)] + f[s \ {Picked(s)}]
      /\ h[s] = IF s = {} THEN 0 ELSE D[Picked(s)] + h[s \ {Picked(s)}]
  <2>1. \A t \in SUBSET A : f[t] = IF t = {} THEN 0 ELSE D[Picked(t)] + f[t \ {Picked(t)}]
    BY Zenon DEF AddsUp
  <2>2. \A t \in SUBSET A : h[t] = IF t = {} THEN 0 ELSE D[Picked(t)] + h[t \ {Picked(t)}]
    BY Zenon DEF AddsUp
  <2> QED
    BY <1>3, <2>1, <2>2, Zenon
<1>5. s # {}
  BY <1>3, <1>4
<1> DEFINE less == s \ {Picked(s)}
<1>6. Picked(s) \in s
  BY <1>5 DEF Picked
<1>7. less \in SUBSET A /\ <<less, s>> \in StrictSubsetOrdering(A)
  <2>1. s \in FiniteSubsetsOf(A)
    BY <1>1
  <2>2. less \in FiniteSubsetsOf(A)
    BY <2>1, FS_Subset DEF FiniteSubsetsOf
  <2>3. less \subseteq s /\ less # s
    BY <1>6
  <2> QED
    BY <1>3, <2>1, <2>2, <2>3 DEF StrictSubsetOrdering, FiniteSubsetsOf
<1>8. f[less] = h[less]
  BY <1>2, <1>7
<1> QED
  BY <1>3, <1>4, <1>5, <1>8

(* The assets there are are those of reports there are. *)
Rows == {a \in CryptoAssets : assets[a] # None}
CbomTypes ==
  /\ reports \in [Reports -> {"none", "pending"}]
  /\ DOMAIN assets = CryptoAssets
  /\ \A a \in Rows : /\ assets[a].report \in Reports /\ reports[assets[a].report] # "none"
                     /\ assets[a].algorithm \in CbomAlgorithms

LEMMA RowsAreOurs == CbomTypes => \A a \in CryptoAssets : Cbom!Ours(a) <=> assets[a] # None
BY DEF CbomTypes, Rows, Cbom!Ours

LEMMA StoreCounts == \A S : Cbom!Cardinality(S) = Cardinality(S)
BY DEF Cbom!Cardinality, Cardinality

(* The distribution adds up to the total. *)
LEMMA DistributionSums ==
  ASSUME CbomTypes
  PROVE  Cbom!Total = SumOf(Cbom!Distribution)
<1> DEFINE G == CbomAlgorithms
           of(s) == {a \in CryptoAssets : Cbom!Ours(a) /\ assets[a].algorithm \in s}
           h == [s \in SUBSET G |-> Cardinality(of(s))]
           D == Cbom!Distribution
<1>1. IsFiniteSet(CryptoAssets) /\ \A s : of(s) \in SUBSET CryptoAssets
  BY FiniteParameters
<1>2. \A g \in G : D[g] = Cardinality(of({g}))
  <2> SUFFICES ASSUME NEW g \in G PROVE D[g] = Cardinality(of({g}))
    OBVIOUS
  <2>1. of({g}) = {a \in CryptoAssets : Cbom!Ours(a) /\ assets[a].algorithm = g}
    OBVIOUS
  <2> QED
    BY <2>1, StoreCounts DEF Cbom!Distribution
<1>3. ASSUME NEW s \in SUBSET G, s # {}
      PROVE  Cardinality(of(s)) = D[Picked(s)] + Cardinality(of(s \ {Picked(s)}))
  <2>1. Picked(s) \in s
    BY <1>3 DEF Picked
  <2>2. /\ of({Picked(s)}) \cap of(s \ {Picked(s)}) = {}
        /\ of(s) = of({Picked(s)}) \cup of(s \ {Picked(s)})
    BY <2>1
  <2>3. Cardinality(of(s)) = Cardinality(of({Picked(s)})) + Cardinality(of(s \ {Picked(s)}))
    <3> DEFINE P == of({Picked(s)})
               Q == of(s \ {Picked(s)})
    <3>1. P \in SUBSET CryptoAssets /\ Q \in SUBSET CryptoAssets /\ P \cap Q = {} /\ of(s) = P \cup Q
      BY <1>1, <2>2
    <3> HIDE DEF P, Q, of
    <3>2. Cardinality(P \cup Q) = Cardinality(P) + Cardinality(Q)
      <4>1. IsFiniteSet(P) /\ IsFiniteSet(Q)
        BY <1>1, <3>1, FS_Subset
      <4>2. Cardinality(P) \in Nat /\ Cardinality(Q) \in Nat /\ Cardinality(P \cap Q) = 0
        BY <3>1, <4>1, FS_CardinalityType, FS_EmptySet
      <4>3. Cardinality(P \cup Q) = Cardinality(P) + Cardinality(Q) - Cardinality(P \cap Q)
        BY <4>1, FS_Union
      <4> HIDE DEF h, D, G
      <4> QED
        BY <4>2, <4>3
    <3> QED
      BY <3>1, <3>2 DEF P, Q
  <2> HIDE DEF of, D
  <2> QED
    BY <1>2, <2>1, <2>3
<1>4. of({}) = {}
  OBVIOUS
<1>5. AddsUp(h, D)
  <2>1. \A s \in SUBSET G : s \ {Picked(s)} \in SUBSET G
    OBVIOUS
  <2>2. Cardinality(of({})) = 0
    BY <1>4, FS_EmptySet
  <2> HIDE DEF of, D
  <2>3. \A s \in SUBSET G : Cardinality(of(s)) =
          IF s = {} THEN 0 ELSE D[Picked(s)] + h[s \ {Picked(s)}]
    BY <1>3, <2>1, <2>2
  <2> QED
    BY <2>3 DEF AddsUp
<1>6. PICK it : AddsUp(it, D) /\ SumOf(D) = it[G]
  BY <1>5, SumIsFold
<1>7. of(G) = {a \in CryptoAssets : Cbom!Ours(a)}
  BY RowsAreOurs DEF CbomTypes, Rows
<1>8. Cbom!Total = h[G]
  BY <1>7, StoreCounts DEF Cbom!Total
<1> HIDE DEF h
<1> QED
  BY <1>5, <1>6, <1>8, OneSum

(* The score is of the counts, of which that of the safe assets is a part.   *)
LEMMA OverviewAddsUp ==
  ASSUME CbomTypes
  PROVE  /\ Cbom!SafeTotal <= Cbom!Total /\ Cbom!Total = SumOf(Cbom!Distribution)
         /\ Cbom!Score(Cbom!SafeTotal, Cbom!Total) =
              (IF Cbom!Total = 0 THEN 855 ELSE (1000 * Cbom!SafeTotal) \div Cbom!Total)
<1> DEFINE ours == {a \in CryptoAssets : Cbom!Ours(a)}
           safe == {a \in CryptoAssets : Cbom!Ours(a) /\ assets[a].safe}
<1>1. IsFiniteSet(ours) /\ safe \subseteq ours
  BY FiniteParameters, FS_Subset
<1>2. Cbom!Total = Cardinality(ours) /\ Cbom!SafeTotal = Cardinality(safe)
  BY StoreCounts DEF Cbom!Total, Cbom!SafeTotal
<1> HIDE DEF ours, safe
<1>3. Cardinality(ours) \in Nat /\ Cardinality(safe) <= Cardinality(ours)
  BY <1>1, FS_Subset, FS_CardinalityType
<1>4. Cbom!Total > 0 <=> Cbom!Total # 0
  BY <1>2, <1>3
<1> QED
  BY <1>2, <1>3, <1>4, DistributionSums DEF Cbom!Score

-----------------------------------------------------------------------------
(* What a request has read so far of a store that nobody has written to      *)
(* since it began is what the store says now.                                *)
Stages == {"total", "safe", "open", "group"}
Undisturbed(m) ==
  m # Cbom!Quiet =>
    /\ m.at \in Stages /\ {"at", "calm"} \subseteq DOMAIN m
    /\ m.calm = TRUE =>
         /\ m.at \in {"safe", "open", "group"} => m.total = Cbom!Total
         /\ m.at \in {"open", "group"} => m.safe = Cbom!SafeTotal
         /\ m.at = "group" => m.open = Cbom!OpenEvents
CbomInv ==
  /\ CbomTypes /\ DOMAIN metrics = Readers
  /\ \A c \in Readers : Undisturbed(metrics[c])

(* A write that is noticed leaves nothing to be said. *)
LEMMA NothingCalm ==
  ASSUME DOMAIN metrics = Readers, \A c \in Readers : Undisturbed(metrics[c]), Cbom!Disturb
  PROVE  DOMAIN metrics' = Readers /\ \A c \in Readers : Undisturbed(metrics[c])'
<1>1. metrics' = [c \in Readers |-> IF metrics[c] = Cbom!Quiet THEN Cbom!Quiet
                                    ELSE [metrics[c] EXCEPT !.calm = FALSE]]
  BY DEF Cbom!Disturb
<1> SUFFICES ASSUME NEW c \in Readers PROVE Undisturbed(metrics[c])'
  BY <1>1
<1>2. CASE metrics[c] = Cbom!Quiet
  BY <1>1, <1>2 DEF Undisturbed
<1>3. CASE metrics[c] # Cbom!Quiet
  <2> DEFINE m == metrics[c]
             n == [m EXCEPT !.calm = FALSE]
  <2>1. m.at \in Stages /\ {"at", "calm"} \subseteq DOMAIN m
    BY <1>3 DEF Undisturbed
  <2>2. n.at = m.at /\ n.calm = FALSE /\ DOMAIN n = DOMAIN m
    BY <2>1
  <2>3. metrics'[c] = n
    BY <1>1, <1>3
  <2> HIDE DEF m, n
  <2> QED
    BY <2>1, <2>2, <2>3 DEF Undisturbed
<1> QED
  BY <1>2, <1>3

(* The counts are of the rows, so they stay where these do. *)
LEMMA CountsStay ==
  ASSUME CbomTypes, CbomTypes', UNCHANGED assets
  PROVE  (Cbom!Total)' = Cbom!Total /\ (Cbom!SafeTotal)' = Cbom!SafeTotal
<1>1. \A a \in CryptoAssets : Cbom!Ours(a)' <=> Cbom!Ours(a)
  BY DEF CbomTypes, Rows, Cbom!Ours
<1> QED
  BY <1>1 DEF Cbom!Total, Cbom!SafeTotal

(* Nobody's reading is disturbed by a write to a report that has no asset.   *)
LEMMA ReportsOnly ==
  ASSUME CbomInv, UNCHANGED <<assets, events, metrics>>,
         reports' \in [Reports -> {"none", "pending"}],
         \A a \in Rows : reports'[assets[a].report] # "none"
  PROVE  CbomInv'
<1>1. CbomTypes'
  BY DEF CbomInv, CbomTypes, Rows
<1>2. (Cbom!Total)' = Cbom!Total /\ (Cbom!SafeTotal)' = Cbom!SafeTotal
  BY <1>1, CountsStay DEF CbomInv
<1>3. (Cbom!OpenEvents)' = Cbom!OpenEvents
  BY DEF Cbom!OpenEvents
<1> QED
  BY <1>1, <1>2, <1>3 DEF CbomInv, Undisturbed

LEMMA CbomInit == Cbom!Init => CbomInv
BY DEF Cbom!Init, CbomInv, CbomTypes, Rows, Undisturbed

(* The queries read the store as it is. *)
LEMMA ReaderStep ==
  ASSUME CbomInv, UNCHANGED <<reports, assets, events>>, NEW c \in Readers, NEW m,
         metrics' = [metrics EXCEPT ![c] = m], Undisturbed(m)
  PROVE  CbomInv'
<1>1. CbomTypes'
  BY DEF CbomInv, CbomTypes, Rows
<1>2. /\ (Cbom!Total)' = Cbom!Total /\ (Cbom!SafeTotal)' = Cbom!SafeTotal
      /\ (Cbom!OpenEvents)' = Cbom!OpenEvents
  BY DEF Cbom!Total, Cbom!SafeTotal, Cbom!OpenEvents, Cbom!Ours
<1>3. \A d \in Readers : Undisturbed(metrics'[d])
  BY DEF CbomInv
<1>4. DOMAIN metrics' = Readers
  BY DEF CbomInv
<1> QED
  BY <1>1, <1>2, <1>3, <1>4 DEF CbomInv, Undisturbed

LEMMA HandlersStep ==
  ASSUME CbomInv, Cbom!Handlers
  PROVE  CbomInv' /\ answer'.op # "metrics"
<1>1. CASE \E r \in Reports, complete \in BOOLEAN : Cbom!CreateCBOMReport(r, complete)
  <2>1. PICK r \in Reports : /\ reports[r] = "none"
                             /\ reports' \in {reports, [reports EXCEPT ![r] = "pending"]}
                             /\ UNCHANGED <<assets, events, metrics>> /\ answer'.op = "create_report"
    BY <1>1 DEF Cbom!CreateCBOMReport, Cbom!Reply
  <2>2. /\ reports' \in [Reports -> {"none", "pending"}]
        /\ \A a \in Rows : reports'[assets[a].report] # "none"
    BY <2>1 DEF CbomInv, CbomTypes
  <2> QED
    BY <2>1, <2>2, ReportsOnly
<1>2. CASE \E r \in Reports : Cbom!DeleteCBOMReport(r)
  <2>1. PICK r \in Reports : /\ \/ reports' = reports
                                \/ ~Cbom!Referenced(r) /\ reports' = [reports EXCEPT ![r] = "none"]
                             /\ UNCHANGED <<assets, events, metrics>> /\ answer'.op = "delete_report"
    BY <1>2 DEF Cbom!DeleteCBOMReport, Cbom!Reply
  <2>2. /\ reports' \in [Reports -> {"none", "pending"}]
        /\ \A a \in Rows : reports'[assets[a].report] # "none"
    BY <2>1 DEF CbomInv, CbomTypes, Cbom!Referenced, Rows
  <2> QED
    BY <2>1, <2>2, ReportsOnly
<1>3. CASE \E e \in Events : Cbom!ResolveSecurityEvent(e)
  <2>1. /\ UNCHANGED <<reports, assets>> /\ answer'.op = "resolve_event"
        /\ Cbom!Disturb \/ UNCHANGED <<events, metrics>>
    BY <1>3 DEF Cbom!ResolveSecurityEvent, Cbom!Reply
  <2>2. CbomTypes'
    BY <2>1 DEF CbomInv, CbomTypes, Rows
  <2>3. CASE Cbom!Disturb
    BY <2>1, <2>2, <2>3, NothingCalm DEF CbomInv
  <2>4. CASE UNCHANGED <<events, metrics>>
    BY <2>1, <2>4, ReportsOnly DEF CbomInv, CbomTypes
  <2> QED
    BY <2>1, <2>3, <2>4
<1>4. CASE UNCHANGED <<reports, assets, events, metrics>> /\ answer'.op # "metrics"
  BY <1>4, ReportsOnly DEF CbomInv, CbomTypes
<1>5. \/ \E r \in Reports, complete \in BOOLEAN : Cbom!CreateCBOMReport(r, complete)
      \/ \E r \in Reports : Cbom!DeleteCBOMReport(r)
      \/ \E e \in Events : Cbom!ResolveSecurityEvent(e)
      \/ UNCHANGED <<reports, assets, events, metrics>> /\ answer'.op # "metrics"
  BY DEF Cbom!Handlers, Cbom!GetCBOMReport, Cbom!UpdateCBOMReport, Cbom!ListCBOMReports,
         Cbom!ListSecurityEvents, Cbom!ListCryptoAssets, Cbom!GetCryptoAsset,
         Cbom!UpdateCryptoAsset, Cbom!CreateSecurityEvent, Cbom!AddKubernetesCluster,
         Cbom!Reply, Cbom!StoreSame
<1> QED
  BY <1>1, <1>2, <1>3, <1>4, <1>5

LEMMA WritersStep ==
  ASSUME CbomInv, Cbom!Elsewhere
  PROVE  CbomInv' /\ answer' = answer
<1>1. UNCHANGED <<reports, answer>> /\ Cbom!Disturb
  BY DEF Cbom!Elsewhere
<1>2. CbomTypes'
  <2>1. CASE \E a \in CryptoAssets, r \in Reports, g \in CbomAlgorithms, s \in BOOLEAN :
               /\ assets[a] = None /\ reports[r] # "none"
               /\ assets' = [assets EXCEPT ![a] = [report |-> r, algorithm |-> g, safe |-> s]]
    BY <1>1, <2>1 DEF CbomInv, CbomTypes, Rows
  <2>2. CASE \E a \in CryptoAssets : assets' = [assets EXCEPT ![a] = None]
    BY <1>1, <2>2 DEF CbomInv, CbomTypes, Rows
  <2>3. CASE UNCHANGED assets
    BY <1>1, <2>3 DEF CbomInv, CbomTypes, Rows
  <2> QED
    BY <2>1, <2>2, <2>3 DEF Cbom!Elsewhere
<1>3. DOMAIN metrics' = Readers /\ \A c \in Readers : Undisturbed(metrics[c])'
  BY <1>1, NothingCalm DEF CbomInv
<1> QED
  BY <1>1, <1>2, <1>3 DEF CbomInv

LEMMA MetricsStep ==
  ASSUME CbomInv, Cbom!MetricsNext
  PROVE  CbomInv' /\ (answer' # answer => Cbom!TrueIfCalm)
<1>1. PICK c \in Readers :
        \/ Cbom!StartMetrics(c) \/ Cbom!CountTotal(c) \/ Cbom!CountSafe(c) \/ Cbom!CountOpen(c)
        \/ Cbom!GroupByAlgorithm(c)
        \/ \E h \in {"dashboard", "overview", "compliance"} : Cbom!MetricsFail(c, h)
  BY DEF Cbom!MetricsNext
<1> DEFINE m == metrics[c]
<1>2. Undisturbed(m) /\ CbomTypes
  BY DEF CbomInv
<1>3. Undisturbed(Cbom!Quiet)
  BY DEF Undisturbed
<1>4. CASE Cbom!StartMetrics(c)
  <2>1. Undisturbed([at |-> "total", calm |-> TRUE])
    BY DEF Undisturbed, Stages
  <2> QED
    BY <1>4, <2>1, ReaderStep DEF Cbom!StartMetrics
<1>5. CASE Cbom!CountTotal(c)
  <2> DEFINE n == [at |-> "safe", calm |-> m.calm, total |-> Cbom!Total]
  <2>1. Undisturbed(n)
    BY DEF Undisturbed, Stages
  <2>2. metrics' = [metrics EXCEPT ![c] = n] /\ UNCHANGED <<reports, assets, events, answer>>
    BY <1>5 DEF Cbom!CountTotal
  <2> HIDE DEF n
  <2> QED
    BY <2>1, <2>2, ReaderStep
<1>6. CASE Cbom!CountSafe(c)
  <2> DEFINE n == [at |-> "open", calm |-> m.calm, total |-> m.total, safe |-> Cbom!SafeTotal]
  <2>1. /\ metrics' = [metrics EXCEPT ![c] = n] /\ UNCHANGED <<reports, assets, events, answer>>
        /\ m.at = "safe"
    BY <1>6 DEF Cbom!CountSafe
  <2>2. m # Cbom!Quiet
    BY <2>1 DEF Cbom!Quiet
  <2>3. m.calm = TRUE => m.total = Cbom!Total
    BY <1>2, <2>1, <2>2 DEF Undisturbed
  <2>4. Undisturbed(n)
    BY <2>3 DEF Undisturbed, Stages
  <2> HIDE DEF n
  <2> QED
    BY <2>1, <2>4, ReaderStep
<1>7. CASE Cbom!CountOpen(c)
  <2> DEFINE n == [at |-> "group", calm |-> m.calm, total |-> m.total, safe |-> m.safe,
                   open |-> Cbom!OpenEvents]
  <2>1. /\ metrics' = [metrics EXCEPT ![c] = n] /\ UNCHANGED <<reports, assets, events, answer>>
        /\ m.at = "open"
    BY <1>7 DEF Cbom!CountOpen
  <2>2. m # Cbom!Quiet
    BY <2>1 DEF Cbom!Quiet
  <2>3. m.calm = TRUE => m.total = Cbom!Total /\ m.safe = Cbom!SafeTotal
    BY <1>2, <2>1, <2>2 DEF Undisturbed
  <2>4. Undisturbed(n)
    BY <2>3 DEF Undisturbed, Stages
  <2> HIDE DEF n
  <2> QED
    BY <2>1, <2>4, ReaderStep
<1>8. CASE Cbom!GroupByAlgorithm(c)
  <2> DEFINE told == [calm |-> m.calm, total |-> m.total, safe |-> m.safe, open |-> m.open,
                      algorithms |-> Cbom!Distribution, score |-> Cbom!Score(m.safe, m.total)]
  <2>1. /\ metrics' = [metrics EXCEPT ![c] = Cbom!Quiet] /\ UNCHANGED <<reports, assets, events>>
        /\ answer' = [op |-> "metrics", code |-> 200, about |-> told] /\ m.at = "group"
    BY <1>8 DEF Cbom!GroupByAlgorithm, Cbom!Reply
  <2>2. m # Cbom!Quiet
    BY <2>1 DEF Cbom!Quiet
  <2>3. m.calm = TRUE =>
          m.total = Cbom!Total /\ m.safe = Cbom!SafeTotal /\ m.open = Cbom!OpenEvents
    BY <1>2, <2>1, <2>2 DEF Undisturbed
  <2>4. answer'.about = told
    BY <2>1
  <2>5. Cbom!TrueIfCalm
    BY <1>2, <2>3, <2>4, OverviewAddsUp DEF Cbom!TrueIfCalm, SumOf
  <2> QED
    BY <1>3, <2>1, <2>5, ReaderStep
<1>9. CASE \E h \in {"dashboard", "overview", "compliance"} : Cbom!MetricsFail(c, h)
  <2>1. /\ metrics' = [metrics EXCEPT ![c] = Cbom!Quiet] /\ UNCHANGED <<reports, assets, events>>
        /\ answer'.op # "metrics"
    BY <1>9 DEF Cbom!MetricsFail, Cbom!Reply
  <2> QED
    BY <1>3, <2>1, ReaderStep DEF Cbom!TrueIfCalm
<1> QED
  BY <1>1, <1>4, <1>5, <1>6, <1>7, <1>8, <1>9

LEMMA CbomStep == CbomInv /\ [Cbom!Next]_cbomVars => CbomInv' /\ Cbom!TrueIfCalm
<1> SUFFICES ASSUME CbomInv, [Cbom!Next]_cbomVars PROVE CbomInv' /\ Cbom!TrueIfCalm
  OBVIOUS
<1>1. CASE Cbom!Handlers
  BY <1>1, HandlersStep DEF Cbom!TrueIfCalm
<1>2. CASE Cbom!MetricsNext
  <2>1. CbomInv' /\ (answer' # answer => Cbom!TrueIfCalm)
    BY <1>2, MetricsStep
  <2> QED
    BY <2>1, Zenon DEF Cbom!TrueIfCalm
<1>3. CASE Cbom!Elsewhere
  BY <1>3, WritersStep DEF Cbom!TrueIfCalm
<1>4. CASE Cbom!Outage \/ UNCHANGED cbomVars
  <2>1. UNCHANGED <<reports, assets, events, metrics, answer>>
    BY <1>4 DEF Cbom!Outage, cbomVars
  <2> QED
    BY <2>1, ReportsOnly DEF CbomInv, CbomTypes, Cbom!TrueIfCalm
<1> QED
  BY <1>1, <1>2, <1>3, <1>4 DEF Cbom!Next

LEMMA CbomSteps == [Next]_serviceVars /\ world = "cbom" => [Cbom!Next]_cbomVars
BY DEF Next, Others, serviceVars, cbomVars

CbomHolds == world = "cbom" => CbomInv

(* An overview that no write disturbed is that of the store: its counts, its *)
(* score and the sum of its distribution.                                    *)
THEOREM CalmMeansTrue == Spec => QuietMetricsTrue
<1>1. Init => CbomHolds
  BY CbomInit DEF Init, CbomHolds
<1>2. CbomHolds /\ [Next]_serviceVars => CbomHolds'
  BY WorldStays, CbomSteps, CbomStep DEF CbomHolds
<1>3. CbomHolds /\ [Next]_serviceVars => [world = "cbom" => Cbom!TrueIfCalm]_serviceVars
  BY CbomSteps, CbomStep DEF CbomHolds
<1> QED
  BY <1>1, <1>2, <1>3, PTL DEF Spec, QuietMetricsTrue
=============================================================================
