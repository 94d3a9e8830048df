---------------------------- MODULE Attestations ----------------------------
(***************************************************************************)
(* Quantum attestations: the rows of quantum_attestations, which clients   *)
(* create, verify and refresh, and the handlers that ask IBM Quantum, an   *)
(* external service that may be disabled, unreachable, answer with an      *)
(* error or with a body that is cut.                                       *)
(***************************************************************************)
EXTENDS Naturals, FiniteSets

CONSTANTS
  Rows, NoRow,
  Analyses      \* what the service says of an algorithm or a network

VARIABLES
  attUp,       \* the enterprise database: "absent", "up" or "down"
  rows,        \* rows[r]: NoRow or its status and whether it has a time of attestation
  ibmq,        \* the configuration: enabled, and with an API key
  asked,       \* the call to the service that a handler waits for, or "none"
  said,        \* what the service answered to the last call
  attAnswer    \* the last answer: handler, status, what it shows

attVars == <<attUp, rows, ibmq, asked, said, attAnswer>>

NoWord == "none"
Init ==
  /\ attUp \in {"absent", "up"} /\ rows = [r \in Rows |-> NoRow]
  /\ ibmq \in [enabled : BOOLEAN, key : BOOLEAN]
  /\ asked = NoWord /\ said = [sent |-> FALSE]
  /\ attAnswer = [op |-> NoWord, code |-> 0, shows |-> {}]

Reply(op, code, shows) == attAnswer' = [op |-> op, code |-> code, shows |-> shows]
Show(op, code, shows) ==
  Reply(op, code, shows) /\ UNCHANGED <<attUp, rows, ibmq, asked, said>>

-----------------------------------------------------------------------------
Present == {r \in Rows : rows[r] # NoRow}

\* The query names an empty status for all of them.
ListAttestations(status) ==
  LET shown == {r \in Present : status # "" => rows[r].status = status}
  IN  Show("list", IF attUp = "up" THEN 200 ELSE 500, IF attUp = "up" THEN shown ELSE {})

\* The status and the times that the client sent are not stored; the asset must exist.
CreateAttestation(r, assetExists) ==
  LET stored == attUp = "up" /\ assetExists
  IN  /\ rows[r] = NoRow
      /\ rows' = IF stored THEN [rows EXCEPT ![r] = [status |-> "pending", timed |-> FALSE]] ELSE rows
      /\ Reply("create", IF stored THEN 201 ELSE 500, {})
      /\ UNCHANGED <<attUp, ibmq, asked, said>>

GetAttestation(r) ==
  LET found == attUp = "up" /\ rows[r] # NoRow
  IN  Show("get", IF attUp = "absent" THEN 500 ELSE IF found THEN 200 ELSE 404,
           IF found THEN {r} ELSE {})

\* One UPDATE; its error and the rows it met are ignored.
Stamp(r, op, row) ==
  /\ rows' = IF attUp = "up" /\ rows[r] # NoRow THEN [rows EXCEPT ![r] = row] ELSE rows
  /\ Reply(op, IF attUp = "absent" THEN 500 ELSE 200, {})
  /\ UNCHANGED <<attUp, ibmq, asked, said>>

VerifyAttestation(r) == Stamp(r, "verify", [status |-> "attested", timed |-> TRUE])
RefreshAttestation(r) == Stamp(r, "refresh", [status |-> "pending", timed |-> FALSE])

\* Answered from constants in the handlers; a migration starts nothing.
ListQuantumNetworks == Show("networks", 200, {"ibmq_brisbane", "ibmq_sherbrooke", "ibm_washington"})
GetQuantumReadiness == Show("readiness", 200, {})
GetMigrationPlan == Show("migration", 200, {})
ListPQCAlgorithms == Show("algorithms", 200, {})
MigrateAlgorithm == Show("migrate", 200, {})

-----------------------------------------------------------------------------
\* The handlers that ask the service, and the status of each one's success.
IBMCalls == {"status", "systems", "attest", "ibm_networks"}
Success(op) == IF op = "attest" THEN 201 ELSE 200

\* NewIBMQuantumClient refuses an empty key; the client lives for one request.
NewIBMQuantumClient == ibmq.key

\* A handler up to its call of the service.
Ask(op, wellFormed) ==
  /\ asked = NoWord
  /\ IF ibmq.enabled /\ (op = "attest" => wellFormed) /\ NewIBMQuantumClient
     THEN asked' = op /\ UNCHANGED attAnswer
     ELSE /\ UNCHANGED asked
          /\ Reply(op, IF ~ibmq.enabled THEN 503
                       ELSE IF op = "attest" /\ ~wellFormed THEN 400 ELSE 500, {})
  /\ UNCHANGED <<attUp, rows, ibmq, said>>

\* What may come back: nothing, or a status and a body that may be cut or, when
\* it is of an error, parses to an empty analysis.
Responses ==
  [sent : {FALSE}] \cup
  [sent : {TRUE}, status : {200}, body : Analyses \cup {"cut"}] \cup
  [sent : {TRUE}, status : {429, 500}, body : {"error", "cut"}]

\* Fault: the status of the response is not looked at.
AcceptedAnyStatus(r) == r.sent /\ r.body # "cut"
\* The client: an error when nothing came back, the body was cut, or the status is not 200.
Accepted(r) == r.sent /\ r.status = 200 /\ r.body # "cut"

\* The service answers and the handler passes on what it says; nothing is stored.
Answered(r) ==
  /\ asked # NoWord /\ asked' = NoWord /\ said' = r
  /\ IF Accepted(r) THEN Reply(asked, Success(asked), {r.body}) ELSE Reply(asked, 500, {})
  /\ UNCHANGED <<attUp, rows, ibmq>>

\* Answer without asking the service.
TriggerEmergencyQuantumResponse(wellFormed) ==
  Show("emergency", IF ~ibmq.enabled THEN 503 ELSE IF wellFormed THEN 200 ELSE 400, {})
attestCBOMReport == Show("attest_cbom", IF ibmq.enabled THEN 202 ELSE 503, {})
\* Whatever the asset, not quantum safe; the other views are as fixed.
verifyAssetQuantum == Show("verify_asset", 200, {FALSE})
CannedView == Show("view", 200, {})

AttOutage ==
  /\ attUp # "absent" /\ attUp' = IF attUp = "up" THEN "down" ELSE "up"
  /\ UNCHANGED <<rows, ibmq, asked, said, attAnswer>>

Next ==
  \/ \E status \in {"", "pending", "attested"} : ListAttestations(status)
  \/ \E r \in Rows :
       \/ \E assetExists \in BOOLEAN : CreateAttestation(r, assetExists)
       \/ GetAttestation(r) \/ VerifyAttestation(r) \/ RefreshAttestation(r)
  \/ ListQuantumNetworks \/ GetQuantumReadiness \/ GetMigrationPlan \/ ListPQCAlgorithms
  \/ MigrateAlgorithm \/ attestCBOMReport \/ verifyAssetQuantum \/ CannedView
  \/ \E op \in IBMCalls, wellFormed \in BOOLEAN : Ask(op, wellFormed)
  \/ \E r \in Responses : Answered(r)
  \/ \E wellFormed \in BOOLEAN : TriggerEmergencyQuantumResponse(wellFormed)
  \/ AttOutage
Spec == Init /\ [][Next]_attVars

-----------------------------------------------------------------------------
(* ibm_quantum.go: what a handler reports as IBM's attestation or network   *)
(* is what a complete, successful response said: no error body and nothing  *)
(* made up when the service fails.                                          *)
IBMAnswersAreIBMs ==
  \A op \in IBMCalls :
     attAnswer.op = op /\ attAnswer.code < 300
        => said.sent /\ said.status = 200 /\ attAnswer.shows = {said.body} /\ said.body \in Analyses
=============================================================================
