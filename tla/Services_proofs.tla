--------------------------- MODULE Services_proofs ---------------------------
(* Proofs about the services of Services, for any values of its constants:    *)
(* of each one an invariant of its own, which the others cannot touch, as a   *)
(* behaviour is about one of them.                                           *)
EXTENDS Services, FiniteSetTheorems, FunctionTheorems, WellFoundedInduction, TLAPS

(* No step changes what a behaviour is about. *)
LEMMA WorldStays == [Next]_serviceVars => world' = world
BY DEF Next, Others, serviceVars

-----------------------------------------------------------------------------
(* API keys. *)
(* What the middleware has read names a row that is still there: nothing     *)
(* deletes a key.                                                            *)
HeldRow(c) == call[c].at # "idle" => call[c].key \in Keys /\ keys[call[c].key] # None

(* The invariant of ApiKeys: rows have all their columns, so that a write to *)
(* one of them reaches it.                                                   *)
KeyInv ==
  /\ keys \in [Keys -> Key!Rows \cup {None}]
  /\ DOMAIN call = Callers
  /\ \A c \in Callers : HeldRow(c)

(* A write to some columns leaves a row where there was one, and none else. *)
LEMMA RowKept ==
  ASSUME keys \in [Keys -> Key!Rows \cup {None}],
         keys' \in [Keys -> Key!Rows \cup {None}],
         \A k \in Keys : keys[k] # None => keys'[k] # None,
         DOMAIN call = Callers, call' = call, \A c \in Callers : HeldRow(c)
  PROVE  KeyInv'
BY DEF KeyInv, HeldRow

(* The invariant holds at the start and is kept by every step. *)
LEMMA KeyInvInit == Key!Init => KeyInv
BY DEF Key!Init, KeyInv, HeldRow, Key!NoCall

LEMMA KeyInvStep == KeyInv /\ [Key!Next]_keyVars => KeyInv'
<1> SUFFICES ASSUME KeyInv, [Key!Next]_keyVars PROVE KeyInv'
  OBVIOUS
<1>0. /\ keys \in [Keys -> Key!Rows \cup {None}] /\ DOMAIN call = Callers
      /\ \A c \in Callers : HeldRow(c)
  BY DEF KeyInv
<1>1. ASSUME NEW k \in Keys, Key!RevokeKey(k) PROVE KeyInv'
  <2>1. keys[k] \in Key!Rows /\ [keys[k] EXCEPT !.status = "revoked"] \in Key!Rows
    BY <1>0, <1>1 DEF Key!RevokeKey, Key!Rows
  <2>2. keys' = [keys EXCEPT ![k] = [keys[k] EXCEPT !.status = "revoked"]] /\ call' = call
    BY <1>1 DEF Key!RevokeKey
  <2> QED
    BY NoneIsNoRow, <1>0, <2>1, <2>2, RowKept
<1>2. ASSUME NEW k \in Keys, Key!PassExpiry(k) PROVE KeyInv'
  <2>1. keys[k] \in Key!Rows /\ [keys[k] EXCEPT !.over = TRUE] \in Key!Rows
    BY <1>0, <1>2 DEF Key!PassExpiry, Key!Rows
  <2>2. keys' = [keys EXCEPT ![k] = [keys[k] EXCEPT !.over = TRUE]] /\ call' = call
    BY <1>2 DEF Key!PassExpiry
  <2> QED
    BY NoneIsNoRow, <1>0, <2>1, <2>2, RowKept
<1>3. ASSUME NEW k \in Keys, NEW role \in KeyRoles \cup {""}, Key!CreateKey(k, role) PROVE KeyInv'
  <2> DEFINE row == [status |-> "active", over |-> FALSE, used |-> FALSE,
                     role |-> IF role = "" THEN "viewer" ELSE role]
  <2>1. row \in Key!Rows
    BY DEF Key!Rows
  <2>2. keys' = [keys EXCEPT ![k] = row] /\ call' = call
    BY <1>3 DEF Key!CreateKey
  <2> HIDE DEF row
  <2> QED
    BY NoneIsNoRow, <1>0, <2>1, <2>2, RowKept
<1>4. ASSUME NEW k \in Keys, NEW role \in KeyRoles \cup {""}, Key!UpdateKey(k, role) PROVE KeyInv'
  <2>1. keys[k] \in Key!Rows
    BY <1>0, <1>4 DEF Key!UpdateKey
  <2>2. /\ keys' = [keys EXCEPT ![k] = [keys[k] EXCEPT
                     !.role = IF role = "" THEN keys[k].role ELSE role]]
        /\ call' = call
    BY <1>4 DEF Key!UpdateKey
  <2>3. [keys[k] EXCEPT !.role = IF role = "" THEN keys[k].role ELSE role] \in Key!Rows
    BY <2>1 DEF Key!Rows
  <2> QED
    BY NoneIsNoRow, <1>0, <2>2, <2>3, RowKept
<1>5. ASSUME NEW c \in Callers, NEW k \in Keys, Key!SelectKey(c, k) PROVE KeyInv'
  BY <1>0, <1>5 DEF Key!SelectKey, KeyInv, HeldRow
<1>6. ASSUME NEW c \in Callers, Key!RejectExpired(c) PROVE KeyInv'
  <2> DEFINE k == call[c].key
  <2>1. k \in Keys /\ keys[k] \in Key!Rows
    BY <1>0, <1>6 DEF Key!RejectExpired, HeldRow
  <2>2. [keys[k] EXCEPT !.status = "expired"] \in Key!Rows
    BY <2>1 DEF Key!Rows
  <2>3. \/ keys' = keys
        \/ keys' = [keys EXCEPT ![k] = [keys[k] EXCEPT !.status = "expired"]]
    BY <1>6 DEF Key!RejectExpired
  <2>4. call' = [call EXCEPT ![c] = Key!NoCall]
    BY <1>6 DEF Key!RejectExpired
  <2>5. keys' \in [Keys -> Key!Rows \cup {None}] /\ \A r \in Keys : keys[r] # None => keys'[r] # None
    BY NoneIsNoRow, <1>0, <2>1, <2>2, <2>3
  <2> QED
    BY <1>0, <2>4, <2>5 DEF KeyInv, HeldRow, Key!NoCall
<1>7. ASSUME NEW c \in Callers, Key!Admit(c) PROVE KeyInv'
  <2> DEFINE k == call[c].key
  <2>1. k \in Keys /\ keys[k] \in Key!Rows
    BY <1>0, <1>7 DEF Key!Admit, HeldRow
  <2>2. [keys[k] EXCEPT !.used = TRUE] \in Key!Rows
    BY <2>1 DEF Key!Rows
  <2>3. \/ keys' = keys
        \/ keys' = [keys EXCEPT ![k] = [keys[k] EXCEPT !.used = TRUE]]
    BY <1>7 DEF Key!Admit
  <2>4. call' = [call EXCEPT ![c] = [at |-> "admitted", key |-> call[c].key, role |-> call[c].role]]
    BY <1>7 DEF Key!Admit
  <2>5. keys' \in [Keys -> Key!Rows \cup {None}] /\ \A r \in Keys : keys[r] # None => keys'[r] # None
    BY NoneIsNoRow, <1>0, <2>1, <2>2, <2>3
  <2>6. ASSUME NEW d \in Callers PROVE HeldRow(d)'
    <3>1. CASE d = c
      <4>1. call'[d].key = call[c].key
        BY <1>0, <2>4, <3>1
      <4> QED
        BY NoneIsNoRow, <2>1, <2>5, <4>1 DEF HeldRow
    <3>2. CASE d # c
      <4>1. call'[d] = call[d]
        BY <1>0, <2>4, <3>2
      <4> QED
        BY <1>0, <2>5, <4>1 DEF HeldRow
    <3> QED
      BY <3>1, <3>2
  <2>7. DOMAIN call' = Callers
    BY <1>0, <2>4
  <2> QED
    BY <2>5, <2>6, <2>7, Zenon DEF KeyInv
<1>8. ASSUME NEW c \in Callers, Key!Respond(c) PROVE KeyInv'
  BY <1>0, <1>8 DEF Key!Respond, KeyInv, HeldRow, Key!NoCall
<1>9. CASE Key!KeyOutage
  BY <1>0, <1>9 DEF Key!KeyOutage, KeyInv, HeldRow
<1>10. CASE UNCHANGED keyVars
  BY <1>0, <1>10 DEF keyVars, KeyInv, HeldRow
<1> QED
  BY <1>1, <1>2, <1>3, <1>4, <1>5, <1>6, <1>7, <1>8, <1>9, <1>10, Zenon DEF Key!Next

(* No step makes a key active that was there and was not. *)
LEMMA StepRevivesNone == KeyInv /\ [Key!Next]_keyVars => Key!NothingRevives
<1> SUFFICES ASSUME KeyInv, [Key!Next]_keyVars,
                    NEW r \in Keys, keys[r] # None, keys[r].status # "active"
             PROVE  keys'[r].status # "active"
  BY DEF Key!NothingRevives
<1>0. /\ keys \in [Keys -> Key!Rows \cup {None}] /\ \A c \in Callers : HeldRow(c)
      /\ keys[r] \in Key!Rows
  BY DEF KeyInv
<1>1. ASSUME NEW k \in Keys, Key!RevokeKey(k) \/ Key!PassExpiry(k) PROVE keys'[r].status # "active"
  BY <1>0, <1>1 DEF Key!RevokeKey, Key!PassExpiry, Key!Rows
<1>2. ASSUME NEW k \in Keys, NEW role \in KeyRoles \cup {""}, Key!CreateKey(k, role)
      PROVE  keys'[r].status # "active"
  BY <1>0, <1>2 DEF Key!CreateKey
<1>3. ASSUME NEW k \in Keys, NEW role \in KeyRoles \cup {""}, Key!UpdateKey(k, role)
      PROVE  keys'[r].status # "active"
  BY <1>0, <1>3 DEF Key!UpdateKey, Key!Rows
<1>4. ASSUME NEW c \in Callers, Key!RejectExpired(c) PROVE keys'[r].status # "active"
  BY <1>0, <1>4 DEF Key!RejectExpired, Key!Rows
<1>5. ASSUME NEW c \in Callers, Key!Admit(c) PROVE keys'[r].status # "active"
  BY <1>0, <1>5 DEF Key!Admit, Key!Rows
<1>6. ASSUME keys' = keys PROVE keys'[r].status # "active"
  BY <1>6
<1> QED
  BY <1>1, <1>2, <1>3, <1>4, <1>5, <1>6, Zenon
  DEF Key!Next, Key!SelectKey, Key!Respond, Key!KeyOutage, keyVars

(* In a behaviour about keys every step is one of ApiKeys. *)
LEMMA KeySteps == [Next]_serviceVars /\ world = "keys" => [Key!Next]_keyVars
BY DEF Next, serviceVars

KeysHold == world = "keys" => KeyInv

(* Every row has all its columns, and what the middleware holds is a row. *)
THEOREM KeyInvariance == Spec => []KeysHold
<1>1. Init => KeysHold
  BY KeyInvInit DEF Init, KeysHold
<1>2. KeysHold /\ [Next]_serviceVars => KeysHold'
  BY WorldStays, KeySteps, KeyInvStep DEF KeysHold
<1> QED
  BY <1>1, <1>2, PTL DEF Spec

(* A key that was revoked or has expired is never active again, however      *)
(* updates, expiry and the two steps of the middleware interleave.           *)
THEOREM NeverRevived == Spec => InactiveStaysInactive
<1>1. KeysHold /\ [Next]_serviceVars => (world = "keys" => Key!NothingRevives)
  BY KeySteps, StepRevivesNone DEF KeysHold
<1> QED
  BY <1>1, KeyInvariance, PTL DEF Spec, InactiveStaysInactive

-----------------------------------------------------------------------------
(* Sessions: what Accounts_proofs shows of Accounts, of both its instances    *)
(* here.  Each pair of instances has one definition of everything, so that    *)
(* expanding both is the whole proof that the one is the other.               *)
Plain == INSTANCE Accounts_proofs WITH States <- {}
External == INSTANCE Accounts_proofs
              WITH Requested <- {""}, MaxTokens <- 2, MaxExpired <- 0

(* The instance without OAuth. *)
LEMMA SessionsInit == Session!Init => Plain!Init
BY Zenon DEF Session!BootstrapUser, Plain!BootstrapUser, Session!FirstUsers, Plain!FirstUsers,
    Session!Idle, Plain!Idle, Session!Init, Plain!Init, Session!NoUser, Plain!NoUser,
    Session!SeededUser, Plain!SeededUser, Session!Services, Plain!Services
LEMMA SessionsNext == Session!SessionNext => Plain!SessionNext
BY Zenon DEF Session!AccessToken, Plain!AccessToken, Session!Base, Plain!Base, Session!BootstrapUser,
    Plain!BootstrapUser, Session!Cardinality, Plain!Cardinality, Session!CreateInDomain,
    Plain!CreateInDomain, Session!CreateRow, Plain!CreateRow, Session!CreateUser,
    Plain!CreateUser, Session!DefaultEdition, Plain!DefaultEdition, Session!DemoAccess,
    Plain!DemoAccess, Session!EditionForRole, Plain!EditionForRole, Session!Expire,
    Plain!Expire, Session!Extra, Plain!Extra, Session!FindInDomain, Plain!FindInDomain,
    Session!FindRow, Plain!FindRow, Session!FirstUsers, Plain!FirstUsers, Session!Forms,
    Plain!Forms, Session!GetUserByEmail, Plain!GetUserByEmail, Session!Idle, Plain!Idle,
    Session!Issue, Plain!Issue, Session!Login, Plain!Login, Session!LoginWithEdition,
    Plain!LoginWithEdition, Session!Logout, Plain!Logout, Session!MfaVerify,
    Plain!MfaVerify, Session!NoUser, Plain!NoUser, Session!Permissions, Plain!Permissions,
    Session!RefreshCheck, Plain!RefreshCheck, Session!RefreshRotate, Plain!RefreshRotate,
    Session!RefreshToken, Plain!RefreshToken, Session!Register, Plain!Register,
    Session!Restart, Plain!Restart, Session!Revoke, Plain!Revoke, Session!SeededUser,
    Plain!SeededUser, Session!Services, Plain!Services, Session!SessionNext,
    Plain!SessionNext, Session!Sessions, Plain!Sessions, Session!ValidateToken,
    Plain!ValidateToken
LEMMA SessionsRights == Plain!SessionKeepsRights => Session!SessionKeepsRights
BY Zenon DEF Session!Access, Plain!Access, Session!SessionKeepsRights, Plain!SessionKeepsRights
LEMMA SessionsRotation == Plain!RotationSpends => Session!RotationSpends
BY Zenon DEF Session!Access, Plain!Access, Session!Cardinality, Plain!Cardinality,
    Session!RotationSpends, Plain!RotationSpends
LEMMA SessionsSteps ==
  [Next]_serviceVars /\ world = "sessions" => [Plain!Next]_accountVars
BY SessionsNext DEF Next, serviceVars, Plain!Next

SessionsHold == world = "sessions" => Plain!AccountsInv /\ Plain!RotationInv

(* Tokens inherit from their logins, and are counted against rotation. *)
LEMMA SessionsInvariance == Spec => []SessionsHold
<1>0. Plain!IsFiniteSet(Clients)
  BY FiniteParameters DEF IsFiniteSet, Plain!IsFiniteSet
<1>1. Init => SessionsHold
  BY SessionsInit, Plain!AccountsInit, Plain!RotationInit DEF Init, SessionsHold
<1>2. SessionsHold /\ [Next]_serviceVars => SessionsHold'
  <2> SUFFICES ASSUME Plain!AccountsInv, Plain!RotationInv, [Plain!Next]_accountVars
               PROVE  Plain!AccountsInv' /\ Plain!RotationInv'
    BY WorldStays, SessionsSteps DEF SessionsHold
  <2>1. [Plain!Next]_Plain!vars
    BY DEF Plain!vars, accountVars
  <2> QED
    BY <1>0, <2>1, Plain!AccountsStep, Plain!RotationStep
<1> QED
  BY <1>1, <1>2, PTL DEF Spec

(* The instance with OAuth logins. *)
LEMMA CallbacksInit == OAuth!Init => External!Init
BY Zenon DEF OAuth!BootstrapUser, External!BootstrapUser, OAuth!FirstUsers, External!FirstUsers,
    OAuth!Idle, External!Idle, OAuth!Init, External!Init, OAuth!NoUser, External!NoUser,
    OAuth!SeededUser, External!SeededUser, OAuth!Services, External!Services
LEMMA CallbacksNext == OAuth!Next => External!Next
BY Zenon DEF OAuth!AccessToken, External!AccessToken, OAuth!Base, External!Base, OAuth!BootstrapUser,
    External!BootstrapUser, OAuth!CallbackCheck, External!CallbackCheck,
    OAuth!CallbackFails, External!CallbackFails, OAuth!CallbackFinish,
    External!CallbackFinish, OAuth!CallbackLookup, External!CallbackLookup,
    OAuth!CallbackTake, External!CallbackTake, OAuth!CannotCreate, External!CannotCreate,
    OAuth!Cardinality, External!Cardinality, OAuth!CreateInDomain, External!CreateInDomain,
    OAuth!CreateRow, External!CreateRow, OAuth!CreateUser, External!CreateUser,
    OAuth!DefaultEdition, External!DefaultEdition, OAuth!DemoAccess, External!DemoAccess,
    OAuth!EditionForRole, External!EditionForRole, OAuth!Expire, External!Expire,
    OAuth!Extra, External!Extra, OAuth!FindInDomain, External!FindInDomain, OAuth!FindRow,
    External!FindRow, OAuth!FirstUsers, External!FirstUsers, OAuth!Forms, External!Forms,
    OAuth!GetUserByEmail, External!GetUserByEmail, OAuth!GitHubEmail, External!GitHubEmail,
    OAuth!GoogleEmail, External!GoogleEmail, OAuth!Identity, External!Identity, OAuth!Idle,
    External!Idle, OAuth!Issue, External!Issue, OAuth!Login, External!Login,
    OAuth!LoginWithEdition, External!LoginWithEdition, OAuth!Logout, External!Logout,
    OAuth!MfaVerify, External!MfaVerify, OAuth!Next, External!Next, OAuth!NoUser,
    External!NoUser, OAuth!OAuthLogin, External!OAuthLogin, OAuth!OAuthNext,
    External!OAuthNext, OAuth!Permissions, External!Permissions, OAuth!ProfileOf,
    External!ProfileOf, OAuth!Providers, External!Providers, OAuth!RefreshCheck,
    External!RefreshCheck, OAuth!RefreshRotate, External!RefreshRotate, OAuth!RefreshToken,
    External!RefreshToken, OAuth!Register, External!Register, OAuth!Restart,
    External!Restart, OAuth!Revoke, External!Revoke, OAuth!SeededUser, External!SeededUser,
    OAuth!Services, External!Services, OAuth!SessionNext, External!SessionNext,
    OAuth!Sessions, External!Sessions, OAuth!ValidateToken, External!ValidateToken
LEMMA CallbacksRights == External!SessionKeepsRights => OAuth!SessionKeepsRights
BY Zenon DEF OAuth!Access, External!Access, OAuth!SessionKeepsRights, External!SessionKeepsRights
LEMMA CallbacksRotation == External!RotationSpends => OAuth!RotationSpends
BY Zenon DEF OAuth!Access, External!Access, OAuth!Cardinality, External!Cardinality,
    OAuth!RotationSpends, External!RotationSpends
LEMMA CallbacksSteps ==
  [Next]_serviceVars /\ world = "oauth" => [External!Next]_accountVars
BY CallbacksNext DEF Next, serviceVars

CallbacksHold == world = "oauth" => External!AccountsInv /\ External!RotationInv

(* Tokens inherit from their logins, and are counted against rotation. *)
LEMMA CallbacksInvariance == Spec => []CallbacksHold
<1>0. External!IsFiniteSet(Clients)
  BY FiniteParameters DEF IsFiniteSet, External!IsFiniteSet
<1>1. Init => CallbacksHold
  BY CallbacksInit, External!AccountsInit, External!RotationInit DEF Init, CallbacksHold
<1>2. CallbacksHold /\ [Next]_serviceVars => CallbacksHold'
  <2> SUFFICES ASSUME External!AccountsInv, External!RotationInv, [External!Next]_accountVars
               PROVE  External!AccountsInv' /\ External!RotationInv'
    BY WorldStays, CallbacksSteps DEF CallbacksHold
  <2>1. [External!Next]_External!vars
    BY DEF External!vars, accountVars
  <2> QED
    BY <1>0, <2>1, External!AccountsStep, External!RotationStep
<1> QED
  BY <1>1, <1>2, PTL DEF Spec

(* However often a session is refreshed, by whatever chain of access and     *)
(* refresh tokens, concurrently or after restarts, of an OAuth login or of   *)
(* another, its tokens name the user and role of its login and grant nothing *)
(* that the login did not.                                                   *)
THEOREM RightsKept == Spec => []SessionKeepsRights
<1>1. SessionsHold /\ CallbacksHold => SessionKeepsRights
  BY Plain!InheritedRights, External!InheritedRights, SessionsRights, CallbacksRights
  DEF SessionsHold, CallbacksHold, SessionKeepsRights
<1> QED
  BY <1>1, SessionsInvariance, CallbacksInvariance, PTL

(* A token is exchanged at most once per concurrent request in each run of   *)
(* the server, whatever is in flight when it restarts.                       *)
THEOREM RotationKept == Spec => []RotationSpends
<1>0. Plain!IsFiniteSet(Clients) /\ External!IsFiniteSet(Clients)
  BY FiniteParameters DEF IsFiniteSet, Plain!IsFiniteSet, External!IsFiniteSet
<1>1. SessionsHold /\ CallbacksHold => RotationSpends
  BY <1>0, Plain!SpentOnce, External!SpentOnce, SessionsRotation, CallbacksRotation
  DEF SessionsHold, CallbacksHold, RotationSpends
<1> QED
  BY <1>1, SessionsInvariance, CallbacksInvariance, PTL

-----------------------------------------------------------------------------
(* Attestations. *)
LEMMA AttestSteps == [Next]_serviceVars /\ world = "attestations" => [Attest!Next]_attestationVars
BY DEF Next, serviceVars

(* The handlers that never ask IBM answer under other names, and a failure   *)
(* has a code of its own.                                                    *)
LEMMA OtherAnswers ==
  ASSUME NEW op, NEW code, NEW shows, Attest!Reply(op, code, shows),
         op \notin Attest!IBMCalls \/ code \in {400, 500, 503}
  PROVE  Attest!IBMAnswersAreIBMs'
<1>1. attAnswer'.op = op /\ attAnswer'.code = code
  BY Zenon DEF Attest!Reply
<1>2. code \in {400, 500, 503} => ~(code < 300)
  OBVIOUS
<1> QED
  BY <1>1, <1>2, Zenon DEF Attest!IBMAnswersAreIBMs

LEMMA IBMStep ==
  Attest!IBMAnswersAreIBMs /\ [Attest!Next]_attestationVars => Attest!IBMAnswersAreIBMs'
<1> SUFFICES ASSUME Attest!IBMAnswersAreIBMs, [Attest!Next]_attestationVars
             PROVE  Attest!IBMAnswersAreIBMs'
  OBVIOUS
<1>0. ASSUME UNCHANGED <<ibmSaid, attAnswer>> PROVE Attest!IBMAnswersAreIBMs'
  BY <1>0, Zenon DEF Attest!IBMAnswersAreIBMs
<1>1. ASSUME NEW op, NEW wellFormed, Attest!Ask(op, wellFormed) PROVE Attest!IBMAnswersAreIBMs'
  <2>1. \/ UNCHANGED <<ibmSaid, attAnswer>>
        \/ \E code \in {400, 500, 503} : Attest!Reply(op, code, {})
    <3> DEFINE code == IF ~ibmq.enabled THEN 503
                       ELSE IF op = "attest" /\ ~wellFormed THEN 400 ELSE 500
    <3>1. UNCHANGED ibmSaid /\ (UNCHANGED attAnswer \/ Attest!Reply(op, code, {}))
      BY <1>1, Zenon DEF Attest!Ask
    <3>2. code \in {400, 500, 503}
      OBVIOUS
    <3> HIDE DEF code
    <3> QED
      BY <3>1, <3>2
  <2> QED
    BY <1>0, <2>1, OtherAnswers
<1>2. ASSUME NEW r \in Attest!Responses, Attest!Answered(r) PROVE Attest!IBMAnswersAreIBMs'
  <2>1. CASE Attest!Accepted(r)
    <3>0. ibmSaid' = r /\ Attest!Reply(asked, Attest!Success(asked), {r.body})
      BY <1>2, <2>1, Zenon DEF Attest!Answered
    <3>1. attAnswer'.shows = {r.body}
      BY <3>0, Zenon DEF Attest!Reply
    <3>2. r.sent /\ r.status = 200 /\ r.body # "cut"
      BY <2>1, Zenon DEF Attest!Accepted
    <3>3. r \in [sent : {TRUE}, status : {429, 500}, body : {"error", "cut"}] => r.status \in {429, 500}
      BY Zenon
    <3>4. r \in [sent : {FALSE}] => ~r.sent
      BY Zenon
    <3>5. r \in [sent : {TRUE}, status : {200}, body : Analyses \cup {"cut"}]
      <4>1. 200 \notin {429, 500}
        OBVIOUS
      <4> QED
        BY <3>2, <3>3, <3>4, <4>1, Zenon DEF Attest!Responses
    <3>6. r.body \in Analyses
      BY <3>2, <3>5, Zenon
    <3> QED
      BY <3>0, <3>1, <3>2, <3>6, Zenon DEF Attest!IBMAnswersAreIBMs
  <2>2. CASE ~Attest!Accepted(r)
    <3>1. Attest!Reply(asked, 500, {})
      BY <1>2, <2>2, Zenon DEF Attest!Answered
    <3> QED
      BY <3>1, OtherAnswers
  <2> QED
    BY <2>1, <2>2
<1>3. ASSUME NEW op, op \in {"list", "create", "get", "verify", "refresh", "networks", "readiness",
                        "migration", "algorithms", "migrate", "emergency", "attest_cbom",
                        "verify_asset", "view"},
             NEW code, NEW shows, Attest!Reply(op, code, shows)
      PROVE  Attest!IBMAnswersAreIBMs'
  <2>1. op \notin Attest!IBMCalls
    BY <1>3 DEF Attest!IBMCalls
  <2> QED
    BY <1>3, <2>1, OtherAnswers
<1>4. CASE Attest!Next
  <2>1. ASSUME NEW status, Attest!ListAttestations(status) PROVE Attest!IBMAnswersAreIBMs'
    BY <1>3, <2>1, Zenon DEF Attest!ListAttestations, Attest!Show
  <2>2. ASSUME NEW r, NEW assetExists, Attest!CreateAttestation(r, assetExists)
        PROVE  Attest!IBMAnswersAreIBMs'
    BY <1>3, <2>2, Zenon DEF Attest!CreateAttestation
  <2>3. ASSUME NEW r, Attest!GetAttestation(r) PROVE Attest!IBMAnswersAreIBMs'
    BY <1>3, <2>3, Zenon DEF Attest!GetAttestation, Attest!Show
  <2>4. ASSUME NEW r, Attest!VerifyAttestation(r) \/ Attest!RefreshAttestation(r)
        PROVE  Attest!IBMAnswersAreIBMs'
    BY <1>3, <2>4, Zenon DEF Attest!VerifyAttestation, Attest!RefreshAttestation, Attest!Stamp
  <2>5. ASSUME \/ Attest!ListQuantumNetworks \/ Attest!GetQuantumReadiness
               \/ Attest!GetMigrationPlan \/ Attest!ListPQCAlgorithms \/ Attest!MigrateAlgorithm
               \/ Attest!attestCBOMReport \/ Attest!verifyAssetQuantum \/ Attest!CannedView
        PROVE  Attest!IBMAnswersAreIBMs'
    BY <1>3, <2>5, Zenon
    DEF Attest!ListQuantumNetworks, Attest!GetQuantumReadiness, Attest!GetMigrationPlan,
        Attest!ListPQCAlgorithms, Attest!MigrateAlgorithm, Attest!attestCBOMReport,
        Attest!verifyAssetQuantum, Attest!CannedView, Attest!Show
  <2>6. ASSUME NEW wellFormed, Attest!TriggerEmergencyQuantumResponse(wellFormed)
        PROVE  Attest!IBMAnswersAreIBMs'
    BY <1>3, <2>6, Zenon DEF Attest!TriggerEmergencyQuantumResponse, Attest!Show
  <2>7. CASE Attest!AttOutage
    BY <1>0, <2>7, Zenon DEF Attest!AttOutage
  <2> QED
    BY <1>1, <1>2, <1>4, <2>1, <2>2, <2>3, <2>4, <2>5, <2>6, <2>7, Zenon DEF Attest!Next
<1>5. CASE UNCHANGED attestationVars
  BY <1>0, <1>5 DEF attestationVars
<1> QED
  BY <1>4, <1>5

(* Whatever the service answers, or fails to, and however its response is    *)
(* cut, what a handler reports as IBM's is what IBM said to that call.       *)
THEOREM IBMsOwn == Spec => []IBMAnswersAreIBMs
<1>1. Init => IBMAnswersAreIBMs
  <2> SUFFICES ASSUME world = "attestations", Attest!Init PROVE Attest!IBMAnswersAreIBMs
    BY Zenon DEF Init, IBMAnswersAreIBMs
  <2>1. attAnswer.op = "none"
    BY Zenon DEF Attest!Init, Attest!NoWord
  <2> QED
    BY <2>1, Zenon DEF Attest!IBMAnswersAreIBMs, Attest!IBMCalls
<1>2. IBMAnswersAreIBMs /\ [Next]_serviceVars => IBMAnswersAreIBMs'
  BY WorldStays, AttestSteps, IBMStep DEF IBMAnswersAreIBMs
<1> QED
  BY <1>1, <1>2, PTL DEF Spec
-----------------------------------------------------------------------------
(* Webhooks. *)
Calls == [hook : Hooks, code : Codes]
Places ==
  {Hook!NotTesting} \cup [at : {"post"}, hook : Hooks]
    \cup [at : {"record"}, hook : Hooks, code : Codes]
(* The tests that have the answer code of h and have not recorded it. *)
Unrecorded(h, code) ==
  {c \in Testers : test[c] = [at |-> "record", hook |-> h, code |-> code]}
Recorded(h, code) ==
  deliveries[<<h, code, "delivered">>] + deliveries[<<h, code, "failed">>]

HookTypes ==
  /\ hooks \subseteq Hooks /\ deliveries \in [Hook!Outcomes -> Nat] /\ posts \in Seq(Calls)
  /\ test \in [Testers -> Places]
(* What is recorded is of a webhook there is, under the status of its answer. *)
OfLiveHooks ==
  \A o \in Hook!Outcomes :
    deliveries[o] > 0 => o[1] \in hooks /\ o[3] = Hook!DeliveryStatus(o[2])
(* Each answer is recorded, still to be recorded, or lost. *)
Balance(h, code) == Recorded(h, code) + Cardinality(Unrecorded(h, code)) <= Cardinality(Hook!Answers(h, code))
HookInv ==
  /\ HookTypes
  /\ OfLiveHooks
  /\ \A h \in Hooks, code \in Codes : Balance(h, code)

LEMMA HookInit == Hook!Init => HookInv
<1> SUFFICES ASSUME Hook!Init PROVE HookInv
  OBVIOUS
<1>1. /\ hooks = {} /\ deliveries = [o \in Hook!Outcomes |-> 0] /\ posts = <<>>
      /\ test = [c \in Testers |-> Hook!NotTesting]
  BY DEF Hook!Init
<1>2. HookTypes
  BY <1>1 DEF HookTypes, Places
<1>3. OfLiveHooks
  BY <1>1 DEF OfLiveHooks
<1>4. ASSUME NEW h \in Hooks, NEW code \in Codes PROVE Balance(h, code)
  <2>1. Recorded(h, code) = 0
    BY <1>1 DEF Recorded, Hook!Outcomes
  <2>2. Unrecorded(h, code) = {}
    BY <1>1 DEF Unrecorded, Hook!NotTesting
  <2>3. Hook!Answers(h, code) = {}
    BY <1>1 DEF Hook!Answers
  <2> QED
    BY <2>1, <2>2, <2>3, FS_EmptySet DEF Balance
<1> QED
  BY <1>2, <1>3, <1>4 DEF HookInv

(* The sets and counts of the balance are finite. *)
LEMMA BalanceTypes ==
  ASSUME HookTypes, NEW h \in Hooks, NEW code \in Codes
  PROVE  /\ Recorded(h, code) \in Nat
         /\ IsFiniteSet(Unrecorded(h, code)) /\ Cardinality(Unrecorded(h, code)) \in Nat
         /\ IsFiniteSet(Hook!Answers(h, code)) /\ Cardinality(Hook!Answers(h, code)) \in Nat
<1>1. Recorded(h, code) \in Nat
  BY DEF HookTypes, Recorded, Hook!Outcomes
<1>2. IsFiniteSet(Unrecorded(h, code))
  BY FS_Subset, FiniteParameters DEF Unrecorded
<1>3. IsFiniteSet(Hook!Answers(h, code))
  <2>1. DOMAIN posts = 1 .. Len(posts) /\ Len(posts) \in Nat
    BY DEF HookTypes
  <2>2. Hook!Answers(h, code) \in SUBSET (1 .. Len(posts))
    BY <2>1 DEF Hook!Answers
  <2>3. IsFiniteSet(1 .. Len(posts))
    BY <2>1, FS_Interval
  <2> QED
    BY <2>2, <2>3, FS_Subset
<1> QED
  BY <1>1, <1>2, <1>3, FS_CardinalityType

(* A step that records nothing and leaves calls and tests alone. *)
LEMMA BalanceStays ==
  ASSUME HookInv, HookTypes', NEW h \in Hooks, NEW code \in Codes,
         Recorded(h, code)' <= Recorded(h, code),
         Unrecorded(h, code)' = Unrecorded(h, code),
         Hook!Answers(h, code)' = Hook!Answers(h, code)
  PROVE  Balance(h, code)'
<1>1. HookTypes /\ Balance(h, code)
  BY DEF HookInv
<1>2. /\ Recorded(h, code) \in Nat /\ Cardinality(Unrecorded(h, code)) \in Nat
      /\ Cardinality(Hook!Answers(h, code)) \in Nat
  BY <1>1, BalanceTypes
<1>3. Recorded(h, code)' \in Nat
  BY DEF HookTypes, Recorded, Hook!Outcomes
<1> QED
  BY <1>1, <1>2, <1>3 DEF Balance

LEMMA HookStep == HookInv /\ [Hook!Next]_hookVars => HookInv'
<1> SUFFICES ASSUME HookInv, [Hook!Next]_hookVars PROVE HookInv'
  OBVIOUS
<1>0. HookTypes /\ OfLiveHooks /\ \A h \in Hooks, code \in Codes : Balance(h, code)
  BY DEF HookInv
<1>1. ASSUME NEW h \in Hooks, Hook!CreateWebhook(h) PROVE HookInv'
  <2>1. hooks' = hooks \cup {h} /\ UNCHANGED <<deliveries, posts, test>>
    BY <1>1 DEF Hook!CreateWebhook
  <2>2. HookTypes' /\ OfLiveHooks'
    BY <1>0, <2>1 DEF HookTypes, OfLiveHooks
  <2>3. \A g \in Hooks, code \in Codes : Balance(g, code)'
    BY <1>0, <2>1 DEF Balance, Recorded, Unrecorded, Hook!Answers
  <2> QED
    BY <2>2, <2>3 DEF HookInv
<1>2. ASSUME NEW h \in Hooks, Hook!DeleteWebhook(h) PROVE HookInv'
  <2>1. /\ hooks' = hooks \ {h} /\ UNCHANGED <<posts, test>>
        /\ deliveries' = [o \in Hook!Outcomes |-> IF o[1] = h THEN 0 ELSE deliveries[o]]
    BY <1>2 DEF Hook!DeleteWebhook
  <2>2. \A o \in Hook!Outcomes : deliveries'[o] \in Nat /\ deliveries[o] \in Nat /\ deliveries'[o] <= deliveries[o]
    BY <1>0, <2>1 DEF HookTypes
  <2>3. HookTypes'
    BY <1>0, <2>1, <2>2 DEF HookTypes
  <2>4. OfLiveHooks'
    <3>1. \A o \in Hook!Outcomes : deliveries'[o] > 0 => o[1] # h /\ deliveries[o] > 0
      BY <1>0, <2>1 DEF HookTypes
    <3> QED
      BY <1>0, <2>1, <3>1 DEF OfLiveHooks, Hook!DeliveryStatus
  <2>5. ASSUME NEW g \in Hooks, NEW code \in Codes PROVE Balance(g, code)'
    <3>1. <<g, code, "delivered">> \in Hook!Outcomes /\ <<g, code, "failed">> \in Hook!Outcomes
      BY DEF Hook!Outcomes
    <3>2. Recorded(g, code)' <= Recorded(g, code)
      BY <2>2, <3>1 DEF Recorded
    <3>3. /\ Unrecorded(g, code)' = Unrecorded(g, code)
          /\ Hook!Answers(g, code)' = Hook!Answers(g, code)
      BY <2>1 DEF Unrecorded, Hook!Answers
    <3> QED
      BY <2>3, <3>2, <3>3, BalanceStays
  <2> QED
    BY <2>3, <2>4, <2>5 DEF HookInv
<1>3. ASSUME NEW c \in Testers, NEW h \in Hooks, Hook!TestRead(c, h) PROVE HookInv'
  <2>1. UNCHANGED <<hooks, deliveries, posts>>
    BY <1>3 DEF Hook!TestRead
  <2>2. /\ test[c] = Hook!NotTesting
        /\ test' = test \/ test' = [test EXCEPT ![c] = [at |-> "post", hook |-> h]]
    BY <1>3 DEF Hook!TestRead
  <2>3. HookTypes'
    BY <1>0, <2>1, <2>2 DEF HookTypes, Places
  <2>4. OfLiveHooks'
    BY <1>0, <2>1 DEF OfLiveHooks
  <2>5. ASSUME NEW g \in Hooks, NEW code \in Codes PROVE Balance(g, code)'
    <3> DEFINE done == [at |-> "record", hook |-> g, code |-> code]
    <3>1. done.at = "record" /\ Hook!NotTesting.at = "idle" /\ [at |-> "post", hook |-> h].at = "post"
      BY DEF Hook!NotTesting
    <3>2. Hook!NotTesting # done /\ [at |-> "post", hook |-> h] # done
      BY <3>1
    <3> HIDE DEF done
    <3>3. \A d \in Testers : test'[d] = done <=> test[d] = done
      BY <1>0, <2>2, <3>2 DEF HookTypes
    <3>4. Unrecorded(g, code)' = Unrecorded(g, code)
      BY <3>3 DEF Unrecorded, done
    <3>5. Recorded(g, code)' = Recorded(g, code) /\ Hook!Answers(g, code)' = Hook!Answers(g, code)
      BY <2>1 DEF Recorded, Hook!Answers
    <3>6. Recorded(g, code) \in Nat
      BY <1>0, BalanceTypes
    <3> QED
      BY <2>3, <3>4, <3>5, <3>6, BalanceStays
  <2> QED
    BY <2>3, <2>4, <2>5 DEF HookInv
<1>4. ASSUME NEW c \in Testers, Hook!Post(c) PROVE HookInv'
  <2>1. /\ test[c].at = "post" /\ UNCHANGED <<hooks, deliveries>>
    BY <1>4 DEF Hook!Post
  <2>2. PICK code \in Codes :
          /\ posts' = Append(posts, [hook |-> test[c].hook, code |-> code])
          /\ test' = [test EXCEPT ![c] = [at |-> "record", hook |-> test[c].hook, code |-> code]]
    BY <1>4 DEF Hook!Post
  <2> DEFINE h == test[c].hook
             made == [hook |-> h, code |-> code]
             done(g, k) == [at |-> "record", hook |-> g, code |-> k]
  <2>3. h \in Hooks
    BY <1>0, <2>1 DEF HookTypes, Places, Hook!NotTesting
  <2>4. \A g \in Hooks, k \in Codes : done(g, k) \in Places /\ test[c] # done(g, k)
    <3>1. \A g \in Hooks, k \in Codes : done(g, k).at = "record"
      OBVIOUS
    <3> QED
      BY <2>1, <3>1 DEF Places
  <2>5. \A g, k : /\ done(g, k) = done(h, code) <=> (g = h /\ k = code)
                  /\ [hook |-> g, code |-> k] = made <=> (g = h /\ k = code)
    <3>1. \A g, k : /\ done(g, k).hook = g /\ done(g, k).code = k
                    /\ [hook |-> g, code |-> k].hook = g /\ [hook |-> g, code |-> k].code = k
      OBVIOUS
    <3> QED
      BY <3>1
  <2>6. made \in Calls
    BY <2>3 DEF Calls
  <2> HIDE DEF h, done
  <2>7. test' = [test EXCEPT ![c] = done(h, code)]
    BY <2>2 DEF h, done
  <2>8. posts' = Append(posts, made)
    BY <2>2 DEF h
  <2> HIDE DEF made
  <2>9. HookTypes'
    <3>1. test' \in [Testers -> Places]
      BY <1>0, <2>3, <2>4, <2>7 DEF HookTypes
    <3> QED
      BY <1>0, <2>1, <2>6, <2>8, <3>1 DEF HookTypes
  <2>10. OfLiveHooks'
    BY <1>0, <2>1 DEF OfLiveHooks
  <2>11. ASSUME NEW g \in Hooks, NEW k \in Codes PROVE Balance(g, k)'
    <3>1. Recorded(g, k)' = Recorded(g, k)
      BY <2>1 DEF Recorded
    <3>2. /\ IsFiniteSet(Unrecorded(g, k)) /\ IsFiniteSet(Hook!Answers(g, k))
          /\ Recorded(g, k) \in Nat /\ Cardinality(Unrecorded(g, k)) \in Nat
          /\ Cardinality(Hook!Answers(g, k)) \in Nat
      BY <1>0, BalanceTypes
    <3>3. /\ Len(posts) \in Nat /\ DOMAIN posts = 1 .. Len(posts) /\ DOMAIN posts' = 1 .. Len(posts) + 1
          /\ posts'[Len(posts) + 1] = made /\ \A i \in 1 .. Len(posts) : posts'[i] = posts[i]
      BY <1>0, <2>6, <2>8 DEF HookTypes
    <3>4. CASE g = h /\ k = code
      <4>1. Unrecorded(g, k)' = Unrecorded(g, k) \cup {c}
        BY <1>0, <2>7, <3>4 DEF Unrecorded, HookTypes, done
      <4>2. c \notin Unrecorded(g, k)
        BY <2>4 DEF Unrecorded, done
      <4>3. Hook!Answers(g, k)' = Hook!Answers(g, k) \cup {Len(posts) + 1}
        BY <2>5, <3>3, <3>4 DEF Hook!Answers
      <4>4. Len(posts) + 1 \notin Hook!Answers(g, k)
        BY <3>3 DEF Hook!Answers
      <4>5. /\ Cardinality(Unrecorded(g, k)') = Cardinality(Unrecorded(g, k)) + 1
            /\ Cardinality(Hook!Answers(g, k)') = Cardinality(Hook!Answers(g, k)) + 1
        BY <3>2, <4>1, <4>2, <4>3, <4>4, FS_AddElement
      <4> QED
        BY <1>0, <3>1, <3>2, <4>5 DEF Balance
    <3>5. CASE ~(g = h /\ k = code)
      <4>1. Unrecorded(g, k)' = Unrecorded(g, k)
        <5>1. done(g, k) # done(h, code) /\ test[c] # done(g, k)
          BY <2>4, <2>5, <3>5
        <5>2. \A d \in Testers : test'[d] = done(g, k) <=> test[d] = done(g, k)
          BY <1>0, <2>7, <5>1 DEF HookTypes
        <5> QED
          BY <5>2 DEF Unrecorded, done
      <4>2. Hook!Answers(g, k)' = Hook!Answers(g, k)
        BY <2>5, <3>3, <3>5 DEF Hook!Answers
      <4> QED
        BY <2>9, <3>1, <3>2, <4>1, <4>2, BalanceStays
    <3> QED
      BY <3>4, <3>5
  <2> QED
    BY <2>9, <2>10, <2>11 DEF HookInv
<1>5. ASSUME NEW c \in Testers, Hook!Deliver(c) PROVE HookInv'
  <2> DEFINE h == test[c].hook
             code == test[c].code
             o == <<h, code, Hook!DeliveryStatus(code)>>
             done(g, k) == [at |-> "record", hook |-> g, code |-> k]
  <2>1. /\ test[c].at = "record" /\ UNCHANGED <<hooks, posts>>
        /\ test' = [test EXCEPT ![c] = Hook!NotTesting]
    BY <1>5 DEF Hook!Deliver
  <2>2. \/ deliveries' = deliveries
        \/ h \in hooks /\ deliveries' = [deliveries EXCEPT ![o] = deliveries[o] + 1]
    BY <1>5, Zenon DEF Hook!Deliver, Hook!RecordDelivery
  <2>3. h \in Hooks /\ code \in Codes /\ test[c] = done(h, code)
    BY <1>0, <2>1 DEF HookTypes, Places, Hook!NotTesting
  <2>4. \A g, k : /\ done(g, k) = done(h, code) <=> (g = h /\ k = code)
                  /\ done(g, k) # Hook!NotTesting
    <3>1. \A g, k : done(g, k).hook = g /\ done(g, k).code = k /\ done(g, k).at = "record"
      OBVIOUS
    <3>2. Hook!NotTesting.at = "idle"
      BY DEF Hook!NotTesting
    <3> QED
      BY <3>1, <3>2
  <2>5. o \in Hook!Outcomes /\ o[1] = h /\ o[2] = code /\ o[3] = Hook!DeliveryStatus(code)
    BY <2>3 DEF Hook!Outcomes, Hook!DeliveryStatus
  <2>6. \A g, k, s : <<g, k, s>> = o => g = h /\ k = code /\ s = Hook!DeliveryStatus(code)
    BY <2>5
  <2> HIDE DEF h, code, o, done
  <2>7. /\ \A p \in Hook!Outcomes : deliveries[p] \in Nat /\ deliveries'[p] \in Nat
        /\ \A p \in Hook!Outcomes : p # o => deliveries'[p] = deliveries[p]
        /\ deliveries' \in [Hook!Outcomes -> Nat] /\ deliveries'[o] <= deliveries[o] + 1
        /\ deliveries'[o] # deliveries[o] => h \in hooks
    BY <1>0, <2>2, <2>5 DEF HookTypes
  <2>8. HookTypes'
    BY <1>0, <2>1, <2>7 DEF HookTypes, Places
  <2>9. OfLiveHooks'
    <3>1. \A p \in Hook!Outcomes : \/ p[1] \in hooks /\ p[3] = Hook!DeliveryStatus(p[2])
                                   \/ deliveries'[p] = deliveries[p]
      BY <2>5, <2>7
    <3> QED
      BY <1>0, <2>1, <3>1 DEF OfLiveHooks, Hook!DeliveryStatus
  <2>10. ASSUME NEW g \in Hooks, NEW k \in Codes PROVE Balance(g, k)'
    <3> DEFINE good == <<g, k, "delivered">>
               bad == <<g, k, "failed">>
    <3>1. good \in Hook!Outcomes /\ bad \in Hook!Outcomes /\ good # bad
      BY DEF Hook!Outcomes
    <3>2. Hook!Answers(g, k)' = Hook!Answers(g, k)
      BY <2>1 DEF Hook!Answers
    <3>3. /\ IsFiniteSet(Unrecorded(g, k)) /\ IsFiniteSet(Hook!Answers(g, k))
          /\ Recorded(g, k) \in Nat /\ Cardinality(Unrecorded(g, k)) \in Nat
          /\ Cardinality(Hook!Answers(g, k)) \in Nat
      BY <1>0, BalanceTypes
    <3>4. /\ Recorded(g, k) = deliveries[good] + deliveries[bad]
          /\ Recorded(g, k)' = deliveries'[good] + deliveries'[bad]
      BY DEF Recorded
    <3>5. good = o \/ bad = o => g = h /\ k = code
      BY <2>6
    <3> HIDE DEF good, bad
    <3>6. CASE g = h /\ k = code
      <4>1. Unrecorded(g, k)' = Unrecorded(g, k) \ {c} /\ c \in Unrecorded(g, k)
        BY <1>0, <2>1, <2>3, <2>4, <3>6 DEF Unrecorded, HookTypes, done
      <4>2. Cardinality(Unrecorded(g, k)') = Cardinality(Unrecorded(g, k)) - 1
        BY <3>3, <4>1, FS_RemoveElement
      <4>3. Recorded(g, k)' <= Recorded(g, k) + 1 /\ Recorded(g, k)' \in Nat
        BY <2>7, <3>1, <3>4
      <4> QED
        BY <1>0, <3>2, <3>3, <4>2, <4>3 DEF Balance
    <3>7. CASE ~(g = h /\ k = code)
      <4>1. Recorded(g, k)' <= Recorded(g, k)
        BY <2>7, <3>1, <3>4, <3>5, <3>7
      <4>2. Unrecorded(g, k)' = Unrecorded(g, k)
        <5>1. \A d \in Testers : test'[d] = done(g, k) <=> test[d] = done(g, k)
          BY <1>0, <2>1, <2>3, <2>4, <3>7 DEF HookTypes
        <5> QED
          BY <5>1 DEF Unrecorded, done
      <4> QED
        BY <2>8, <3>2, <4>1, <4>2, BalanceStays
    <3> QED
      BY <3>6, <3>7
  <2> QED
    BY <2>8, <2>9, <2>10 DEF HookInv
<1>6. ASSUME UNCHANGED <<hooks, deliveries, posts, test>> PROVE HookInv'
  <2>1. HookTypes' /\ OfLiveHooks'
    BY <1>0, <1>6 DEF HookTypes, OfLiveHooks
  <2>2. \A g \in Hooks, k \in Codes : Balance(g, k)'
    BY <1>0, <1>6 DEF Balance, Recorded, Unrecorded, Hook!Answers
  <2> QED
    BY <2>1, <2>2 DEF HookInv
<1>7. Hook!UpdateWebhook \/ Hook!HookOutage \/ UNCHANGED hookVars
      => UNCHANGED <<hooks, deliveries, posts, test>>
  BY DEF Hook!UpdateWebhook, Hook!HookOutage, Hook!hookVars, hookVars
<1> QED
  BY <1>1, <1>2, <1>3, <1>4, <1>5, <1>6, <1>7 DEF Hook!Next

LEMMA HookSteps == [Next]_serviceVars /\ world = "webhooks" => [Hook!Next]_hookVars
BY DEF Next, serviceVars

(* A success is any answer below 400. *)
LEMMA StatusOfAnswers ==
  \A code \in Codes : Hook!DeliveryStatus(code) = "delivered" <=> code \in 1 .. 399
<1>1. \A code \in Codes : ~(code = 0 \/ code >= 400) <=> code \in 1 .. 399
  BY CodesAreNumbers
<1> QED
  BY <1>1, Zenon DEF Hook!DeliveryStatus

HookHolds == world = "webhooks" => HookInv

(* No delivery is recorded that a remote end did not answer, none of a       *)
(* webhook that is gone, and none as delivered that was refused, however the *)
(* tests, deletions and outages interleave.                                  *)
THEOREM OnlyWhatWasAnswered == Spec => []DeliveriesTrue
<1>1. Init => HookHolds
  BY HookInit DEF Init, HookHolds
<1>2. HookHolds /\ [Next]_serviceVars => HookHolds'
  BY WorldStays, HookSteps, HookStep DEF HookHolds
<1>3. HookHolds => DeliveriesTrue
  <2> SUFFICES ASSUME HookInv PROVE Hook!DeliveriesTrue
    BY DEF HookHolds, DeliveriesTrue
  <2>1. ASSUME NEW o \in Hook!Outcomes, deliveries[o] > 0
        PROVE  o[1] \in hooks /\ (o[3] = "delivered" <=> o[2] \in 1..399)
    <3>1. o[1] \in hooks /\ o[3] = Hook!DeliveryStatus(o[2])
      BY <2>1 DEF HookInv, OfLiveHooks
    <3>2. o[2] \in Codes
      BY DEF Hook!Outcomes
    <3> QED
      BY <3>1, <3>2, StatusOfAnswers, Zenon
  <2>2. ASSUME NEW h \in Hooks, NEW code \in Codes
        PROVE  deliveries[<<h, code, "delivered">>] + deliveries[<<h, code, "failed">>]
                 <= Hook!Cardinality(Hook!Answers(h, code))
    <3>1. \A S : Hook!Cardinality(S) = Cardinality(S)
      BY DEF Hook!Cardinality, Cardinality
    <3>2. HookTypes /\ Balance(h, code)
      BY DEF HookInv
    <3>3. /\ Recorded(h, code) \in Nat /\ Cardinality(Unrecorded(h, code)) \in Nat
          /\ Cardinality(Hook!Answers(h, code)) \in Nat
      BY <3>2, BalanceTypes
    <3>4. Recorded(h, code) <= Cardinality(Hook!Answers(h, code))
      BY <3>2, <3>3 DEF Balance
    <3> QED
      BY <3>1, <3>4, Zenon DEF Recorded
  <2> QED
    BY <2>1, <2>2, Zenon DEF Hook!DeliveriesTrue
<1> QED
  BY <1>1, <1>2, <1>3, PTL DEF Spec

-----------------------------------------------------------------------------
(* Findings. *)
Judgment(x, c) == Find!checkTLSVersion(x) \cup Find!checkCipherSuite(x) \cup Find!checkCertificate(c)

(* What is reported of a TLS server is the judgment of the session that was  *)
(* seen last, unless a scan by SSH has seen another since.                   *)
FindInv ==
  reported.protocol = "tls" /\ ~reported.failed /\ probe = "none" =>
    \E x \in Find!Sessions, c \in Presented :
      reported.findings = Judgment(x, c) /\ seen.session = x

LEMMA FindInit == Find!Init => FindInv
<1> SUFFICES ASSUME Find!Init PROVE reported.protocol # "tls"
  BY DEF FindInv
<1> QED
  BY DEF Find!Init

LEMMA FindStep == FindInv /\ [Find!Next]_probeVars => FindInv'
<1> SUFFICES ASSUME FindInv, [Find!Next]_probeVars PROVE FindInv'
  OBVIOUS
<1>1. ASSUME NEW x \in Find!Sessions, NEW c \in Presented, Find!ScanTLS(x, c) PROVE FindInv'
  <2>1. reported'.findings = Judgment(x, c) /\ seen'.session = x
    BY <1>1 DEF Find!ScanTLS, Find!Report, Judgment
  <2> QED
    BY <2>1 DEF FindInv
<1>2. CASE Find!TLSFails
  BY <1>2 DEF Find!TLSFails, Find!Fail, FindInv
<1>3. ASSUME NEW headers \in SUBSET Find!Headers, NEW isMD5 \in BOOLEAN, Find!ScanHTTP(headers, isMD5)
      PROVE  FindInv'
  BY <1>3 DEF Find!ScanHTTP, Find!Report, FindInv
<1>4. CASE Find!HTTPFails
  BY <1>4 DEF Find!HTTPFails, Find!Fail, FindInv
<1>5. CASE Find!ScanSSH
  <2>1. reported'.protocol = "ssh" \/ probe' = "ssh drain" \/ probe' = "ssh banner"
    <3>1. PICK h \in Find!Handshakes(Find!ScanKex) :
            CASE h[1] = "refused" -> Find!Fail("ssh") /\ UNCHANGED <<probe, keyRead>>
              [] h[1] = "login" -> Find!Report("ssh", Find!checkHostKey(h[2])) /\ UNCHANGED <<probe, keyRead>>
              [] h[1] = "in" -> probe' = "ssh drain" /\ keyRead' = h[2] /\ UNCHANGED reported
              [] OTHER -> probe' = "ssh banner" /\ keyRead' = h[2] /\ UNCHANGED reported
      BY <1>5, Zenon DEF Find!ScanSSH
    <3>2. h[1] = "refused" => reported'.protocol = "ssh"
      BY <3>1 DEF Find!Fail
    <3>3. h[1] = "login" => reported'.protocol = "ssh"
      BY <3>1 DEF Find!Report
    <3>4. h[1] = "in" => probe' = "ssh drain"
      BY <3>1
    <3>5. ~(h[1] = "refused" \/ h[1] = "login" \/ h[1] = "in") => probe' = "ssh banner"
      BY <3>1
    <3> QED
      BY <3>2, <3>3, <3>4, <3>5
  <2> QED
    BY <2>1 DEF FindInv
<1>6. CASE Find!Drained
  BY <1>6 DEF Find!Drained, Find!Report, FindInv
<1>7. CASE Find!scanBanner
  <2>1. reported'.protocol = "ssh"
    <3>1. Find!Fail("ssh") \/ \E findings : Find!Report("ssh", findings)
      BY <1>7, Zenon DEF Find!scanBanner
    <3> QED
      BY <3>1 DEF Find!Report, Find!Fail
  <2> QED
    BY <2>1 DEF FindInv
<1>8. CASE Find!Reconfigured
  BY <1>8 DEF Find!Reconfigured, FindInv, Judgment
<1>9. CASE UNCHANGED probeVars
  BY <1>9 DEF probeVars, FindInv
<1> QED
  BY <1>1, <1>2, <1>3, <1>4, <1>5, <1>6, <1>7, <1>8, <1>9 DEF Find!Next

LEMMA FindSteps == [Next]_serviceVars /\ world = "findings" => [Find!Next]_probeVars
BY DEF Next, serviceVars

-----------------------------------------------------------------------------
(* The lists of suites say of those on offer what the suites are. *)
LEMMA SuiteFields ==
  \A k, a, c, m : /\ Find!Suite(k, a, c, m).kx = k /\ Find!Suite(k, a, c, m).auth = a
                  /\ Find!Suite(k, a, c, m).cipher = c /\ Find!Suite(k, a, c, m).mac = m
BY DEF Find!Suite

LEMMA OfferedSuites ==
  ASSUME NEW s \in Find!Offered
  PROVE  \/ \E c \in {"RC4", "3DES", "AES128CBC", "AES256CBC"} : s = Find!Suite("RSA", "RSA", c, "SHA")
         \/ \E c \in {"AES128CBC", "AES256CBC"} : s = Find!Suite("ECDHE", "RSA", c, "SHA")
         \/ \E c \in {"AES128GCM", "AES256GCM"} : s = Find!Suite("ECDHE", "RSA", c, "AEAD")
         \/ \E c \in {"AES128GCM", "AES256GCM", "CHACHA20"} : s = Find!Suite("1.3", "1.3", c, "AEAD")
BY Zenon DEF Find!Offered, Find!Suites13

LEMMA SuiteLists ==
  ASSUME NEW s \in Find!Offered
  PROVE  /\ Find!HasForwardSecrecy(s) <=> s.kx # "RSA"
         /\ Find!isRC4Cipher(s) <=> s.cipher = "RC4"
         /\ Find!is3DESCipher(s) <=> s.cipher = "3DES"
         /\ s \in Find!Suites13 => s.kx # "RSA"
<1>1. /\ s \in Find!Suites13 => s.kx = "1.3"
      /\ Find!HasForwardSecrecy(s) => s.kx \in {"1.3", "ECDHE"}
      /\ Find!isRC4Cipher(s) => s.cipher = "RC4"
      /\ Find!is3DESCipher(s) => s.cipher = "3DES"
  BY SuiteFields DEF Find!Suites13, Find!HasForwardSecrecy, Find!isRC4Cipher, Find!is3DESCipher
<1>2. ASSUME NEW c \in {"RC4", "3DES", "AES128CBC", "AES256CBC"}, s = Find!Suite("RSA", "RSA", c, "SHA")
      PROVE  /\ s.kx = "RSA" /\ (s.cipher = "RC4" => Find!isRC4Cipher(s))
             /\ (s.cipher = "3DES" => Find!is3DESCipher(s))
  BY <1>2, SuiteFields DEF Find!isRC4Cipher, Find!is3DESCipher
<1>3. ASSUME NEW c \in {"AES128CBC", "AES256CBC"}, s = Find!Suite("ECDHE", "RSA", c, "SHA")
      PROVE  Find!HasForwardSecrecy(s) /\ s.cipher \notin {"RC4", "3DES"} /\ s.kx # "RSA"
  <2>1. Find!HasForwardSecrecy(s)
    <3>1. "RSA" \in {"RSA", "ECDSA"}
      OBVIOUS
    <3> QED
      BY <1>3, <3>1 DEF Find!HasForwardSecrecy
  <2> QED
    BY <1>3, <2>1, SuiteFields
<1>4. ASSUME NEW c \in {"AES128GCM", "AES256GCM"}, s = Find!Suite("ECDHE", "RSA", c, "AEAD")
      PROVE  Find!HasForwardSecrecy(s) /\ s.cipher \notin {"RC4", "3DES"} /\ s.kx # "RSA"
  <2>1. Find!HasForwardSecrecy(s)
    <3>1. "RSA" \in {"RSA", "ECDSA"} /\ c \in {"AES128GCM", "AES256GCM", "CHACHA20"}
      OBVIOUS
    <3> QED
      BY <1>4, <3>1 DEF Find!HasForwardSecrecy
  <2> QED
    BY <1>4, <2>1, SuiteFields
<1>5. ASSUME NEW c \in {"AES128GCM", "AES256GCM", "CHACHA20"}, s = Find!Suite("1.3", "1.3", c, "AEAD")
      PROVE  Find!HasForwardSecrecy(s) /\ s.cipher \notin {"RC4", "3DES"} /\ s.kx # "RSA"
  <2>1. Find!HasForwardSecrecy(s)
    <3>1. s \in Find!Suites13
      BY <1>5, Zenon DEF Find!Suites13
    <3> QED
      BY <3>1 DEF Find!HasForwardSecrecy
  <2> QED
    BY <1>5, <2>1, SuiteFields
<1> QED
  BY <1>1, <1>2, <1>3, <1>4, <1>5, OfferedSuites

(* The types of the findings of a session and its certificate. *)
LEMMA JudgedTypes ==
  ASSUME NEW x \in Find!Sessions, NEW c \in Presented
  PROVE  LET types == {f.type : f \in Judgment(x, c)}
         IN  /\ "WEAK_TLS_VERSION" \in types <=> x.version \in {10, 11}
             /\ "NO_FORWARD_SECRECY" \in types <=> x.version = 12 /\ x.suite.kx = "RSA"
             /\ "WEAK_CIPHER_RC4" \in types <=> x.suite.cipher = "RC4"
             /\ "WEAK_CIPHER_3DES" \in types <=> x.suite.cipher = "3DES"
<1> DEFINE types == {f.type : f \in Judgment(x, c)}
           Of(t) == t \in {f.type : f \in Find!checkTLSVersion(x)}
                      \cup {f.type : f \in Find!checkCipherSuite(x)}
                      \cup {f.type : f \in Find!checkCertificate(c)}
<1>1. x.version \in {10, 11, 12, 13} /\ x.suite \in Find!Offered
  BY DEF Find!Sessions
<1>2. \A t, s : Find!Finding(t, s).type = t
  BY DEF Find!Finding
<1>3. \A f \in Find!checkCertificate(c) :
        f.type \in {"WEAK_KEY_RSA", "RSA_2048_SUBOPTIMAL", "WEAK_KEY_EC", "WEAK_SIG_MD5", "WEAK_SIG_SHA1",
                    "CERT_EXPIRED"}
  BY <1>2 DEF Find!checkCertificate
<1>4. \A f \in Find!checkCipherSuite(x) :
        \/ f.type = "WEAK_CIPHER_RC4" /\ Find!isRC4Cipher(x.suite)
        \/ f.type = "WEAK_CIPHER_3DES" /\ Find!is3DESCipher(x.suite)
  BY <1>2 DEF Find!checkCipherSuite
<1>5. /\ Find!isRC4Cipher(x.suite) => Find!Finding("WEAK_CIPHER_RC4", "CRITICAL") \in Find!checkCipherSuite(x)
      /\ Find!is3DESCipher(x.suite) => Find!Finding("WEAK_CIPHER_3DES", "CRITICAL") \in Find!checkCipherSuite(x)
  BY Zenon DEF Find!checkCipherSuite
<1>6. Find!HasForwardSecrecy(x.suite) <=> x.suite.kx # "RSA"
  BY <1>1, SuiteLists
<1>7. /\ x.version \in {10, 11}
           => Find!checkTLSVersion(x) = {Find!Finding("WEAK_TLS_VERSION", "CRITICAL")}
      /\ x.version = 12 /\ x.suite.kx = "RSA"
           => Find!checkTLSVersion(x) = {Find!Finding("NO_FORWARD_SECRECY", "HIGH")}
      /\ (x.version = 12 /\ x.suite.kx # "RSA") \/ x.version = 13 => Find!checkTLSVersion(x) = {}
  BY <1>1, <1>6 DEF Find!checkTLSVersion
<1>8. \A f \in Find!checkTLSVersion(x) :
        \/ f.type = "WEAK_TLS_VERSION" /\ x.version \in {10, 11}
        \/ f.type = "NO_FORWARD_SECRECY" /\ x.version = 12 /\ x.suite.kx = "RSA"
  BY <1>1, <1>2, <1>7
<1>9. "WEAK_TLS_VERSION" \in types <=> x.version \in {10, 11}
  BY <1>2, <1>3, <1>4, <1>7, <1>8 DEF Judgment
<1>10. "NO_FORWARD_SECRECY" \in types <=> x.version = 12 /\ x.suite.kx = "RSA"
  BY <1>2, <1>3, <1>4, <1>7, <1>8 DEF Judgment
<1>11. "WEAK_CIPHER_RC4" \in types <=> Find!isRC4Cipher(x.suite)
  BY <1>2, <1>3, <1>4, <1>5, <1>8 DEF Judgment
<1>12. "WEAK_CIPHER_3DES" \in types <=> Find!is3DESCipher(x.suite)
  BY <1>2, <1>3, <1>4, <1>5, <1>8 DEF Judgment
<1> QED
  BY <1>1, <1>9, <1>10, <1>11, <1>12, SuiteLists

FindHolds == world = "findings" => FindInv

(* A missing forward secrecy, RC4 and 3DES are reported of a TLS server      *)
(* exactly when the session seen last has them.                              *)
THEOREM JudgedAsSeen == Spec => []SessionsJudged
<1>1. Init => FindHolds
  BY FindInit DEF Init, FindHolds
<1>2. FindHolds /\ [Next]_serviceVars => FindHolds'
  BY WorldStays, FindSteps, FindStep DEF FindHolds
<1>3. FindHolds => SessionsJudged
  <2> SUFFICES ASSUME FindInv, reported.protocol = "tls" /\ ~reported.failed /\ probe = "none"
               PROVE  LET x == seen.session
                      IN  /\ ("NO_FORWARD_SECRECY" \in Find!Types \/ "WEAK_TLS_VERSION" \in Find!Types)
                               <=> (x.suite.kx = "RSA" \/ x.version < 12)
                          /\ "WEAK_CIPHER_RC4" \in Find!Types <=> x.suite.cipher = "RC4"
                          /\ "WEAK_CIPHER_3DES" \in Find!Types <=> x.suite.cipher = "3DES"
    BY DEF FindHolds, SessionsJudged, Find!SessionsJudged
  <2>1. PICK x \in Find!Sessions, c \in Presented :
          reported.findings = Judgment(x, c) /\ seen.session = x
    BY DEF FindInv
  <2>2. Find!Types = {f.type : f \in Judgment(x, c)}
    BY <2>1 DEF Find!Types
  <2>3. /\ "WEAK_TLS_VERSION" \in Find!Types <=> x.version \in {10, 11}
        /\ "NO_FORWARD_SECRECY" \in Find!Types <=> x.version = 12 /\ x.suite.kx = "RSA"
        /\ "WEAK_CIPHER_RC4" \in Find!Types <=> x.suite.cipher = "RC4"
        /\ "WEAK_CIPHER_3DES" \in Find!Types <=> x.suite.cipher = "3DES"
    BY <2>2, JudgedTypes, Zenon
  <2>4. x.version \in {10, 11, 12, 13} /\ (x.version = 13 => x.suite.kx # "RSA")
    BY SuiteLists DEF Find!Sessions
  <2> QED
    BY <2>1, <2>3, <2>4
<1> QED
  BY <1>1, <1>2, <1>3, PTL DEF Spec

-----------------------------------------------------------------------------
(* Folds of sequences: loops that go through a list from its first entry on. *)
(* Induction up to a bound: a set that has 0 and with k - 1 also k.          *)
LEMMA Climb ==
  ASSUME NEW n \in Nat, NEW P, 0 \in P, \A k \in 1 .. n : k - 1 \in P => k \in P
  PROVE  \A k \in 0 .. n : k \in P
<1> DEFINE C == {k \in 0 .. n : k \notin P}
<1> SUFFICES ASSUME C # {} PROVE FALSE
  OBVIOUS
<1>1. C \subseteq Nat
  OBVIOUS
<1>2. PICK m \in C : \A k \in C : <<k, m>> \notin OpToRel(<, Nat)
  <2> HIDE DEF C
  <2> QED
    BY <1>1, NatLessThanWellFounded, WFMin, Zenon
<1>3. m \in Nat /\ m <= n /\ m \notin P
  OBVIOUS
<1>4. m # 0
  BY <1>3
<1>5. m - 1 \notin C
  <2>1. m - 1 \in Nat /\ m - 1 < m
    BY <1>3, <1>4
  <2>2. <<m - 1, m>> \in OpToRel(<, Nat)
    BY <1>3, <2>1 DEF OpToRel
  <2> QED
    BY <1>2, <2>2, Zenon
<1> QED
  BY <1>3, <1>4, <1>5

Greatest(s) == CHOOSE x \in s : \A y \in s : x >= y

LEMMA GreatestIsThere ==
  ASSUME NEW n \in Nat, NEW s \in SUBSET (1 .. n), s # {}
  PROVE  Greatest(s) \in s /\ \A y \in s : Greatest(s) >= y
<1> DEFINE P == {k \in 0 .. n : \A t \in SUBSET (1 .. k) : t # {} => \E x \in t : \A y \in t : x >= y}
<1>1. 0 \in P
  <2>1. 1 .. 0 = {} /\ 0 \in 0 .. n
    OBVIOUS
  <2> QED
    BY <2>1, Zenon
<1>2. ASSUME NEW k \in 1 .. n, k - 1 \in P PROVE k \in P
  <2> SUFFICES ASSUME NEW t \in SUBSET (1 .. k), t # {} PROVE \E x \in t : \A y \in t : x >= y
    <3>1. k \in 0 .. n
      OBVIOUS
    <3> QED
      BY <3>1, Zenon
  <2>1. CASE k \in t
    BY <2>1
  <2>2. CASE k \notin t
    <3>1. t \in SUBSET (1 .. (k - 1))
      BY <2>2
    <3> QED
      BY <1>2, <3>1
  <2> QED
    BY <2>1, <2>2
<1> HIDE DEF P
<1>3. n \in P
  BY <1>1, <1>2, Climb
<1>4. \E x \in s : \A y \in s : x >= y
  BY <1>3 DEF P
<1> QED
  BY <1>4, Zenon DEF Greatest

LEMMA GreatestOfPrefix ==
  ASSUME NEW n \in Nat, NEW k \in 1 .. n
  PROVE  /\ 1 .. k \in SUBSET (1 .. n) /\ 1 .. k # {} /\ Greatest(1 .. k) = k
         /\ (1 .. k) \ {Greatest(1 .. k)} = 1 .. (k - 1)
<1>1. 1 .. k \in SUBSET (1 .. n) /\ k \in 1 .. k
  OBVIOUS
<1>2. Greatest(1 .. k) \in 1 .. k /\ \A y \in 1 .. k : Greatest(1 .. k) >= y
  BY <1>1, GreatestIsThere
<1>3. Greatest(1 .. k) = k
  BY <1>1, <1>2
<1> QED
  BY <1>1, <1>3

(* What a fold from the left computes for the sets of indices of a sequence  *)
(* of length n: of each one its greatest index is the last.                  *)
StepsBy(F, base, n, h) ==
  \A s \in SUBSET (1 .. n) :
     h[s] = IF s = {} THEN base ELSE F[<<h[s \ {Greatest(s)}], Greatest(s)>>]

LEMMA FoldExists ==
  ASSUME NEW n \in Nat, NEW X, NEW base \in X, NEW F \in [X \X (1 .. n) -> X]
  PROVE  \E h \in [SUBSET (1 .. n) -> X] : StepsBy(F, base, n, h)
<1> DEFINE P == {k \in 0 .. n : \E h \in [SUBSET (1 .. k) -> X] : StepsBy(F, base, k, h)}
<1>1. 0 \in P
  <2> DEFINE h == [s \in SUBSET (1 .. 0) |-> base]
  <2>1. h \in [SUBSET (1 .. 0) -> X]
    OBVIOUS
  <2>2. StepsBy(F, base, 0, h)
    BY DEF StepsBy
  <2> QED
    BY <2>1, <2>2
<1>2. ASSUME NEW k \in 1 .. n, k - 1 \in P PROVE k \in P
  <2>1. PICK f \in [SUBSET (1 .. (k - 1)) -> X] : StepsBy(F, base, k - 1, f)
    BY <1>2
  <2> DEFINE h == [s \in SUBSET (1 .. k) |-> IF k \in s THEN F[<<f[s \ {k}], k>>] ELSE f[s]]
  <2>2. ASSUME NEW s \in SUBSET (1 .. k)
        PROVE  /\ s \ {k} \in SUBSET (1 .. (k - 1))
               /\ k \in s => s # {} /\ Greatest(s) = k
               /\ k \notin s => s \in SUBSET (1 .. (k - 1))
    <3>1. s \ {k} \in SUBSET (1 .. (k - 1))
      OBVIOUS
    <3>2. ASSUME k \in s PROVE Greatest(s) = k
      <4>1. k \in Nat /\ s # {}
        BY <3>2
      <4>2. Greatest(s) \in s /\ \A y \in s : Greatest(s) >= y
        BY <4>1, GreatestIsThere
      <4>3. Greatest(s) >= k /\ Greatest(s) \in 1 .. k
        BY <3>2, <4>2
      <4> QED
        BY <4>3
    <3> QED
      BY <3>1, <3>2
  <2>3. h \in [SUBSET (1 .. k) -> X]
    <3> SUFFICES ASSUME NEW s \in SUBSET (1 .. k) PROVE h[s] \in X
      OBVIOUS
    <3>1. CASE k \in s
      <4>1. f[s \ {k}] \in X
        BY <2>2
      <4> QED
        BY <3>1, <4>1
    <3>2. CASE k \notin s
      BY <2>2, <3>2
    <3> QED
      BY <3>1, <3>2
  <2>4. StepsBy(F, base, k, h)
    <3> SUFFICES ASSUME NEW s \in SUBSET (1 .. k)
                 PROVE  h[s] = IF s = {} THEN base ELSE F[<<h[s \ {Greatest(s)}], Greatest(s)>>]
      BY DEF StepsBy
    <3>1. CASE k \in s
      <4>1. s # {} /\ Greatest(s) = k /\ s \ {k} \in SUBSET (1 .. k)
        BY <2>2, <3>1
      <4>2. h[s \ {k}] = f[s \ {k}]
        BY <4>1
      <4> QED
        BY <3>1, <4>1, <4>2
    <3>2. CASE k \notin s
      <4>1. s \in SUBSET (1 .. (k - 1))
        BY <2>2, <3>2
      <4>2. f[s] = IF s = {} THEN base ELSE F[<<f[s \ {Greatest(s)}], Greatest(s)>>]
        BY <2>1, <4>1 DEF StepsBy
      <4>3. h[s] = f[s] /\ h[s \ {Greatest(s)}] = f[s \ {Greatest(s)}]
        BY <3>2
      <4> QED
        BY <4>2, <4>3
    <3> QED
      BY <3>1, <3>2
  <2>5. \E g \in [SUBSET (1 .. k) -> X] : StepsBy(F, base, k, g)
    <3> HIDE DEF h
    <3> QED
      BY <2>3, <2>4, Zenon
  <2>6. k \in 0 .. n
    OBVIOUS
  <2> QED
    BY <2>5, <2>6, Zenon
<1> HIDE DEF P
<1>3. n \in P
  BY <1>1, <1>2, Climb
<1> QED
  BY <1>3 DEF P

-----------------------------------------------------------------------------
(* The bill of materials. *)
(* The numbers of a set, taken one after the other.                          *)
InOrderBy(I, n, g) ==
  g = [s \in SUBSET DOMAIN [i \in 1 .. n |-> i] |->
         IF s = {} THEN <<>>
         ELSE IF [i \in 1 .. n |-> i][Greatest(s)] \in I
              THEN Append(g[s \ {Greatest(s)}], [i \in 1 .. n |-> i][Greatest(s)])
              ELSE g[s \ {Greatest(s)}]]
InOrderOf(I, n) == (CHOOSE g : InOrderBy(I, n, g))[DOMAIN [i \in 1 .. n |-> i]]

LEMMA SbomInOrder == \A I, n : Sbom!InOrder(I, n) = InOrderOf(I, n)
BY DEF Sbom!InOrder, Sbom!FoldLeft, Sbom!MapThenFoldSet, Sbom!Max, InOrderOf, InOrderBy, Greatest

LEMMA InOrderSteps ==
  ASSUME NEW n \in Nat, NEW I
  PROVE  \E v : /\ v[0] = <<>> /\ InOrderOf(I, n) = v[n]
                /\ \A k \in 1 .. n : v[k] = IF k \in I THEN Append(v[k - 1], k) ELSE v[k - 1]
<1> DEFINE X == Seq(1 .. n)
           F == [p \in X \X (1 .. n) |-> IF p[2] \in I THEN Append(p[1], p[2]) ELSE p[1]]
           it == CHOOSE g : InOrderBy(I, n, g)
           v == [k \in 0 .. n |-> it[1 .. k]]
<1>1. PICK h \in [SUBSET (1 .. n) -> X] : StepsBy(F, <<>>, n, h)
  <2>1. F \in [X \X (1 .. n) -> X]
    <3>1. \A x \in X, k \in 1 .. n : Append(x, k) \in X
      OBVIOUS
    <3> HIDE DEF X
    <3> QED
      BY <3>1
  <2>2. <<>> \in X
    OBVIOUS
  <2> HIDE DEF F, X
  <2> QED
    BY <2>1, <2>2, FoldExists
<1>2. \A s \in SUBSET (1 .. n) : s # {} =>
         Greatest(s) \in 1 .. n /\ s \ {Greatest(s)} \in SUBSET (1 .. n)
  BY GreatestIsThere
<1>3. \A s \in SUBSET (1 .. n) :
         h[s] = IF s = {} THEN <<>>
                ELSE IF [i \in 1 .. n |-> i][Greatest(s)] \in I
                     THEN Append(h[s \ {Greatest(s)}], [i \in 1 .. n |-> i][Greatest(s)])
                     ELSE h[s \ {Greatest(s)}]
  <2> SUFFICES ASSUME NEW s \in SUBSET (1 .. n), s # {}
               PROVE  h[s] = IF Greatest(s) \in I THEN Append(h[s \ {Greatest(s)}], Greatest(s))
                             ELSE h[s \ {Greatest(s)}]
    BY <1>1, <1>2 DEF StepsBy
  <2>1. h[s] = F[<<h[s \ {Greatest(s)}], Greatest(s)>>]
    BY <1>1 DEF StepsBy
  <2>2. <<h[s \ {Greatest(s)}], Greatest(s)>> \in X \X (1 .. n)
    <3> HIDE DEF X
    <3> QED
      BY <1>1, <1>2
  <2> QED
    BY <2>1, <2>2
<1>4. InOrderBy(I, n, h)
  <2>1. DOMAIN [i \in 1 .. n |-> i] = 1 .. n
    OBVIOUS
  <2> HIDE DEF X, F
  <2> QED
    BY <1>1, <1>3, <2>1 DEF InOrderBy
<1>5. InOrderBy(I, n, it)
  <2> HIDE DEF X, F
  <2> QED
    BY <1>4
<1>6. \A s \in SUBSET (1 .. n) :
         it[s] = IF s = {} THEN <<>>
                ELSE IF [i \in 1 .. n |-> i][Greatest(s)] \in I
                     THEN Append(it[s \ {Greatest(s)}], [i \in 1 .. n |-> i][Greatest(s)])
                     ELSE it[s \ {Greatest(s)}]
  <2>1. DOMAIN [i \in 1 .. n |-> i] = 1 .. n
    OBVIOUS
  <2> HIDE DEF X, F, it
  <2> QED
    BY <1>5, <2>1 DEF InOrderBy
<1> HIDE DEF X, F, it
<1>7. v[0] = <<>>
  <2>1. 1 .. 0 = {} /\ v[0] = it[1 .. 0]
    OBVIOUS
  <2> QED
    BY <1>6, <2>1
<1>8. InOrderOf(I, n) = v[n]
  BY DEF InOrderOf, it
<1>9. ASSUME NEW k \in 1 .. n PROVE v[k] = IF k \in I THEN Append(v[k - 1], k) ELSE v[k - 1]
  <2>1. /\ 1 .. k \in SUBSET (1 .. n) /\ 1 .. k # {} /\ Greatest(1 .. k) = k
        /\ (1 .. k) \ {Greatest(1 .. k)} = 1 .. (k - 1)
    BY GreatestOfPrefix
  <2>2. v[k] = it[1 .. k] /\ v[k - 1] = it[1 .. (k - 1)]
    OBVIOUS
  <2> HIDE DEF v
  <2> QED
    BY <1>6, <2>1, <2>2
<1> HIDE DEF v
<1> QED
  BY <1>7, <1>8, <1>9

LEMMA InOrderIsWhole ==
  ASSUME NEW n \in Nat, NEW I \in SUBSET (1 .. n)
  PROVE  /\ InOrderOf(I, n) \in Seq(1 .. n)
         /\ Len(InOrderOf(I, n)) = Cardinality(I)
         /\ {InOrderOf(I, n)[p] : p \in DOMAIN InOrderOf(I, n)} = I
<1>1. PICK v : /\ v[0] = <<>> /\ InOrderOf(I, n) = v[n]
               /\ \A k \in 1 .. n : v[k] = IF k \in I THEN Append(v[k - 1], k) ELSE v[k - 1]
  BY InOrderSteps
<1> DEFINE upTo(k) == I \cap (1 .. k)
           Good(k, s) == /\ s \in Seq(1 .. n) /\ Len(s) = Cardinality(upTo(k))
                         /\ {s[p] : p \in DOMAIN s} = upTo(k)
           P == {k \in 0 .. n : Good(k, v[k])}
<1>2. 0 \in P
  <2>1. upTo(0) = {} /\ Cardinality({}) = 0
    BY FS_EmptySet
  <2>2. Good(0, <<>>)
    BY <2>1
  <2>3. 0 \in 0 .. n
    OBVIOUS
  <2> HIDE DEF Good
  <2> QED
    BY <1>1, <2>2, <2>3
<1>3. ASSUME NEW k \in 1 .. n, k - 1 \in P PROVE k \in P
  <2>1. Good(k - 1, v[k - 1])
    BY <1>3
  <2> DEFINE s == v[k - 1]
  <2>2. CASE k \in I
    <3>1. v[k] = Append(s, k) /\ s \in Seq(1 .. n) /\ k \in 1 .. n
      BY <1>1, <2>1, <2>2
    <3>2. upTo(k) = upTo(k - 1) \cup {k} /\ k \notin upTo(k - 1)
      BY <2>2
    <3>3. IsFiniteSet(upTo(k - 1))
      <4>1. IsFiniteSet(1 .. (k - 1))
        BY FS_Interval
      <4> QED
        BY <4>1, FS_Subset
    <3>4. Cardinality(upTo(k)) = Cardinality(upTo(k - 1)) + 1
      <4> HIDE DEF upTo
      <4> QED
        BY <3>2, <3>3, FS_AddElement
    <3>5. Len(Append(s, k)) = Len(s) + 1 /\ Append(s, k) \in Seq(1 .. n)
      <4> HIDE DEF s
      <4> QED
        BY <3>1
    <3>6. {Append(s, k)[p] : p \in DOMAIN Append(s, k)} = {s[p] : p \in DOMAIN s} \cup {k}
      <4> HIDE DEF s
      <4>1. DOMAIN s = 1 .. Len(s) /\ DOMAIN Append(s, k) = 1 .. (Len(s) + 1) /\ Len(s) \in Nat
        BY <3>1, <3>5
      <4>2. /\ \A p \in 1 .. Len(s) : Append(s, k)[p] = s[p]
            /\ Append(s, k)[Len(s) + 1] = k
        BY <3>1
      <4> QED
        BY <4>1, <4>2
    <3>7. Good(k, Append(s, k))
      BY <2>1, <3>2, <3>4, <3>5, <3>6
    <3>8. v[k] = Append(s, k) /\ k \in 0 .. n
      BY <3>1
    <3> HIDE DEF Good, s
    <3>9. Good(k, v[k])
      BY <3>7, <3>8, Zenon
    <3> QED
      BY <3>8, <3>9, Zenon
  <2>3. CASE k \notin I
    <3>1. v[k] = s
      BY <1>1, <2>3
    <3>2. upTo(k) = upTo(k - 1)
      BY <2>3
    <3>3. Good(k, s)
      <4> HIDE DEF upTo
      <4> QED
        BY <2>1, <3>2
    <3> HIDE DEF Good, s
    <3> QED
      BY <3>1, <3>3
  <2> QED
    BY <2>2, <2>3
<1>4. n \in P
  <2> HIDE DEF P
  <2> QED
    BY <1>2, <1>3, Climb
<1>5. upTo(n) = I
  OBVIOUS
<1>6. Good(n, InOrderOf(I, n))
  BY <1>1, <1>4
<1> HIDE DEF upTo
<1> QED
  BY <1>5, <1>6

(* A component after the other, but none of a key that is there.             *)
KeysIn(s) == {Sbom!Key(s[i]) : i \in DOMAIN s}
NoneTwice(s) == \A i, j \in DOMAIN s : Sbom!Key(s[i]) = Sbom!Key(s[j]) => i = j
Joined(found, c) == IF Sbom!Key(c) \in KeysIn(found) THEN found ELSE Append(found, c)
DistinctBy(known, cs, g) ==
  g = [s \in SUBSET DOMAIN cs |->
         IF s = {} THEN known ELSE Joined(g[s \ {Greatest(s)}], cs[Greatest(s)])]
DistinctOf(known, cs) == (CHOOSE g : DistinctBy(known, cs, g))[DOMAIN cs]

LEMMA SbomDistinct == \A known, cs : Sbom!Distinct(known, cs) = DistinctOf(known, cs)
<1>1. \A found, c : (\E i \in DOMAIN found : Sbom!Key(found[i]) = Sbom!Key(c)) <=> Sbom!Key(c) \in KeysIn(found)
  BY Zenon DEF KeysIn
<1>2. \A found, c : Joined(found, c) =
        IF \E i \in DOMAIN found : Sbom!Key(found[i]) = Sbom!Key(c) THEN found ELSE Append(found, c)
  BY <1>1, Zenon DEF Joined
<1> QED
  BY <1>2 DEF Sbom!Distinct, Sbom!FoldLeft, Sbom!MapThenFoldSet, Sbom!Max, DistinctOf, DistinctBy, Greatest

LEMMA DistinctSteps ==
  ASSUME NEW U, NEW known \in Seq(U), NEW cs \in Seq(U)
  PROVE  \E v : /\ v[0] = known /\ DistinctOf(known, cs) = v[Len(cs)]
                /\ \A k \in 1 .. Len(cs) : v[k] = Joined(v[k - 1], cs[k])
<1> DEFINE n == Len(cs)
           X == Seq(U)
           F == [p \in X \X (1 .. n) |-> Joined(p[1], cs[p[2]])]
           it == CHOOSE g : DistinctBy(known, cs, g)
           v == [k \in 0 .. n |-> it[1 .. k]]
<1>1. n \in Nat /\ DOMAIN cs = 1 .. n /\ \A k \in 1 .. n : cs[k] \in U
  OBVIOUS
<1>2. F \in [X \X (1 .. n) -> X]
  <2>1. \A x \in X, k \in 1 .. n : Joined(x, cs[k]) \in X
    BY <1>1 DEF Joined
  <2> HIDE DEF X, n
  <2> QED
    BY <2>1
<1> HIDE DEF n
<1>3. PICK h \in [SUBSET (1 .. n) -> X] : StepsBy(F, known, n, h)
  <2> HIDE DEF F
  <2> QED
    BY <1>1, <1>2, FoldExists
<1>4. \A s \in SUBSET (1 .. n) : s # {} =>
         Greatest(s) \in 1 .. n /\ s \ {Greatest(s)} \in SUBSET (1 .. n)
  BY <1>1, GreatestIsThere
<1> HIDE DEF X
<1>5. ASSUME NEW s \in SUBSET (1 .. n)
      PROVE  h[s] = IF s = {} THEN known ELSE Joined(h[s \ {Greatest(s)}], cs[Greatest(s)])
  <2>1. h[s] = IF s = {} THEN known ELSE F[<<h[s \ {Greatest(s)}], Greatest(s)>>]
    BY <1>3, Zenon DEF StepsBy
  <2>2. CASE s # {}
    <3>1. h[s \ {Greatest(s)}] \in X /\ Greatest(s) \in 1 .. n
      BY <1>3, <1>4, <2>2
    <3>2. F[<<h[s \ {Greatest(s)}], Greatest(s)>>] = Joined(h[s \ {Greatest(s)}], cs[Greatest(s)])
      BY <3>1
    <3> QED
      BY <2>1, <2>2, <3>2
  <2> QED
    BY <2>1, <2>2
<1>6. DistinctBy(known, cs, h)
  <2> HIDE DEF F
  <2> QED
    BY <1>1, <1>3, <1>5 DEF DistinctBy
<1>7. DistinctBy(known, cs, it)
  BY <1>6, Zenon
<1> HIDE DEF F, it
<1>8. \A s \in SUBSET (1 .. n) :
         it[s] = IF s = {} THEN known ELSE Joined(it[s \ {Greatest(s)}], cs[Greatest(s)])
  BY <1>1, <1>7 DEF DistinctBy
<1>9. v[0] = known
  <2>1. 1 .. 0 = {} /\ v[0] = it[1 .. 0]
    BY <1>1
  <2> QED
    BY <1>8, <2>1
<1>10. DistinctOf(known, cs) = v[n]
  BY <1>1 DEF DistinctOf, it
<1>11. ASSUME NEW k \in 1 .. n PROVE v[k] = Joined(v[k - 1], cs[k])
  <2>1. /\ 1 .. k \in SUBSET (1 .. n) /\ 1 .. k # {} /\ Greatest(1 .. k) = k
        /\ (1 .. k) \ {Greatest(1 .. k)} = 1 .. (k - 1)
    BY <1>1, GreatestOfPrefix
  <2>2. v[k] = it[1 .. k] /\ v[k - 1] = it[1 .. (k - 1)]
    BY <1>1
  <2> HIDE DEF v
  <2> QED
    BY <1>8, <2>1, <2>2
<1> HIDE DEF v
<1> QED
  BY <1>9, <1>10, <1>11 DEF n

LEMMA JoinedIsExact ==
  ASSUME NEW U, NEW s \in Seq(U), NEW c \in U, NoneTwice(s)
  PROVE  /\ Joined(s, c) \in Seq(U) /\ NoneTwice(Joined(s, c))
         /\ KeysIn(Joined(s, c)) = KeysIn(s) \cup {Sbom!Key(c)}
<1>1. CASE Sbom!Key(c) \in KeysIn(s)
  BY <1>1 DEF Joined
<1>2. CASE Sbom!Key(c) \notin KeysIn(s)
  <2> DEFINE t == Append(s, c)
  <2>1. /\ t \in Seq(U) /\ DOMAIN s = 1 .. Len(s) /\ DOMAIN t = 1 .. (Len(s) + 1) /\ Len(s) \in Nat
        /\ t[Len(s) + 1] = c /\ \A i \in 1 .. Len(s) : t[i] = s[i]
    OBVIOUS
  <2>2. Joined(s, c) = t
    BY <1>2 DEF Joined
  <2> HIDE DEF t
  <2>3. KeysIn(t) = KeysIn(s) \cup {Sbom!Key(c)}
    BY <2>1 DEF KeysIn
  <2>4. NoneTwice(t)
    <3> SUFFICES ASSUME NEW i \in DOMAIN t, NEW j \in DOMAIN t, Sbom!Key(t[i]) = Sbom!Key(t[j]) PROVE i = j
      BY DEF NoneTwice
    <3>1. \A m \in 1 .. Len(s) : Sbom!Key(t[m]) # Sbom!Key(c)
      BY <1>2, <2>1 DEF KeysIn
    <3> QED
      BY <2>1, <3>1 DEF NoneTwice
  <2> QED
    BY <2>1, <2>2, <2>3, <2>4
<1> QED
  BY <1>1, <1>2

LEMMA DistinctIsExact ==
  ASSUME NEW U, NEW known \in Seq(U), NEW cs \in Seq(U), NoneTwice(known)
  PROVE  /\ DistinctOf(known, cs) \in Seq(U) /\ NoneTwice(DistinctOf(known, cs))
         /\ KeysIn(DistinctOf(known, cs)) = KeysIn(known) \cup KeysIn(cs)
<1> DEFINE n == Len(cs)
<1>1. n \in Nat /\ DOMAIN cs = 1 .. n /\ \A k \in 1 .. n : cs[k] \in U
  OBVIOUS
<1>2. PICK v : /\ v[0] = known /\ DistinctOf(known, cs) = v[n]
               /\ \A k \in 1 .. n : v[k] = Joined(v[k - 1], cs[k])
  <2>1. \E v : /\ v[0] = known /\ DistinctOf(known, cs) = v[Len(cs)]
               /\ \A k \in 1 .. Len(cs) : v[k] = Joined(v[k - 1], cs[k])
    BY DistinctSteps
  <2> QED
    BY <2>1
<1> HIDE DEF n
<1> DEFINE upTo(k) == {Sbom!Key(cs[i]) : i \in 1 .. k}
           Good(k, s) == s \in Seq(U) /\ NoneTwice(s) /\ KeysIn(s) = KeysIn(known) \cup upTo(k)
           P == {k \in 0 .. n : Good(k, v[k])}
<1>3. 0 \in P
  <2>1. upTo(0) = {} /\ 0 \in 0 .. n
    BY <1>1
  <2>2. Good(0, v[0])
    BY <1>2, <2>1
  <2> HIDE DEF Good
  <2> QED
    BY <2>1, <2>2, Zenon
<1>4. ASSUME NEW k \in 1 .. n, k - 1 \in P PROVE k \in P
  <2>1. Good(k - 1, v[k - 1])
    BY <1>4
  <2>2. upTo(k) = upTo(k - 1) \cup {Sbom!Key(cs[k])}
    OBVIOUS
  <2>3. v[k] = Joined(v[k - 1], cs[k]) /\ cs[k] \in U /\ k \in 0 .. n
    BY <1>1, <1>2
  <2> HIDE DEF upTo
  <2>4. PICK s : s = v[k - 1]
    OBVIOUS
  <2>5. /\ Joined(s, cs[k]) \in Seq(U) /\ NoneTwice(Joined(s, cs[k]))
        /\ KeysIn(Joined(s, cs[k])) = KeysIn(s) \cup {Sbom!Key(cs[k])}
    <3>1. s \in Seq(U) /\ cs[k] \in U /\ NoneTwice(s)
      BY <2>1, <2>3, <2>4
    <3> QED
      BY <3>1, JoinedIsExact
  <2>6. Good(k, v[k])
    BY <2>1, <2>2, <2>3, <2>4, <2>5
  <2> HIDE DEF Good
  <2> QED
    BY <2>3, <2>6, Zenon
<1>5. n \in P
  <2> HIDE DEF P
  <2>1. \A k \in 1 .. n : k - 1 \in P => k \in P
    BY <1>4
  <2>2. \A k \in 0 .. n : k \in P
    BY <1>1, <1>3, <2>1, Climb
  <2> QED
    BY <1>1, <2>2
<1>6. upTo(n) = KeysIn(cs)
  BY <1>1 DEF KeysIn
<1> HIDE DEF upTo
<1> QED
  BY <1>2, <1>5, <1>6

(* What a parser answers is a list.                                          *)
Listed(s) == \E m \in Nat : s = [i \in 1 .. m |-> s[i]]

LEMMA ListedIsSeq ==
  ASSUME NEW s, Listed(s)
  PROVE  /\ s \in Seq({s[i] : i \in DOMAIN s}) /\ Len(s) \in Nat /\ DOMAIN s = 1 .. Len(s)
<1>1. PICK m \in Nat : s = [i \in 1 .. m |-> s[i]]
  BY DEF Listed
<1>2. DOMAIN s = 1 .. m
  BY <1>1, Zenon
<1>3. s \in [1 .. m -> {s[i] : i \in DOMAIN s}]
  BY <1>1, <1>2, Zenon
<1> QED
  BY <1>2, <1>3

LEMMA SeqIsListed == \A U : \A s \in Seq(U) : Listed(s)
<1> SUFFICES ASSUME NEW U, NEW s \in Seq(U) PROVE Listed(s)
  OBVIOUS
<1>1. s = [i \in 1 .. Len(s) |-> s[i]] /\ Len(s) \in Nat
  OBVIOUS
<1> QED
  BY <1>1, Zenon DEF Listed

LEMMA PickedAreListed ==
  ASSUME NEW T, NEW lines \in Seq(T), NEW I
  PROVE  /\ Len(lines) \in Nat /\ DOMAIN lines = 1 .. Len(lines)
         /\ I \subseteq DOMAIN lines =>
              \E m \in Nat : DOMAIN Sbom!InOrder(I, Len(lines)) = 1 .. m
<1>1. Len(lines) \in Nat /\ DOMAIN lines = 1 .. Len(lines)
  OBVIOUS
<1>2. ASSUME I \subseteq DOMAIN lines
      PROVE  \E m \in Nat : DOMAIN Sbom!InOrder(I, Len(lines)) = 1 .. m
  <2>1. I \in SUBSET (1 .. Len(lines))
    BY <1>1, <1>2
  <2> DEFINE n == Len(lines)
             s == InOrderOf(I, n)
  <2>2. s \in Seq(1 .. n)
    BY <1>1, <2>1, InOrderIsWhole
  <2> HIDE DEF s, n
  <2>3. DOMAIN s = 1 .. Len(s) /\ Len(s) \in Nat
    BY <2>2
  <2> QED
    BY <2>3, SbomInOrder DEF s, n
<1> QED
  BY <1>1, <1>2

(* The parsers that look at one line at a time, and those that know where    *)
(* in the file a line is.                                                    *)
LineParser(lines, s) ==
  \/ s = Sbom!parseRequirementsTxt(lines) \/ s = Sbom!parseGradle(lines)
  \/ s = Sbom!parseCSProj(lines) \/ s = Sbom!parseGemfile(lines)
  \/ s = Sbom!parseYarnLock(lines) \/ s = Sbom!parseSolutionFile(lines)

LEMMA KindsListed ==
  ASSUME NEW T, NEW lines \in Seq(T), NEW K
  PROVE  \E m \in Nat : DOMAIN Sbom!InOrder({i \in DOMAIN lines : lines[i].kind \in K}, Len(lines)) = 1 .. m
BY PickedAreListed

LEMMA LineParsersListed ==
  ASSUME NEW T, NEW lines \in Seq(T), NEW s, LineParser(lines, s)
  PROVE  Listed(s)
<1> DEFINE at(K) == Sbom!InOrder({i \in DOMAIN lines : lines[i].kind \in K}, Len(lines))
<1>1. \A K : \E m \in Nat : DOMAIN at(K) = 1 .. m
  BY KindsListed
<1>2. CASE s = Sbom!parseRequirementsTxt(lines)
  <2>1. s = [p \in DOMAIN at({"words"}) |-> Sbom!Library(lines[at({"words"})[p]])]
    BY <1>2 DEF Sbom!parseRequirementsTxt, Sbom!EachLine, Sbom!EachAt
  <2> HIDE DEF at
  <2> QED
    BY <1>1, <2>1 DEF Listed
<1>3. CASE s = Sbom!parseGradle(lines)
  <2>1. s = [p \in DOMAIN at({"implementation"}) |->
               LET l == lines[at({"implementation"})[p]]
               IN  Sbom!Component(<<l.group, l.name>>, l.version, "library")]
    BY <1>3 DEF Sbom!parseGradle, Sbom!EachLine, Sbom!EachAt
  <2> HIDE DEF at
  <2> QED
    BY <1>1, <2>1 DEF Listed
<1>4. CASE s = Sbom!parseCSProj(lines)
  <2>1. s = [p \in DOMAIN at({"attributes as text"}) |-> Sbom!Library(lines[at({"attributes as text"})[p]])]
    BY <1>4 DEF Sbom!parseCSProj, Sbom!EachLine, Sbom!EachAt
  <2> HIDE DEF at
  <2> QED
    BY <1>1, <2>1 DEF Listed
<1>5. CASE s = Sbom!parseGemfile(lines)
  <2>1. s = [p \in DOMAIN at({"gem"}) |-> Sbom!Library(lines[at({"gem"})[p]])]
    BY <1>5 DEF Sbom!parseGemfile, Sbom!EachLine, Sbom!EachAt
  <2> HIDE DEF at
  <2> QED
    BY <1>1, <2>1 DEF Listed
<1>6. CASE s = Sbom!parseYarnLock(lines)
  <2>1. s = [p \in DOMAIN at({"quoted"}) |-> Sbom!Library(lines[at({"quoted"})[p]])]
    BY <1>6 DEF Sbom!parseYarnLock, Sbom!EachLine, Sbom!EachAt
  <2> HIDE DEF at
  <2> QED
    BY <1>1, <2>1 DEF Listed
<1>7. CASE s = Sbom!parseSolutionFile(lines)
  <2>1. s = [p \in DOMAIN at({"Project("}) |-> Sbom!Component(<<lines[at({"Project("})[p]].name>>, "", "project")]
    BY <1>7 DEF Sbom!parseSolutionFile, Sbom!EachLine, Sbom!EachAt
  <2> HIDE DEF at
  <2> QED
    BY <1>1, <2>1 DEF Listed
<1> QED
  BY <1>2, <1>3, <1>4, <1>5, <1>6, <1>7 DEF LineParser

LEMMA GoModListed ==
  ASSUME NEW T, NEW lines \in Seq(T)
  PROVE  Listed(Sbom!parseGoMod(lines))
<1> DEFINE InRequire(i) ==
             \E o \in 1 .. i - 1 : lines[o].kind = "require (" /\ \A j \in o + 1 .. i - 1 : lines[j].kind # ")"
           I == {i \in DOMAIN lines : \/ lines[i].kind \in {"words", "comment"} /\ InRequire(i)
                                      \/ lines[i].kind = "go"}
           at == Sbom!InOrder(I, Len(lines))
           parsed(l) == IF l.kind = "go" THEN Sbom!Component(<<"go">>, l.version, "language")
                        ELSE Sbom!Library(l)
<1>1. \E m \in Nat : DOMAIN at = 1 .. m
  <2>1. I \subseteq DOMAIN lines
    OBVIOUS
  <2> HIDE DEF I
  <2> QED
    BY <2>1, PickedAreListed
<1>2. Sbom!parseGoMod(lines) = [p \in DOMAIN at |-> parsed(lines[at[p]])]
  BY DEF Sbom!parseGoMod, Sbom!EachAt
<1> HIDE DEF at, parsed
<1> QED
  BY <1>1, <1>2 DEF Listed

LEMMA CargoTomlListed ==
  ASSUME NEW T, NEW lines \in Seq(T)
  PROVE  Listed(Sbom!parseCargoToml(lines))
<1> DEFINE InDeps(i) == \E o \in 1 .. i - 1 : lines[o].kind = "[dependencies]"
           Ended(i) == \E j \in 1 .. i - 1 : lines[j].kind = "[other]" /\ InDeps(j)
           I == {i \in DOMAIN lines : lines[i].kind = "words" /\ InDeps(i) /\ ~Ended(i)}
           at == Sbom!InOrder(I, Len(lines))
<1>1. \E m \in Nat : DOMAIN at = 1 .. m
  <2>1. I \subseteq DOMAIN lines
    OBVIOUS
  <2> HIDE DEF I
  <2> QED
    BY <2>1, PickedAreListed
<1>2. Sbom!parseCargoToml(lines) = [p \in DOMAIN at |-> Sbom!Library(lines[at[p]])]
  BY DEF Sbom!parseCargoToml, Sbom!EachAt
<1> HIDE DEF at
<1> QED
  BY <1>1, <1>2 DEF Listed

LEMMA PackageJSONListed ==
  ASSUME NEW T, NEW lines \in Seq(T)
  PROVE  Listed(Sbom!parsePackageJSON(lines)) /\ Listed(Sbom!parsePackageLockJSON(lines))
<1> DEFINE at(K) == Sbom!InOrder({i \in DOMAIN lines : lines[i].kind \in K}, Len(lines))
           app == [p \in DOMAIN at({"application"}) |->
                     Sbom!Component(<<lines[at({"application"})[p]].name>>,
                                    lines[at({"application"})[p]].version, "application")]
           each(K) == [p \in DOMAIN at(K) |-> Sbom!Library(lines[at(K)[p]])]
<1>1. \A K : \E m \in Nat : DOMAIN at(K) = 1 .. m
  BY KindsListed
<1>2. /\ Sbom!parsePackageJSON(lines) = app \o each({"dependency", "devDependency"})
      /\ Sbom!parsePackageLockJSON(lines) = Sbom!Distinct(<<>>, each({"package", "dependency"}))
  BY DEF Sbom!parsePackageJSON, Sbom!parsePackageLockJSON, Sbom!EachLine, Sbom!EachAt
<1> HIDE DEF at
<1>3. Listed(app) /\ \A K : Listed(each(K))
  BY <1>1 DEF Listed
<1> HIDE DEF app, each
<1>4. ASSUME NEW s, NEW t, Listed(s), Listed(t) PROVE Listed(s \o t)
  <2> DEFINE A == {s[i] : i \in DOMAIN s}
             B == {t[i] : i \in DOMAIN t}
             U == A \cup B
  <2>1. s \in Seq(U) /\ t \in Seq(U)
    <3>1. s \in Seq(A) /\ t \in Seq(B)
      BY <1>4, ListedIsSeq
    <3> HIDE DEF A, B
    <3> QED
      BY <3>1
  <2> HIDE DEF U
  <2>2. s \o t \in Seq(U)
    BY <2>1
  <2> QED
    BY <2>2, SeqIsListed
<1>5. ASSUME NEW s, Listed(s) PROVE Listed(Sbom!Distinct(<<>>, s))
  <2> DEFINE U == {s[i] : i \in DOMAIN s}
  <2>1. s \in Seq(U) /\ <<>> \in Seq(U) /\ NoneTwice(<<>>)
    BY <1>5, ListedIsSeq DEF NoneTwice
  <2> HIDE DEF U
  <2>2. DistinctOf(<<>>, s) \in Seq(U)
    BY <2>1, DistinctIsExact
  <2> QED
    BY <2>2, SeqIsListed, SbomDistinct
<1> QED
  BY <1>2, <1>3, <1>4, <1>5

LEMMA PomListed ==
  ASSUME NEW T, NEW lines \in Seq(T)
  PROVE  Listed(Sbom!parsePomXML(lines))
<1> DEFINE at == Sbom!InOrder({i \in DOMAIN lines : lines[i].kind \in {"artifactId"}}, Len(lines))
           artifacts == Sbom!extractXML(lines, "artifactId")
           names == [p \in DOMAIN at |-> lines[at[p]].name]
<1>1. \E m \in Nat : DOMAIN at = 1 .. m
  BY KindsListed
<1>2. artifacts = names
  BY DEF Sbom!extractXML, Sbom!EachLine, Sbom!EachAt
<1> HIDE DEF at
<1>3. Listed(names)
  BY <1>1 DEF Listed
<1> HIDE DEF names, artifacts
<1>4. Listed(artifacts)
  BY <1>2, <1>3
<1> DEFINE m == IF artifacts = <<>> THEN 0 ELSE Len(artifacts) - 1
<1>5. m \in Nat
  <2>1. artifacts \in Seq({artifacts[i] : i \in DOMAIN artifacts}) /\ Len(artifacts) \in Nat
    BY <1>4, ListedIsSeq
  <2> QED
    BY <2>1
<1>6. \E g : Sbom!parsePomXML(lines) = [i \in 1 .. m |-> g[i]]
  <2> DEFINE g == Sbom!parsePomXML(lines)
  <2>1. g = [i \in 1 .. m |-> g[i]]
    BY DEF Sbom!parsePomXML, artifacts
  <2> QED
    BY <2>1
<1> HIDE DEF m
<1> QED
  BY <1>5, <1>6 DEF Listed

(* What the parser of a Cargo lock sees of a package, with the lines it looks *)
(* at and what it takes from them.                                           *)
Looked(lines, i) ==
  {j \in Sbom!Window(i) \cap DOMAIN lines :
     \A s \in {k \in Sbom!Window(i) \cap DOMAIN lines : lines[k].kind = "[other]"} : j < s}
LastOf(lines, i, kind) ==
  LET js == {j \in Looked(lines, i) : lines[j].kind = kind}
  IN  IF js = {} THEN "" ELSE lines[CHOOSE j \in js : \A k \in js : k <= j].name
LockedPackages(lines, packages) ==
  [p \in DOMAIN packages |->
     Sbom!Component(<<LastOf(lines, packages[p], "name")>>, LastOf(lines, packages[p], "version"), "library")]

LEMMA CargoLockListed ==
  ASSUME NEW T, NEW lines \in Seq(T)
  PROVE  Listed(Sbom!parseCargoLock(lines))
<1> DEFINE named == {i \in DOMAIN lines : lines[i].kind = "[[package]]" /\ LastOf(lines, i, "name") # ""}
           packages == Sbom!InOrder(named, Len(lines))
<1>1. \E m \in Nat : DOMAIN packages = 1 .. m
  <2>1. named \subseteq DOMAIN lines
    OBVIOUS
  <2> HIDE DEF named
  <2> QED
    BY <2>1, PickedAreListed
<1>2. Sbom!parseCargoLock(lines) = LockedPackages(lines, packages)
  BY DEF Sbom!parseCargoLock, LockedPackages, LastOf, Looked
<1> HIDE DEF packages
<1> QED
  BY <1>1, <1>2 DEF Listed, LockedPackages

LEMMA FilesListed ==
  ASSUME NEW T, NEW f, f.lines \in Seq(T)
  PROVE  Listed(Sbom!parseDepFile(f))
<1>1. Listed(<<>>)
  <2>1. <<>> \in Seq({})
    OBVIOUS
  <2> QED
    BY <2>1, SeqIsListed
<1> QED
  BY <1>1, LineParsersListed, GoModListed, CargoTomlListed, PackageJSONListed, PomListed, CargoLockListed
     DEF Sbom!parseDepFile, LineParser

Lines == [kind : STRING, name : STRING, version : STRING, group : STRING]
SbomInv == tree \in Seq(Files)
SbomHolds == world = "sbom" => SbomInv

LEMMA SbomSteps ==
  /\ world = "sbom" /\ Init => SbomInv
  /\ world = "sbom" /\ SbomInv /\ [Next]_serviceVars => SbomInv'
<1>1. world = "sbom" /\ Init => SbomInv
  BY DEF Init, SbomInv, Sbom!Init
<1>2. ASSUME world = "sbom", SbomInv, [Next]_serviceVars PROVE SbomInv'
  <2>1. CASE Sbom!Next
    <3>1. ASSUME NEW f \in Files, Sbom!AddFile(f) PROVE SbomInv'
      BY <1>2, <3>1 DEF SbomInv, Sbom!AddFile
    <3>2. CASE Sbom!ScanDirectoryForSBOM
      BY <1>2, <3>2 DEF SbomInv, Sbom!ScanDirectoryForSBOM
    <3> QED
      BY <2>1, <3>1, <3>2 DEF Sbom!Next
  <2>2. CASE UNCHANGED serviceVars
    BY <1>2, <2>2 DEF SbomInv, serviceVars, treeVars
  <2> QED
    BY <1>2, <2>1, <2>2 DEF Next
<1> QED
  BY <1>1, <1>2

(* One file of the walk after the other.                                     *)
Walked(found, f) ==
  IF f.dirs \cap Sbom!SkippedDirs = {} THEN Sbom!Distinct(found, Sbom!parseDepFile(f)) ELSE found
WalkBy(files, g) ==
  g = [s \in SUBSET DOMAIN files |->
         IF s = {} THEN <<>> ELSE Walked(g[s \ {Greatest(s)}], files[Greatest(s)])]
WalkOf(files) == (CHOOSE g : WalkBy(files, g))[DOMAIN files]
KeysOfFile(f) == IF f.dirs \cap Sbom!SkippedDirs = {} THEN KeysIn(Sbom!parseDepFile(f)) ELSE {}
Parsed == UNION {Sbom!ToSet(Sbom!parseDepFile(f)) : f \in Files}
Exact == {s \in Seq(Parsed) : NoneTwice(s)}

LEMMA SbomWalk ==
  \A files : Sbom!scanDirectory(files) = [components |-> WalkOf(files), total |-> Len(WalkOf(files))]
BY DEF Sbom!scanDirectory, Sbom!FoldLeft, Sbom!MapThenFoldSet, Sbom!Max, WalkOf, WalkBy, Walked, Greatest

LEMMA WalkedIsExact ==
  ASSUME NEW x \in Exact, NEW f \in Files
  PROVE  Walked(x, f) \in Exact /\ KeysIn(Walked(x, f)) = KeysIn(x) \cup KeysOfFile(f)
<1>1. CASE f.dirs \cap Sbom!SkippedDirs = {}
  <2> DEFINE cs == Sbom!parseDepFile(f)
  <2>1. cs \in Seq(Parsed)
    <3>1. f.lines \in Seq(Lines)
      BY FilesAreText DEF Lines
    <3>2. Listed(cs)
      BY <3>1, FilesListed
    <3> DEFINE A == {cs[i] : i \in DOMAIN cs}
    <3>3. cs \in Seq(A)
      BY <3>2, ListedIsSeq
    <3>4. A \subseteq Parsed
      BY DEF Parsed, Sbom!ToSet
    <3> HIDE DEF A, cs
    <3> QED
      BY <3>3, <3>4
  <2> HIDE DEF cs
  <2>2. x \in Seq(Parsed) /\ NoneTwice(x)
    BY DEF Exact
  <2>3. /\ DistinctOf(x, cs) \in Seq(Parsed) /\ NoneTwice(DistinctOf(x, cs))
        /\ KeysIn(DistinctOf(x, cs)) = KeysIn(x) \cup KeysIn(cs)
    BY <2>1, <2>2, DistinctIsExact
  <2>4. Walked(x, f) = DistinctOf(x, cs)
    BY <1>1, SbomDistinct, Zenon DEF Walked, cs
  <2>5. KeysOfFile(f) = KeysIn(cs)
    BY <1>1, Zenon DEF KeysOfFile, cs
  <2> QED
    BY <2>3, <2>4, <2>5 DEF Exact
<1>2. CASE f.dirs \cap Sbom!SkippedDirs # {}
  BY <1>2 DEF Walked, KeysOfFile
<1> QED
  BY <1>1, <1>2

LEMMA WalkSteps ==
  ASSUME NEW files \in Seq(Files)
  PROVE  \E v : /\ v[0] = <<>> /\ WalkOf(files) = v[Len(files)]
                /\ \A k \in 1 .. Len(files) : v[k] = Walked(v[k - 1], files[k])
<1> DEFINE n == Len(files)
           F == [p \in Exact \X (1 .. n) |-> Walked(p[1], files[p[2]])]
           it == CHOOSE g : WalkBy(files, g)
           v == [k \in 0 .. n |-> it[1 .. k]]
<1>1. n \in Nat /\ DOMAIN files = 1 .. n /\ \A k \in 1 .. n : files[k] \in Files
  OBVIOUS
<1>2. F \in [Exact \X (1 .. n) -> Exact]
  <2>1. \A x \in Exact, k \in 1 .. n : Walked(x, files[k]) \in Exact
    BY <1>1, WalkedIsExact
  <2> HIDE DEF n
  <2> QED
    BY <2>1
<1> HIDE DEF n
<1>3. PICK h \in [SUBSET (1 .. n) -> Exact] : StepsBy(F, <<>>, n, h)
  <2>1. <<>> \in Exact
    BY DEF Exact, NoneTwice
  <2> HIDE DEF F
  <2> QED
    BY <1>1, <1>2, <2>1, FoldExists
<1>4. \A s \in SUBSET (1 .. n) : s # {} =>
         Greatest(s) \in 1 .. n /\ s \ {Greatest(s)} \in SUBSET (1 .. n)
  BY <1>1, GreatestIsThere
<1>5. ASSUME NEW s \in SUBSET (1 .. n)
      PROVE  h[s] = IF s = {} THEN <<>> ELSE Walked(h[s \ {Greatest(s)}], files[Greatest(s)])
  <2>1. h[s] = IF s = {} THEN <<>> ELSE F[<<h[s \ {Greatest(s)}], Greatest(s)>>]
    BY <1>3, Zenon DEF StepsBy
  <2>2. CASE s # {}
    <3>1. h[s \ {Greatest(s)}] \in Exact /\ Greatest(s) \in 1 .. n
      BY <1>3, <1>4, <2>2
    <3>2. F[<<h[s \ {Greatest(s)}], Greatest(s)>>] = Walked(h[s \ {Greatest(s)}], files[Greatest(s)])
      BY <3>1
    <3> QED
      BY <2>1, <2>2, <3>2
  <2> QED
    BY <2>1, <2>2
<1>6. WalkBy(files, h)
  <2> HIDE DEF F
  <2> QED
    BY <1>1, <1>3, <1>5 DEF WalkBy
<1>7. WalkBy(files, it)
  BY <1>6, Zenon
<1> HIDE DEF F, it
<1>8. \A s \in SUBSET (1 .. n) :
         it[s] = IF s = {} THEN <<>> ELSE Walked(it[s \ {Greatest(s)}], files[Greatest(s)])
  BY <1>1, <1>7 DEF WalkBy
<1>9. v[0] = <<>>
  <2>1. 1 .. 0 = {} /\ v[0] = it[1 .. 0]
    BY <1>1
  <2> QED
    BY <1>8, <2>1
<1>10. WalkOf(files) = v[n]
  BY <1>1 DEF WalkOf, it
<1>11. ASSUME NEW k \in 1 .. n PROVE v[k] = Walked(v[k - 1], files[k])
  <2>1. /\ 1 .. k \in SUBSET (1 .. n) /\ 1 .. k # {} /\ Greatest(1 .. k) = k
        /\ (1 .. k) \ {Greatest(1 .. k)} = 1 .. (k - 1)
    BY <1>1, GreatestOfPrefix
  <2>2. v[k] = it[1 .. k] /\ v[k - 1] = it[1 .. (k - 1)]
    BY <1>1
  <2> HIDE DEF v
  <2> QED
    BY <1>8, <2>1, <2>2
<1> HIDE DEF v
<1> QED
  BY <1>9, <1>10, <1>11 DEF n

LEMMA WalkIsExact ==
  ASSUME NEW files \in Seq(Files)
  PROVE  /\ WalkOf(files) \in Exact
         /\ KeysIn(WalkOf(files)) = UNION {KeysOfFile(files[i]) : i \in DOMAIN files}
<1> DEFINE n == Len(files)
<1>1. n \in Nat /\ DOMAIN files = 1 .. n /\ \A k \in 1 .. n : files[k] \in Files
  OBVIOUS
<1>2. PICK v : /\ v[0] = <<>> /\ WalkOf(files) = v[n]
               /\ \A k \in 1 .. n : v[k] = Walked(v[k - 1], files[k])
  BY WalkSteps
<1> HIDE DEF n
<1> DEFINE upTo(k) == UNION {KeysOfFile(files[i]) : i \in 1 .. k}
           Good(k, s) == s \in Exact /\ KeysIn(s) = upTo(k)
           P == {k \in 0 .. n : Good(k, v[k])}
<1>3. 0 \in P
  <2>1. upTo(0) = {} /\ 0 \in 0 .. n
    BY <1>1
  <2>2. <<>> \in Exact /\ KeysIn(<<>>) = {}
    BY DEF Exact, NoneTwice, KeysIn
  <2>3. Good(0, v[0])
    BY <1>2, <2>1, <2>2
  <2> HIDE DEF Good
  <2> QED
    BY <2>1, <2>3, Zenon
<1>4. ASSUME NEW k \in 1 .. n, k - 1 \in P PROVE k \in P
  <2>1. Good(k - 1, v[k - 1])
    BY <1>4
  <2>2. upTo(k) = upTo(k - 1) \cup KeysOfFile(files[k])
    <3>1. 1 .. k = (1 .. (k - 1)) \cup {k}
      BY <1>1
    <3> QED
      BY <3>1
  <2>3. v[k] = Walked(v[k - 1], files[k]) /\ files[k] \in Files /\ k \in 0 .. n
    BY <1>1, <1>2
  <2> HIDE DEF upTo
  <2>4. Walked(v[k - 1], files[k]) \in Exact
        /\ KeysIn(Walked(v[k - 1], files[k])) = KeysIn(v[k - 1]) \cup KeysOfFile(files[k])
    BY <2>1, <2>3, WalkedIsExact
  <2>5. Good(k, v[k])
    BY <2>1, <2>2, <2>3, <2>4
  <2> HIDE DEF Good
  <2> QED
    BY <2>3, <2>5, Zenon
<1>5. n \in P
  <2> HIDE DEF P
  <2>1. \A k \in 1 .. n : k - 1 \in P => k \in P
    BY <1>4
  <2>2. \A k \in 0 .. n : k \in P
    BY <1>1, <1>3, <2>1, Climb
  <2> QED
    BY <1>1, <2>2
<1>6. upTo(n) = UNION {KeysOfFile(files[i]) : i \in DOMAIN files}
  BY <1>1
<1> HIDE DEF upTo
<1> QED
  BY <1>2, <1>5, <1>6

LEMMA SbomCardinality == \A S : Sbom!Cardinality(S) = Cardinality(S)
BY DEF Sbom!Cardinality, Cardinality

(* As many keys as components when none is there twice.                      *)
LEMMA KeysCounted ==
  ASSUME NEW s \in Exact
  PROVE  Len(s) = Cardinality(KeysIn(s))
<1> DEFINE n == Len(s)
           f == [i \in 1 .. n |-> Sbom!Key(s[i])]
<1>1. n \in Nat /\ DOMAIN s = 1 .. n
  BY DEF Exact
<1>2. f \in Bijection(1 .. n, KeysIn(s))
  <2>1. f \in [1 .. n -> KeysIn(s)]
    BY <1>1 DEF KeysIn
  <2>2. \A i, j \in 1 .. n : f[i] = f[j] => i = j
    BY <1>1 DEF Exact, NoneTwice
  <2>3. \A c \in KeysIn(s) : \E i \in 1 .. n : f[i] = c
    BY <1>1 DEF KeysIn
  <2> HIDE DEF f, n
  <2> QED
    BY <2>1, <2>2, <2>3 DEF Bijection, Injection, Surjection, IsInjective
<1>3. IsFiniteSet(KeysIn(s)) /\ Cardinality(KeysIn(s)) = n
  <2> HIDE DEF n
  <2>1. ExistsBijection(1 .. n, KeysIn(s))
    <3> HIDE DEF f
    <3> QED
      BY <1>2 DEF ExistsBijection
  <2> QED
    <3>1. IsFiniteSet(1 .. n) /\ Cardinality(1 .. n) = n
      BY <1>1, FS_Interval
    <3> QED
      BY <2>1, <3>1, FS_Bijection
<1> QED
  BY <1>3

(* The list of a directory has each package of its files once.               *)
THEOREM ScansAreExact == Spec => []ScanIsExact
<1>1. Init => SbomHolds
  BY SbomSteps DEF SbomHolds
<1>2. SbomHolds /\ [Next]_serviceVars => SbomHolds'
  BY WorldStays, SbomSteps DEF SbomHolds
<1>3. SbomHolds => ScanIsExact
  <2> SUFFICES ASSUME SbomInv PROVE Sbom!ScanIsExact
    BY DEF SbomHolds, ScanIsExact
  <2> DEFINE cs == WalkOf(tree)
             identities == {Sbom!Identity(cs[i]) : i \in DOMAIN cs}
             parsed == UNION {Sbom!ToSet(Sbom!parseDepFile(f)) :
                                f \in {g \in Sbom!ToSet(tree) : g.dirs \cap Sbom!SkippedDirs = {}}}
  <2>1. cs \in Exact /\ KeysIn(cs) = UNION {KeysOfFile(tree[i]) : i \in DOMAIN tree}
    BY WalkIsExact DEF SbomInv
  <2>2. identities = KeysIn(cs)
    BY DEF KeysIn, Sbom!Identity, Sbom!Key
  <2>3. UNION {KeysOfFile(tree[i]) : i \in DOMAIN tree} = {Sbom!Identity(c) : c \in parsed}
    BY DEF KeysOfFile, KeysIn, Sbom!Identity, Sbom!Key, Sbom!ToSet
  <2>4. Len(cs) = Cardinality(KeysIn(cs))
    BY <2>1, KeysCounted
  <2>5. Sbom!scanDirectory(tree) = [components |-> cs, total |-> Len(cs)]
    BY SbomWalk
  <2>6. Sbom!Cardinality(identities) = Cardinality(identities)
    BY SbomCardinality
  <2> HIDE DEF cs
  <2>7. /\ Sbom!scanDirectory(tree).components = cs
        /\ Sbom!scanDirectory(tree).total = Len(cs)
    BY <2>5
  <2>8. identities = {Sbom!Identity(c) : c \in parsed}
    BY <2>1, <2>2, <2>3
  <2>9. Len(cs) = Sbom!Cardinality(identities)
    BY <2>2, <2>4, <2>6
  <2>10. {Sbom!Identity(Sbom!scanDirectory(tree).components[i]) :
            i \in DOMAIN Sbom!scanDirectory(tree).components} = identities
    BY <2>7
  <2> HIDE DEF identities, parsed
  <2> QED
    BY <2>7, <2>8, <2>9, <2>10, Zenon DEF Sbom!ScanIsExact, identities, parsed
<1> QED
  BY <1>1, <1>2, <1>3, PTL DEF Spec

-----------------------------------------------------------------------------
(* The rules about quantum risk. *)
LEMMA RuleInOrder == \A I, n : Rule!InOrder(I, n) = InOrderOf(I, n)
BY DEF Rule!InOrder, Rule!FoldLeft, Rule!MapThenFoldSet, Rule!Max, InOrderOf, InOrderBy, Greatest
LEMMA RuleCardinality == \A S : Rule!Cardinality(S) = Cardinality(S)
BY DEF Rule!Cardinality, Cardinality

(* The sum of the scores, one report after the other.                        *)
SumBy(judged, g) ==
  g = [s \in SUBSET DOMAIN judged |->
         IF s = {} THEN 0 ELSE g[s \ {Greatest(s)}] + judged[Greatest(s)].score]
SumOf(judged) == (CHOOSE g : SumBy(judged, g))[DOMAIN judged]

LEMMA RuleSum ==
  \A judged : Rule!GetMigrationRoadmap(judged).overall =
                 IF judged = <<>> THEN 0 ELSE 100 - (SumOf(judged) \div Len(judged))
BY DEF Rule!GetMigrationRoadmap, Rule!FoldLeft, Rule!MapThenFoldSet, Rule!Max, SumOf, SumBy, Greatest

LEMMA SumSteps ==
  ASSUME NEW n \in Nat, NEW judged, DOMAIN judged = 1 .. n, \A k \in 1 .. n : judged[k].score \in Nat
  PROVE  \E v : /\ v[0] = 0 /\ SumOf(judged) = v[n]
                /\ \A k \in 1 .. n : v[k] = v[k - 1] + judged[k].score
<1> DEFINE F == [p \in Nat \X (1 .. n) |-> p[1] + judged[p[2]].score]
           it == CHOOSE g : SumBy(judged, g)
           v == [k \in 0 .. n |-> it[1 .. k]]
<1>1. n \in Nat /\ DOMAIN judged = 1 .. n /\ \A k \in 1 .. n : judged[k].score \in Nat
  OBVIOUS
<1>2. F \in [Nat \X (1 .. n) -> Nat]
  <2>1. \A x \in Nat, k \in 1 .. n : x + judged[k].score \in Nat
    BY <1>1
  <2> QED
    BY <2>1
<1>3. PICK h \in [SUBSET (1 .. n) -> Nat] : StepsBy(F, 0, n, h)
  <2> HIDE DEF F
  <2> QED
    BY <1>1, <1>2, FoldExists
<1>4. \A s \in SUBSET (1 .. n) : s # {} =>
         Greatest(s) \in 1 .. n /\ s \ {Greatest(s)} \in SUBSET (1 .. n)
  BY <1>1, GreatestIsThere
<1>5. ASSUME NEW s \in SUBSET (1 .. n)
      PROVE  h[s] = IF s = {} THEN 0 ELSE h[s \ {Greatest(s)}] + judged[Greatest(s)].score
  <2>1. h[s] = IF s = {} THEN 0 ELSE F[<<h[s \ {Greatest(s)}], Greatest(s)>>]
    BY <1>3, Zenon DEF StepsBy
  <2>2. CASE s # {}
    <3>1. h[s \ {Greatest(s)}] \in Nat /\ Greatest(s) \in 1 .. n
      BY <1>3, <1>4, <2>2
    <3>2. F[<<h[s \ {Greatest(s)}], Greatest(s)>>] = h[s \ {Greatest(s)}] + judged[Greatest(s)].score
      BY <3>1
    <3> QED
      BY <2>1, <2>2, <3>2
  <2> QED
    BY <2>1, <2>2
<1>6. SumBy(judged, h)
  <2> HIDE DEF F
  <2> QED
    BY <1>1, <1>3, <1>5 DEF SumBy
<1>7. SumBy(judged, it)
  BY <1>6, Zenon
<1> HIDE DEF F, it
<1>8. \A s \in SUBSET (1 .. n) :
         it[s] = IF s = {} THEN 0 ELSE it[s \ {Greatest(s)}] + judged[Greatest(s)].score
  BY <1>1, <1>7 DEF SumBy
<1>9. v[0] = 0
  <2>1. 1 .. 0 = {} /\ v[0] = it[1 .. 0]
    BY <1>1
  <2> QED
    BY <1>8, <2>1
<1>10. SumOf(judged) = v[n]
  BY <1>1 DEF SumOf, it
<1>11. ASSUME NEW k \in 1 .. n PROVE v[k] = v[k - 1] + judged[k].score
  <2>1. /\ 1 .. k \in SUBSET (1 .. n) /\ 1 .. k # {} /\ Greatest(1 .. k) = k
        /\ (1 .. k) \ {Greatest(1 .. k)} = 1 .. (k - 1)
    BY <1>1, GreatestOfPrefix
  <2>2. v[k] = it[1 .. k] /\ v[k - 1] = it[1 .. (k - 1)]
    BY <1>1
  <2> HIDE DEF v
  <2> QED
    BY <1>8, <2>1, <2>2
<1> HIDE DEF v
<1> QED
  BY <1>9, <1>10, <1>11

(* The sum does not grow when no score does.                                 *)
LEMMA SumMonotone ==
  ASSUME NEW n \in Nat, NEW a, NEW b, DOMAIN a = 1 .. n, DOMAIN b = 1 .. n,
         \A k \in 1 .. n : a[k].score \in Nat /\ b[k].score \in Nat /\ a[k].score <= b[k].score
  PROVE  SumOf(a) \in Nat /\ SumOf(b) \in Nat /\ SumOf(a) <= SumOf(b)
<1>1. PICK u : /\ u[0] = 0 /\ SumOf(a) = u[n] /\ \A k \in 1 .. n : u[k] = u[k - 1] + a[k].score
  BY SumSteps
<1>2. PICK v : /\ v[0] = 0 /\ SumOf(b) = v[n] /\ \A k \in 1 .. n : v[k] = v[k - 1] + b[k].score
  BY SumSteps
<1>3. n \in Nat /\ \A k \in 1 .. n : a[k].score \in Nat /\ b[k].score \in Nat /\ a[k].score <= b[k].score
  OBVIOUS
<1> DEFINE P == {k \in 0 .. n : u[k] \in Nat /\ v[k] \in Nat /\ u[k] <= v[k]}
<1>4. 0 \in P
  BY <1>1, <1>2, <1>3
<1>5. ASSUME NEW k \in 1 .. n, k - 1 \in P PROVE k \in P
  <2>1. u[k - 1] \in Nat /\ v[k - 1] \in Nat /\ u[k - 1] <= v[k - 1]
    BY <1>5
  <2>2. a[k].score \in Nat /\ b[k].score \in Nat /\ a[k].score <= b[k].score
    BY <1>3
  <2>3. u[k] = u[k - 1] + a[k].score /\ v[k] = v[k - 1] + b[k].score /\ k \in 0 .. n
    BY <1>1, <1>2, <1>3
  <2>4. u[k] \in Nat /\ v[k] \in Nat /\ u[k] <= v[k]
    <3>1. \A x, y, p, q \in Nat : x <= y /\ p <= q => x + p \in Nat /\ y + q \in Nat /\ x + p <= y + q
      OBVIOUS
    <3> DEFINE x == u[k - 1]
               y == v[k - 1]
               p == a[k].score
               q == b[k].score
    <3>2. x \in Nat /\ y \in Nat /\ p \in Nat /\ q \in Nat /\ x <= y /\ p <= q
      BY <2>1, <2>2, Zenon
    <3>3. u[k] = x + p /\ v[k] = y + q
      BY <2>3, Zenon
    <3> HIDE DEF x, y, p, q
    <3> QED
      BY <3>1, <3>2, <3>3
  <2> QED
    BY <2>3, <2>4
<1>6. n \in P
  <2> HIDE DEF P
  <2>1. \A k \in 1 .. n : k - 1 \in P => k \in P
    BY <1>5
  <2>2. \A k \in 0 .. n : k \in P
    BY <1>3, <1>4, <2>1, Climb
  <2> QED
    BY <1>3, <2>2
<1> QED
  BY <1>1, <1>2, <1>6

LEMMA TargetsAreSafe == \A a : Rule!Targets(a) \subseteq Rule!PqcSafe
BY DEF Rule!Targets, Rule!PqcSafe

Families == {"RSA", "ECDSA", "ECDH", "DH"}
LEMMA VulnerableFamilies ==
  /\ DOMAIN Rule!KnownVulnerable = 1 .. 5
  /\ \A k \in 1 .. 5 : Rule!KnownVulnerable[k][1] \in Families
BY DEF Rule!KnownVulnerable, Families
LEMMA SafeFamilies == DOMAIN Rule!KnownSafe = 1 .. 8
BY DEF Rule!KnownSafe

(* No word of a name that the PQC service takes for safe is, or ends with,   *)
(* the name of a classical family.                                           *)
LEMMA SafeWords ==
  ASSUME NEW name \in Rule!PqcSafe, NEW family \in Families
  PROVE  ~Rule!Mentions(name, family)
<1>1. \A i \in DOMAIN name : name[i] \in {"ML", "KEM", "768", "1024", "DSA", "65", "87", "SLH", "SHA2",
        "128s", "AES", "256", "GCM", "ChaCha20", "Poly1305", "SHA", "3", "512", "BLAKE3"}
  BY DEF Rule!PqcSafe
<1>2. \A i \in DOMAIN name : ~Rule!Holds(name[i], family)
  BY <1>1 DEF Rule!Holds, Families
<1> QED
  BY <1>2 DEF Rule!Mentions

LEMMA MatchesCounted ==
  ASSUME NEW name, NEW entries, NEW n \in Nat, DOMAIN entries = 1 .. n
  PROVE  /\ Rule!Matches(<<name>>, entries) \in Nat
         /\ (\A k \in 1 .. n : ~Rule!Mentions(name, entries[k][1])) => Rule!Matches(<<name>>, entries) = 0
<1> DEFINE S == {m \in (DOMAIN <<name>>) \X (DOMAIN entries) : Rule!Mentions(<<name>>[m[1]], entries[m[2]][1])}
<1>1. DOMAIN <<name>> = 1 .. 1 /\ <<name>>[1] = name
  OBVIOUS
<1>2. IsFiniteSet((1 .. 1) \X (1 .. n))
  <2>1. IsFiniteSet(1 .. 1) /\ IsFiniteSet(1 .. n)
    <3>1. 1 \in Int /\ n \in Int
      OBVIOUS
    <3> QED
      BY <3>1, FS_Interval
  <2> QED
    BY <2>1, FS_Product
<1>3. S \in SUBSET ((1 .. 1) \X (1 .. n))
  BY <1>1
<1>4. IsFiniteSet(S) /\ Cardinality(S) \in Nat
  <2> HIDE DEF S
  <2> QED
    BY <1>2, <1>3, FS_Subset, FS_CardinalityType
<1>5. ASSUME \A k \in 1 .. n : ~Rule!Mentions(name, entries[k][1]) PROVE Cardinality(S) = 0
  <2>1. S = {}
    BY <1>1, <1>5
  <2> QED
    BY <2>1, FS_EmptySet
<1>6. Rule!Matches(<<name>>, entries) = Cardinality(S)
  BY RuleCardinality DEF Rule!Matches
<1> QED
  BY <1>4, <1>5, <1>6

LevelOf(score) ==
  CASE score >= 80 -> "CRITICAL" [] score >= 60 -> "HIGH"
    [] score >= 30 -> "MEDIUM" [] score > 0 -> "LOW" [] OTHER -> "SAFE"
LEMMA LevelOfZero == LevelOf(0) = "SAFE"
BY DEF LevelOf

LEMMA ScoreOfName ==
  ASSUME NEW name
  PROVE  /\ Rule!AssessAsset(<<name>>).score \in Nat
         /\ (\A family \in Families : ~Rule!Mentions(name, family)) =>
              Rule!AssessAsset(<<name>>).score = 0 /\ Rule!AssessAsset(<<name>>).level = "SAFE"
<1> DEFINE v == Rule!Matches(<<name>>, Rule!KnownVulnerable)
           w == Rule!Matches(<<name>>, Rule!KnownSafe)
           score == IF v = 0 THEN 0 ELSE (100 * v) \div (v + w + 1)
<1>1. v \in Nat /\ w \in Nat
  BY VulnerableFamilies, SafeFamilies, MatchesCounted
<1>2. (\A family \in Families : ~Rule!Mentions(name, family)) => v = 0
  BY VulnerableFamilies, MatchesCounted
<1>3. Rule!AssessAsset(<<name>>) = [score |-> score, level |-> LevelOf(score), harvest |-> score >= 60]
  BY DEF Rule!AssessAsset, LevelOf
<1> HIDE DEF v, w
<1>4. score \in Nat
  <2>1. \A a \in Nat, b \in Nat \ {0} : a \div b \in Nat
    OBVIOUS
  <2>2. 100 * v \in Nat /\ v + w + 1 \in Nat \ {0}
    BY <1>1
  <2> QED
    BY <2>1, <2>2
<1>5. v = 0 => score = 0
  OBVIOUS
<1> HIDE DEF score
<1>6. score = 0 => LevelOf(score) = "SAFE"
  BY LevelOfZero
<1> QED
  BY <1>2, <1>3, <1>4, <1>5, <1>6

(* What has no word of a classical family and does not begin with the prefix *)
(* of one is safe for the scanner, the attestation and the engine.           *)
LEMMA PlainlySafe ==
  ASSUME NEW name, \A family \in Families : ~Rule!Mentions(name, family),
         name[1] \notin Rule!VulnerablePrefixes
  PROVE  /\ Rule!AssessAsset(<<name>>).score = 0 /\ Rule!AssessAsset(<<name>>).level = "SAFE"
         /\ Rule!Attest(name).quantumSafe /\ Rule!Evaluate(name).compliant
<1>1. Rule!AssessAsset(<<name>>).score = 0 /\ Rule!AssessAsset(<<name>>).level = "SAFE"
  BY ScoreOfName
<1>2. Rule!Attest(name).quantumSafe
  <2>1. Rule!Attest(name).quantumSafe = (Rule!AssessAsset(<<name>>).score < 30)
    BY Zenon DEF Rule!Attest
  <2>2. Rule!AssessAsset(<<name>>).score < 30
    BY <1>1
  <2> QED
    BY <2>1, <2>2, Zenon
<1>3. Rule!Evaluate(name).compliant
  BY DEF Rule!Evaluate, Rule!IsQuantumVulnerable
<1> QED
  BY <1>1, <1>2, <1>3

LEMMA SafeNames ==
  ASSUME NEW name \in Rule!PqcSafe
  PROVE  /\ Rule!AssessAsset(<<name>>).score = 0 /\ Rule!AssessAsset(<<name>>).level = "SAFE"
         /\ Rule!Attest(name).quantumSafe /\ Rule!Evaluate(name).compliant
<1>1. name[1] \in {"ML", "SLH", "AES", "ChaCha20", "SHA", "BLAKE3"}
  BY DEF Rule!PqcSafe
<1>2. name[1] \notin Rule!VulnerablePrefixes
  BY <1>1 DEF Rule!VulnerablePrefixes
<1> QED
  BY <1>2, SafeWords, PlainlySafe

Urgent == {"CRITICAL", "HIGH"}
OwnAsset == [algorithm : Algorithms \cup Rule!PqcSafe, harvest : BOOLEAN]
RuleInv == estate \in Seq(OwnAsset)

LEMMA RisksApart ==
  \A a : /\ a.algorithm \in Rule!PqcSafe => Rule!AssessCryptoAsset(a) = "SAFE"
         /\ Rule!AssessCryptoAsset(a) = "SAFE" => a.algorithm \in Rule!PqcSafe
BY DEF Rule!AssessCryptoAsset, Rule!PqcSafe, Rule!Vulnerable

(* What one recommendation that is followed does to the assets of each risk. *)
LEMMA OneAssetMoves ==
  ASSUME NEW n \in Nat, NEW old, NEW new, DOMAIN old = 1 .. n, DOMAIN new = 1 .. n,
         NEW i \in Rule!At(old, Urgent), \A j \in (1 .. n) \ {i} : new[j] = old[j],
         new[i].algorithm \in Rule!PqcSafe
  PROVE  /\ Rule!At(new, {"SAFE"}) = Rule!At(old, {"SAFE"}) \cup {i} /\ i \notin Rule!At(old, {"SAFE"})
         /\ Rule!At(new, Urgent) = Rule!At(old, Urgent) \ {i}
         /\ Rule!At(new, {"CRITICAL"}) \subseteq Rule!At(old, {"CRITICAL"})
<1>1. i \in 1 .. n /\ Rule!AssessCryptoAsset(old[i]) \in Urgent
  BY DEF Rule!At
<1>2. Rule!AssessCryptoAsset(new[i]) = "SAFE"
  BY RisksApart
<1>3. \A j \in (1 .. n) \ {i} : Rule!AssessCryptoAsset(new[j]) = Rule!AssessCryptoAsset(old[j])
  OBVIOUS
<1> QED
  BY <1>1, <1>2, <1>3 DEF Rule!At, Urgent

LEMMA AtIsFinite ==
  ASSUME NEW n \in Nat, NEW owned, DOMAIN owned = 1 .. n, NEW risks
  PROVE  /\ Rule!At(owned, risks) \in SUBSET (1 .. n) /\ IsFiniteSet(Rule!At(owned, risks))
         /\ Cardinality(Rule!At(owned, risks)) \in Nat /\ Cardinality(Rule!At(owned, risks)) <= n
<1>1. IsFiniteSet(1 .. n) /\ Cardinality(1 .. n) = n
  BY FS_Interval
<1>2. Rule!At(owned, risks) \in SUBSET (1 .. n)
  BY DEF Rule!At
<1> QED
  BY <1>1, <1>2, FS_Subset, FS_CardinalityType

(* As many recommendations as there are urgent assets, and of those.        *)
LEMMA RecommendedAreUrgent ==
  ASSUME NEW n \in Nat, NEW owned, DOMAIN owned = 1 .. n, Len(owned) = n
  PROVE  /\ Len(Rule!Recommendations(owned)) = Cardinality(Rule!At(owned, Urgent))
         /\ \A p \in DOMAIN Rule!Recommendations(owned) :
              LET r == Rule!Recommendations(owned)[p]
              IN  r.asset \in Rule!At(owned, Urgent) /\ r.targets = Rule!Targets(owned[r.asset].algorithm)
<1> DEFINE flagged == InOrderOf(Rule!At(owned, Urgent), n)
<1>1. /\ flagged \in Seq(1 .. n) /\ Len(flagged) = Cardinality(Rule!At(owned, Urgent))
      /\ {flagged[p] : p \in DOMAIN flagged} = Rule!At(owned, Urgent)
  BY AtIsFinite, InOrderIsWhole
<1>2. Rule!Recommendations(owned) =
        [p \in DOMAIN flagged |->
           [priority |-> p, asset |-> flagged[p], targets |-> Rule!Targets(owned[flagged[p]].algorithm),
            effort |-> IF flagged[p] \in Rule!At(owned, {"CRITICAL"}) THEN "HIGH" ELSE "MEDIUM"]]
  BY RuleInOrder DEF Rule!Recommendations, Urgent
<1> HIDE DEF flagged
<1>3. Len(flagged) \in Nat /\ DOMAIN flagged = 1 .. Len(flagged)
  BY <1>1
<1>4. Len(Rule!Recommendations(owned)) = Len(flagged)
  BY <1>2, <1>3
<1>5. \A p \in DOMAIN flagged : flagged[p] \in Rule!At(owned, Urgent)
  BY <1>1
<1> QED
  BY <1>1, <1>2, <1>4, <1>5

LEMMA Quotients ==
  ASSUME NEW n \in Nat \ {0}
  PROVE  \A a, b \in Nat : a <= b => a \div n \in Nat /\ b \div n \in Nat /\ a \div n <= b \div n
OBVIOUS

(* The report counts less that is urgent, and two more that is safe.         *)
LEMMA ReportPays ==
  ASSUME NEW n \in Nat \ {0}, NEW old, NEW new, DOMAIN old = 1 .. n, DOMAIN new = 1 .. n,
         Len(old) = n, Len(new) = n, old # <<>>, new # <<>>,
         NEW i \in Rule!At(old, Urgent), \A j \in (1 .. n) \ {i} : new[j] = old[j],
         new[i].algorithm \in Rule!PqcSafe
  PROVE  LET before == Rule!GenerateMigrationReport(old)
             after == Rule!GenerateMigrationReport(new)
         IN  /\ Len(after.recommendations) < Len(before.recommendations)
             /\ after.score >= before.score
             /\ (before.bsi => after.bsi) /\ (before.dora => after.dora) /\ (before.eidas => after.eidas)
<1> DEFINE safe(owned) == Cardinality(Rule!At(owned, {"SAFE"}))
           urgent(owned) == Cardinality(Rule!At(owned, Urgent))
           critical(owned) == Cardinality(Rule!At(owned, {"CRITICAL"}))
           percent(owned) == (100 * (safe(owned) + n - urgent(owned))) \div n
<1>1. /\ Rule!At(new, {"SAFE"}) = Rule!At(old, {"SAFE"}) \cup {i} /\ i \notin Rule!At(old, {"SAFE"})
      /\ Rule!At(new, Urgent) = Rule!At(old, Urgent) \ {i}
      /\ Rule!At(new, {"CRITICAL"}) \subseteq Rule!At(old, {"CRITICAL"})
  BY OneAssetMoves
<1>2. /\ safe(old) \in Nat /\ urgent(old) \in Nat /\ critical(old) \in Nat /\ urgent(old) <= n
      /\ safe(new) \in Nat /\ urgent(new) \in Nat /\ critical(new) \in Nat
  BY AtIsFinite
<1>3. safe(new) = safe(old) + 1
  BY <1>1, AtIsFinite, FS_AddElement
<1>4. urgent(new) = urgent(old) - 1
  <2> DEFINE S == Rule!At(old, Urgent)
  <2>1. IsFiniteSet(S) /\ i \in S
    BY AtIsFinite
  <2> HIDE DEF S
  <2>2. Cardinality(S \ {i}) = Cardinality(S) - 1
    BY <2>1, FS_RemoveElement
  <2> QED
    BY <1>1, <2>2, Zenon DEF S
<1>5. critical(old) = 0 => critical(new) = 0
  BY <1>1, AtIsFinite, FS_EmptySet
<1>6. /\ Rule!ReadinessScore(old) = percent(old) /\ Rule!ReadinessScore(new) = percent(new)
  <2>1. \A owned : owned # <<>> =>
          Rule!ReadinessScore(owned) =
            (100 * (Rule!Cardinality(Rule!At(owned, {"SAFE"}))
                    + Len(owned) - Rule!Cardinality(Rule!At(owned, Urgent)))) \div Len(owned)
    BY Zenon DEF Rule!ReadinessScore, Urgent
  <2>2. \A owned : owned # <<>> /\ Len(owned) = n => Rule!ReadinessScore(owned) = percent(owned)
    BY <2>1, RuleCardinality, Zenon
  <2> QED
    BY <2>2
<1>7. /\ Rule!GenerateMigrationReport(old).recommendations = Rule!Recommendations(old)
      /\ Rule!GenerateMigrationReport(new).recommendations = Rule!Recommendations(new)
      /\ Rule!GenerateMigrationReport(old).score = percent(old)
      /\ Rule!GenerateMigrationReport(new).score = percent(new)
  BY <1>6 DEF Rule!GenerateMigrationReport
<1>8. /\ Rule!GenerateMigrationReport(old).bsi = (critical(old) = 0 /\ percent(old) >= 80)
      /\ Rule!GenerateMigrationReport(new).bsi = (critical(new) = 0 /\ percent(new) >= 80)
      /\ Rule!GenerateMigrationReport(old).dora = (critical(old) = 0)
      /\ Rule!GenerateMigrationReport(new).dora = (critical(new) = 0)
      /\ Rule!GenerateMigrationReport(old).eidas = (percent(old) >= 90)
      /\ Rule!GenerateMigrationReport(new).eidas = (percent(new) >= 90)
  BY <1>6, RuleCardinality, Zenon DEF Rule!GenerateMigrationReport
<1>9. /\ Len(Rule!Recommendations(old)) = urgent(old) /\ Len(Rule!Recommendations(new)) = urgent(new)
  BY RecommendedAreUrgent
<1> HIDE DEF safe, urgent, critical
<1>10. percent(old) \in Nat /\ percent(new) \in Nat /\ percent(old) <= percent(new)
  <2> DEFINE a == 100 * (safe(old) + n - urgent(old))
             b == 100 * (safe(new) + n - urgent(new))
  <2>1. a \in Nat /\ b \in Nat /\ a <= b
    <3> DEFINE x == safe(old) + n - urgent(old)
               y == safe(new) + n - urgent(new)
    <3>1. x \in Nat /\ y \in Nat /\ x <= y
      BY <1>2, <1>3, <1>4
    <3> HIDE DEF x, y
    <3>2. 100 * x \in Nat /\ 100 * y \in Nat /\ 100 * x <= 100 * y
      BY <3>1
    <3> QED
      BY <3>2 DEF x, y
  <2> HIDE DEF a, b
  <2>2. a \div n \in Nat /\ b \div n \in Nat /\ a \div n <= b \div n
    BY <2>1, Quotients
  <2> QED
    BY <2>2 DEF a, b
<1> HIDE DEF percent
<1>11. /\ percent(old) >= 80 => percent(new) >= 80
       /\ percent(old) >= 90 => percent(new) >= 90
  BY <1>10
<1>12. urgent(new) < urgent(old)
  BY <1>2, <1>4
<1>13. percent(new) >= percent(old)
  BY <1>10
<1>14. /\ Len(Rule!GenerateMigrationReport(new).recommendations)
            < Len(Rule!GenerateMigrationReport(old).recommendations)
       /\ Rule!GenerateMigrationReport(new).score >= Rule!GenerateMigrationReport(old).score
  BY <1>7, <1>9, <1>12, <1>13
<1>15. /\ Rule!GenerateMigrationReport(old).bsi => Rule!GenerateMigrationReport(new).bsi
       /\ Rule!GenerateMigrationReport(old).dora => Rule!GenerateMigrationReport(new).dora
       /\ Rule!GenerateMigrationReport(old).eidas => Rule!GenerateMigrationReport(new).eidas
  BY <1>5, <1>8, <1>11, Zenon
<1> QED
  BY <1>14, <1>15, Zenon

(* The scanner's roadmap: one score becomes 0, the others stay.              *)
LEMMA RoadmapPays ==
  ASSUME NEW n \in Nat \ {0}, NEW old, NEW new, DOMAIN old = 1 .. n, DOMAIN new = 1 .. n,
         NEW i \in 1 .. n, \A j \in (1 .. n) \ {i} : new[j] = old[j],
         new[i].algorithm \in Rule!PqcSafe
  PROVE  Rule!Roadmap(new).overall >= Rule!Roadmap(old).overall
<1> DEFINE a == [j \in 1 .. n |-> Rule!AssessAsset(<<new[j].algorithm>>)]
           b == [j \in 1 .. n |-> Rule!AssessAsset(<<old[j].algorithm>>)]
<1>1. \A j \in 1 .. n : a[j].score \in Nat /\ b[j].score \in Nat
  BY ScoreOfName
<1>2. \A j \in 1 .. n : a[j].score <= b[j].score
  <2> SUFFICES ASSUME NEW j \in 1 .. n PROVE a[j].score <= b[j].score
    OBVIOUS
  <2>1. CASE j = i
    <3>1. a[j].score = 0
      BY <2>1, SafeNames
    <3> HIDE DEF a, b
    <3> QED
      BY <1>1, <3>1
  <2>2. CASE j # i
    <3>1. a[j].score = b[j].score
      BY <2>2
    <3> HIDE DEF a, b
    <3> QED
      BY <1>1, <3>1
  <2> QED
    BY <2>1, <2>2
<1>3. DOMAIN a = 1 .. n /\ DOMAIN b = 1 .. n /\ Len(a) = n /\ Len(b) = n /\ a # <<>> /\ b # <<>>
  OBVIOUS
<1>4. Rule!Roadmap(new) = Rule!GetMigrationRoadmap(a) /\ Rule!Roadmap(old) = Rule!GetMigrationRoadmap(b)
  BY DEF Rule!Roadmap
<1> HIDE DEF a, b
<1>5. SumOf(a) \in Nat /\ SumOf(b) \in Nat /\ SumOf(a) <= SumOf(b)
  BY <1>1, <1>2, <1>3, SumMonotone
<1>6. /\ Rule!Roadmap(new).overall = 100 - (SumOf(a) \div n)
      /\ Rule!Roadmap(old).overall = 100 - (SumOf(b) \div n)
  BY <1>3, <1>4, RuleSum
<1>7. SumOf(a) \div n \in Nat /\ SumOf(b) \div n \in Nat /\ SumOf(a) \div n <= SumOf(b) \div n
  BY <1>5, Quotients
<1> DEFINE x == SumOf(a) \div n
           y == SumOf(b) \div n
<1> HIDE DEF x, y
<1>8. x \in Nat /\ y \in Nat /\ x <= y /\ Rule!Roadmap(new).overall = 100 - x /\ Rule!Roadmap(old).overall = 100 - y
  BY <1>6, <1>7 DEF x, y
<1> QED
  BY <1>8

(* The engine finds a violation where it found one before.                   *)
LEMMA EnginePays ==
  ASSUME NEW n \in Nat, NEW old, NEW new, DOMAIN old = 1 .. n, DOMAIN new = 1 .. n,
         NEW i \in 1 .. n, \A j \in (1 .. n) \ {i} : new[j] = old[j],
         new[i].algorithm \in Rule!PqcSafe
  PROVE  Rule!Violating(new) \subseteq Rule!Violating(old)
<1>1. Rule!Evaluate(new[i].algorithm).compliant
  BY SafeNames
<1> QED
  BY <1>1, Zenon DEF Rule!Violating

LEMMA StepHelps ==
  ASSUME NEW n \in Nat \ {0}, NEW old, NEW new, DOMAIN old = 1 .. n, DOMAIN new = 1 .. n,
         Len(old) = n, Len(new) = n, old # <<>>, new # <<>>,
         NEW i \in Rule!At(old, Urgent), \A j \in (1 .. n) \ {i} : new[j] = old[j],
         new[i].algorithm \in Rule!PqcSafe
  PROVE  Rule!MigrationStepHelps(old, new)
<1>1. i \in 1 .. n
  BY DEF Rule!At
<1> QED
  BY <1>1, ReportPays, RoadmapPays, EnginePays, Zenon DEF Rule!MigrationStepHelps

RuleHolds == world = "rules" => RuleInv

(* The one step that changes an asset, and what it changes.                  *)
LEMMA MigrateMoves ==
  ASSUME RuleInv, NEW i, NEW t, Rule!Migrate(i, t)
  PROVE  /\ i \in Rule!At(estate, Urgent) /\ t \in Rule!PqcSafe
         /\ estate' = [estate EXCEPT ![i].algorithm = t]
<1> DEFINE n == Len(estate)
<1>1. n \in Nat /\ DOMAIN estate = 1 .. n
  BY DEF RuleInv
<1>2. PICK p \in DOMAIN Rule!Recommendations(estate) :
        LET r == Rule!Recommendations(estate)[p] IN r.asset = i /\ t \in r.targets
  BY DEF Rule!Migrate
<1>3. estate' = [estate EXCEPT ![i].algorithm = t]
  BY DEF Rule!Migrate
<1> DEFINE r == Rule!Recommendations(estate)[p]
<1>4. r.asset \in Rule!At(estate, Urgent) /\ r.targets = Rule!Targets(estate[r.asset].algorithm)
  <2> HIDE DEF n
  <2> QED
    BY <1>1, RecommendedAreUrgent DEF n
<1> QED
  BY <1>2, <1>3, <1>4, TargetsAreSafe

LEMMA RuleSteps ==
  /\ world = "rules" /\ Init => RuleInv
  /\ world = "rules" /\ RuleInv /\ [Next]_serviceVars => RuleInv'
<1>1. world = "rules" /\ Init => RuleInv
  BY DEF Init, RuleInv, Rule!Init
<1>2. ASSUME world = "rules", RuleInv, [Next]_serviceVars PROVE RuleInv'
  <2>1. CASE Rule!Next
    <3>1. ASSUME NEW a \in Algorithms, NEW harvest \in BOOLEAN, Rule!Discover(a, harvest) PROVE RuleInv'
      <4>1. [algorithm |-> a, harvest |-> harvest] \in OwnAsset
        BY DEF OwnAsset
      <4> QED
        BY <1>2, <3>1, <4>1 DEF RuleInv, Rule!Discover
    <3>2. ASSUME NEW i, NEW t, Rule!Migrate(i, t) PROVE RuleInv'
      <4>1. i \in DOMAIN estate /\ t \in Rule!PqcSafe /\ estate' = [estate EXCEPT ![i].algorithm = t]
        BY <1>2, <3>2, MigrateMoves DEF Rule!At
      <4>2. [estate[i] EXCEPT !.algorithm = t] \in OwnAsset
        <5>1. estate[i] \in OwnAsset
          BY <1>2, <4>1 DEF RuleInv
        <5> QED
          BY <4>1, <5>1 DEF OwnAsset
      <4> QED
        BY <1>2, <4>1, <4>2 DEF RuleInv
    <3>3. ASSUME NEW hsmSeed, NEW hsmClient, Rule!GenerateKeyPair(hsmSeed, hsmClient) PROVE RuleInv'
      BY <1>2, <3>3 DEF RuleInv, Rule!GenerateKeyPair
    <3> QED
      BY <2>1, <3>1, <3>2, <3>3 DEF Rule!Next
  <2>2. CASE UNCHANGED serviceVars
    BY <1>2, <2>2 DEF RuleInv, serviceVars, ruleVars
  <2> QED
    BY <1>2, <2>1, <2>2 DEF Next
<1> QED
  BY <1>1, <1>2

RuleStep == world = "rules" /\ estate' # estate /\ Len(estate') = Len(estate)
              => Rule!MigrationStepHelps(estate, estate')

(* An asset changes by a recommendation that is followed, and that pays.     *)
LEMMA RuleStepHelps == RuleHolds /\ [Next]_serviceVars => RuleStep
<1> SUFFICES ASSUME RuleInv, world = "rules", estate' # estate, Len(estate') = Len(estate), [Next]_serviceVars
             PROVE  Rule!MigrationStepHelps(estate, estate')
  BY DEF RuleHolds, RuleStep
<1> DEFINE n == Len(estate)
<1>1. n \in Nat /\ DOMAIN estate = 1 .. n
  BY DEF RuleInv
<1>2. Rule!Next
  BY DEF Next, serviceVars, ruleVars
<1>3. ASSUME NEW a, NEW harvest, Rule!Discover(a, harvest) PROVE FALSE
  BY <1>3 DEF RuleInv, Rule!Discover
<1>4. ASSUME NEW i, NEW t, Rule!Migrate(i, t) PROVE Rule!MigrationStepHelps(estate, estate')
  <2>1. i \in Rule!At(estate, Urgent) /\ t \in Rule!PqcSafe /\ estate' = [estate EXCEPT ![i].algorithm = t]
    BY <1>4, MigrateMoves
  <2>2. i \in 1 .. n
    BY <1>1, <2>1 DEF Rule!At
  <2>3. /\ n \in Nat \ {0} /\ DOMAIN estate' = 1 .. n /\ Len(estate') = n
        /\ \A j \in (1 .. n) \ {i} : estate'[j] = estate[j]
    BY <1>1, <2>1, <2>2
  <2>4. estate'[i].algorithm = t
    <3>1. estate[i] \in OwnAsset
      BY <2>2 DEF RuleInv
    <3> QED
      BY <1>1, <2>1, <2>2, <3>1 DEF OwnAsset
  <2>5. estate # <<>> /\ estate' # <<>>
    BY <1>1, <2>3
  <2> HIDE DEF n
  <2>6. PICK new : new = estate'
    OBVIOUS
  <2>7. /\ DOMAIN new = 1 .. n /\ Len(new) = n /\ new # <<>> /\ new[i].algorithm \in Rule!PqcSafe
        /\ \A j \in (1 .. n) \ {i} : new[j] = estate[j]
    BY <2>1, <2>3, <2>4, <2>5, <2>6
  <2>8. Len(estate) = n
    BY DEF n
  <2>9. Rule!MigrationStepHelps(estate, new)
    BY <1>1, <2>1, <2>3, <2>5, <2>7, <2>8, StepHelps
  <2> QED
    BY <2>6, <2>9
<1>5. ASSUME NEW hsmSeed, NEW hsmClient, Rule!GenerateKeyPair(hsmSeed, hsmClient) PROVE FALSE
  BY <1>5 DEF Rule!GenerateKeyPair
<1> QED
  BY <1>2, <1>3, <1>4, <1>5 DEF Rule!Next

(* Following a recommendation pays before every judge.                       *)
THEOREM MigrationsHelp == Spec => MigrationHelps
<1>1. Init => RuleHolds
  BY RuleSteps DEF RuleHolds
<1>2. RuleHolds /\ [Next]_serviceVars => RuleHolds'
  BY WorldStays, RuleSteps DEF RuleHolds
<1>3. RuleHolds /\ [Next]_serviceVars
        => [world = "rules" /\ estate' # estate /\ Len(estate') = Len(estate)
              => Rule!MigrationStepHelps(estate, estate')]_serviceVars
  BY RuleStepHelps DEF RuleStep
<1> QED
  BY <1>1, <1>2, <1>3, PTL DEF Spec, MigrationHelps

(* A name without a classical word is plainly safe.                          *)
LEMMA NoClassicalWord ==
  ASSUME NEW name \in Seq(STRING), name # <<>>, \A k \in DOMAIN name : ~Rule!Classical(name, k)
  PROVE  /\ \A family \in Families : ~Rule!Mentions(name, family)
         /\ name[1] \notin Rule!VulnerablePrefixes
<1>1. 1 \in DOMAIN name
  OBVIOUS
<1>2. \A k \in DOMAIN name : name[k] \notin {"RSA", "ECDSA", "ECDH", "DH", "ELGAMAL"}
  BY Zenon DEF Rule!Classical, Rule!VulnerablePrefixes
<1>3. \A k \in DOMAIN name, family \in Families : ~Rule!Holds(name[k], family)
  BY <1>2 DEF Rule!Holds, Families
<1>4. name[1] # "DSA"
  BY <1>1 DEF Rule!Classical
<1>5. name[1] \notin Rule!VulnerablePrefixes
  BY <1>1, <1>2, <1>4 DEF Rule!VulnerablePrefixes
<1> QED
  BY <1>3, <1>5, Zenon DEF Rule!Mentions

(* What one judge calls safe all of them do.                                 *)
THEOREM SafeForOne == Spec => []SafeForOneIsSafeForAll
<1>1. Init => RuleHolds
  BY RuleSteps DEF RuleHolds
<1>2. RuleHolds /\ [Next]_serviceVars => RuleHolds'
  BY WorldStays, RuleSteps DEF RuleHolds
<1>3. RuleHolds => SafeForOneIsSafeForAll
  <2> SUFFICES ASSUME RuleInv, NEW i \in DOMAIN estate,
                      \/ i \in Rule!At(estate, {"SAFE"})
                      \/ \A k \in DOMAIN estate[i].algorithm : ~Rule!Classical(estate[i].algorithm, k)
               PROVE  /\ Rule!AssessAsset(<<estate[i].algorithm>>).level = "SAFE"
                      /\ Rule!Attest(estate[i].algorithm).quantumSafe
                      /\ Rule!Evaluate(estate[i].algorithm).compliant
    BY Zenon DEF RuleHolds, SafeForOneIsSafeForAll, Rule!SafeForOneIsSafeForAll
  <2> DEFINE name == estate[i].algorithm
  <2>1. estate[i].algorithm \in Algorithms \cup Rule!PqcSafe
    <3>1. estate[i] \in OwnAsset
      BY DEF RuleInv
    <3> QED
      BY <3>1 DEF OwnAsset
  <2>2. CASE name \in Rule!PqcSafe
    BY <2>2, SafeNames
  <2>3. CASE name \notin Rule!PqcSafe
    <3>1. i \notin Rule!At(estate, {"SAFE"})
      BY <2>3, RisksApart DEF Rule!At
    <3>2. name \in Seq(STRING) /\ name # <<>> /\ \A k \in DOMAIN name : ~Rule!Classical(name, k)
      BY <2>1, <2>3, <3>1, NamesHaveWords
    <3> HIDE DEF name
    <3>3. /\ \A family \in Families : ~Rule!Mentions(name, family)
          /\ name[1] \notin Rule!VulnerablePrefixes
      BY <3>2, NoClassicalWord
    <3>4. /\ Rule!AssessAsset(<<name>>).level = "SAFE"
          /\ Rule!Attest(name).quantumSafe /\ Rule!Evaluate(name).compliant
      BY <3>3, PlainlySafe
    <3> QED
      BY <3>4 DEF name
  <2> QED
    BY <2>2, <2>3
<1> QED
  BY <1>1, <1>2, <1>3, PTL DEF Spec
=============================================================================
