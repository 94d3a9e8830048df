------------------------------- MODULE ApiKeys -------------------------------
(***************************************************************************)
(* API keys: creation, revocation, update, and the middleware that admits  *)
(* a request with a key.  No route installs that middleware; it is         *)
(* modelled as it would run.  It reads the row, decides on the expiry it   *)
(* read, and writes back in a second statement.                            *)
(***************************************************************************)
EXTENDS Naturals

CONSTANTS Keys, KeyRoles, Callers, NoKey

VARIABLES
  keyUp,   \* the enterprise database: "absent", "up" or "down"
  keys,    \* keys[k]: NoKey, or status, role, whether its time is over and whether it was used
  call     \* call[c]: what the middleware has read for a request

keyVars == <<keyUp, keys, call>>
NoCall == [at |-> "idle"]
\* The rows of the table.
Rows == [status : {"active", "revoked", "expired"}, over : BOOLEAN, used : BOOLEAN,
         role : KeyRoles \cup {"viewer"}]

Init ==
  /\ keyUp \in {"absent", "up"}
  /\ keys = [k \in Keys |-> NoKey]
  /\ call = [c \in Callers |-> NoCall]

\* "" stands for a request that names no role.
CreateKey(k, role) ==
  /\ keyUp = "up" /\ keys[k] = NoKey
  /\ keys' = [keys EXCEPT ![k] = [status |-> "active", over |-> FALSE, used |-> FALSE,
                                  role |-> IF role = "" THEN "viewer" ELSE role]]
  /\ UNCHANGED <<keyUp, call>>

RevokeKey(k) ==
  /\ keyUp = "up" /\ keys[k] # NoKey
  /\ keys' = [keys EXCEPT ![k].status = "revoked"]
  /\ UNCHANGED <<keyUp, call>>

\* Fault: an update makes the key active again.
UpdateKeyRevives(k, role) ==
  /\ keyUp = "up" /\ keys[k] # NoKey
  /\ keys' = [keys EXCEPT ![k].status = "active"]
  /\ UNCHANGED <<keyUp, call>>
\* An empty role keeps the one there is; the status is never touched.
UpdateKey(k, role) ==
  /\ keyUp = "up" /\ keys[k] # NoKey
  /\ keys' = [keys EXCEPT ![k].role = IF role = "" THEN @ ELSE role]
  /\ UNCHANGED <<keyUp, call>>

PassExpiry(k) ==
  /\ keys[k] # NoKey /\ ~keys[k].over
  /\ keys' = [keys EXCEPT ![k].over = TRUE]
  /\ UNCHANGED <<keyUp, call>>

\* Only an active row is found; everything else is refused with 401 (503
\* without a database).
SelectKey(c, k) ==
  /\ call[c] = NoCall
  /\ keyUp = "up" /\ keys[k] # NoKey /\ keys[k].status = "active"
  /\ call' = [call EXCEPT ![c] = [at |-> "decide", key |-> k, role |-> keys[k].role]]
  /\ UNCHANGED <<keyUp, keys>>

\* Both writes ignore their errors and the status the row has by now: a key
\* revoked meanwhile ends up as expired.
RejectExpired(c) ==
  /\ call[c].at = "decide" /\ keys[call[c].key].over
  /\ keys' = IF keyUp = "up" THEN [keys EXCEPT ![call[c].key].status = "expired"] ELSE keys
  /\ call' = [call EXCEPT ![c] = NoCall]
  /\ UNCHANGED keyUp
Admit(c) ==
  /\ call[c].at = "decide" /\ ~keys[call[c].key].over
  /\ keys' = IF keyUp = "up" THEN [keys EXCEPT ![call[c].key].used = TRUE] ELSE keys
  /\ call' = [call EXCEPT ![c] = [at |-> "admitted", key |-> @.key, role |-> @.role]]
  /\ UNCHANGED keyUp
Respond(c) ==
  /\ call[c].at = "admitted"
  /\ call' = [call EXCEPT ![c] = NoCall]
  /\ UNCHANGED <<keyUp, keys>>

KeyOutage ==
  /\ keyUp # "absent" /\ keyUp' = IF keyUp = "up" THEN "down" ELSE "up"
  /\ UNCHANGED <<keys, call>>

Next ==
  \/ \E k \in Keys : RevokeKey(k) \/ PassExpiry(k)
                     \/ (\E role \in KeyRoles \cup {""} : CreateKey(k, role) \/ UpdateKey(k, role))
                     \/ (\E c \in Callers : SelectKey(c, k))
  \/ \E c \in Callers : RejectExpired(c) \/ Admit(c) \/ Respond(c)
  \/ KeyOutage

Spec == Init /\ [][Next]_keyVars

(* However revocation, expiry, updates and requests interleave, and although *)
(* the middleware may write "expired" over "revoked", a key that is no       *)
(* longer active never becomes active again.                                 *)
NothingRevives ==
  \A k \in Keys :
     keys[k] # NoKey /\ keys[k].status # "active" => keys'[k].status # "active"
InactiveStaysInactive == [][NothingRevives]_keyVars
=============================================================================
