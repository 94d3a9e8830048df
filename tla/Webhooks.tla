------------------------------ MODULE Webhooks ------------------------------
(***************************************************************************)
(* Webhook subscriptions and the test delivery: the row is read, the       *)
(* remote end is called, which may take the client's ten seconds, and the  *)
(* outcome is inserted into the delivery table, an error of that insert    *)
(* being ignored.  A webhook may be deleted meanwhile; its deliveries go   *)
(* with it.  DispatchEvent has no caller.                                  *)
(***************************************************************************)
EXTENDS Naturals, Sequences, FiniteSets

CONSTANTS Hooks, Codes, Testers, MaxPosts   \* Codes: what a remote end answers, 0 for no answer

VARIABLES
  hookUp,     \* the enterprise database: "absent", "up" or "down"
  hooks,      \* the webhooks there are
  deliveries, \* how many rows of the delivery table are of a webhook, an answer and a status
  posts,      \* every call a remote end has got: the webhook and its answer
  test,       \* test[c]: a test request's place
  said        \* said[c]: the answer of its last test

hookVars == <<hookUp, hooks, deliveries, posts, test, said>>

NotTesting == [at |-> "idle"]
Outcomes == Hooks \X Codes \X {"delivered", "failed"}

Init ==
  /\ hookUp \in {"absent", "up"} /\ hooks = {}
  /\ deliveries = [o \in Outcomes |-> 0] /\ posts = <<>>
  /\ test = [c \in Testers |-> NotTesting]
  /\ said = [c \in Testers |-> "nothing"]

-----------------------------------------------------------------------------
\* Refused without a database (503), on a request without name, url or events
\* (400), and by the database if the tenant is not a row of it (500).
CreateWebhook(h) ==
  /\ hookUp = "up" /\ h \notin hooks
  /\ hooks' = hooks \cup {h}
  /\ UNCHANGED <<hookUp, deliveries, posts, test, said>>

\* The new events are text and the column is JSONB: the statement is refused
\* whatever the request says, and nothing changes.
UpdateWebhook == UNCHANGED hookVars

DeleteWebhook(h) ==
  /\ hookUp = "up" /\ h \in hooks
  /\ hooks' = hooks \ {h}
  /\ deliveries' = [o \in Outcomes |-> IF o[1] = h THEN 0 ELSE deliveries[o]]
  /\ UNCHANGED <<hookUp, posts, test, said>>

\* Any error of the query, an outage too, is a webhook that was not found.
TestRead(c, h) ==
  /\ test[c] = NotTesting /\ hookUp # "absent" /\ Len(posts) < MaxPosts
  /\ IF hookUp = "up" /\ h \in hooks
     THEN test' = [test EXCEPT ![c] = [at |-> "post", hook |-> h]] /\ UNCHANGED said
     ELSE said' = [said EXCEPT ![c] = "not found"] /\ UNCHANGED test
  /\ UNCHANGED <<hookUp, hooks, deliveries, posts>>

Post(c) ==
  /\ test[c].at = "post" /\ Len(posts) < MaxPosts
  /\ \E code \in Codes :
       /\ posts' = Append(posts, [hook |-> test[c].hook, code |-> code])
       /\ test' = [test EXCEPT ![c] = [at |-> "record", hook |-> @.hook, code |-> code]]
  /\ UNCHANGED <<hookUp, hooks, deliveries, said>>

\* Fault: the boundary between success and failure.
DeliveryStatusAbove(code) == IF code = 0 \/ code > 400 THEN "failed" ELSE "delivered"
DeliveryStatus(code) == IF code = 0 \/ code >= 400 THEN "failed" ELSE "delivered"
RecordDelivery(h, code) ==
  IF hookUp = "up" /\ h \in hooks
  THEN deliveries' = [deliveries EXCEPT ![<<h, code, DeliveryStatus(code)>>] = @ + 1]
  ELSE UNCHANGED deliveries

\* An answer of 400 or more is recorded as failed and answered as delivered.
Deliver(c) ==
  /\ test[c].at = "record"
  /\ RecordDelivery(test[c].hook, test[c].code)
  /\ said' = [said EXCEPT ![c] = IF test[c].code = 0 THEN "failed" ELSE "delivered"]
  /\ test' = [test EXCEPT ![c] = NotTesting]
  /\ UNCHANGED <<hookUp, hooks, posts>>

HookOutage ==
  /\ hookUp # "absent" /\ hookUp' = IF hookUp = "up" THEN "down" ELSE "up"
  /\ UNCHANGED <<hooks, deliveries, posts, test, said>>

Next ==
  \/ \E h \in Hooks : CreateWebhook(h) \/ DeleteWebhook(h) \/ (\E c \in Testers : TestRead(c, h))
  \/ \E c \in Testers : Post(c) \/ Deliver(c)
  \/ UpdateWebhook
  \/ HookOutage

Spec == Init /\ [][Next]_hookVars

\* The calls of a webhook that were answered so.
Answers(h, code) == {i \in DOMAIN posts : posts[i] = [hook |-> h, code |-> code]}

(* The table never says more than happened: each record is of a webhook that *)
(* still exists, no outcome is recorded more often than a remote end gave    *)
(* it, and delivered is exactly what was answered and not refused.  Some may *)
(* be missing: of deleted webhooks, and of tests during an outage.           *)
DeliveriesTrue ==
  /\ \A o \in Outcomes : deliveries[o] > 0 =>
        o[1] \in hooks /\ (o[3] = "delivered" <=> o[2] \in 1..399)
  /\ \A h \in Hooks, code \in Codes :
        deliveries[<<h, code, "delivered">>] + deliveries[<<h, code, "failed">>]
          <= Cardinality(Answers(h, code))
=============================================================================
