--------------------------- MODULE Accounts_proofs ---------------------------
(* Proofs about Accounts, for any users, clients and numbers of tokens. *)
EXTENDS Accounts, FiniteSetTheorems, TLAPS

NoEdition == ""      \* of a refresh token

(* What a token inherits from the login it descends from: the user and role, *)
(* the edition or none, and only what role and edition grant.                *)
Inherits(t) ==
  LET root == tokens[t].root
  IN  /\ root \in DOMAIN tokens /\ tokens[root].use = "access"
      /\ tokens[t].user = tokens[root].user /\ tokens[t].role = tokens[root].role
      /\ tokens[t].edition = tokens[root].edition \/ tokens[t].edition = NoEdition
      /\ tokens[t].use = "access" => tokens[t].perms = Permissions(tokens[t].role, tokens[t].edition)

(* Tokens are only added, and a refresh under way is of one of them. *)
Issued == (\E S : tokens \in Seq(S)) /\ \A t \in DOMAIN tokens : Inherits(t)
Underway ==
  /\ DOMAIN request = Clients
  /\ \A c \in Clients : request[c].op = "refresh" => request[c].token \in DOMAIN tokens
AccountsInv == Issued /\ Underway

-----------------------------------------------------------------------------
(* Without an edition a token grants no more than with one. *)
LEMMA NoEditionGrantsLess ==
  \A role, edition : Permissions(role, NoEdition) \subseteq Permissions(role, edition)
<1>1. NoEdition # "enterprise"
  BY Zenon DEF NoEdition
<1>2. \A role : Permissions(role, NoEdition) = Base(role)
  BY <1>1, Zenon DEF Permissions
<1>3. \A role, edition : Base(role) \subseteq Permissions(role, edition)
  BY Zenon DEF Permissions
<1> QED
  BY <1>2, <1>3, Zenon

(* The fields of a refresh token. *)
LEMMA RefreshFields ==
  ASSUME NEW u, NEW root, NEW parent
  PROVE  LET x == RefreshToken(u, root, parent)
         IN  x.use = "refresh" /\ x.user = u.id /\ x.role = u.role /\ x.edition = NoEdition
             /\ x.root = root
BY Zenon DEF RefreshToken, NoEdition

(* A token that was there inherits what it did when others are added. *)
LEMMA OthersStay ==
  ASSUME NEW old, NEW S, old \in Seq(S), tokens = old, NEW T, tokens' \in Seq(T),
         Len(old) <= Len(tokens'), \A i \in 1 .. Len(old) : tokens'[i] = old[i],
         NEW t \in DOMAIN old, Inherits(t)
  PROVE  Inherits(t)'
BY DEF Inherits

(* Tokens are issued for a login, or for the user and the edition of the     *)
(* token they are exchanged for.                                             *)
LEMMA IssueStep ==
  ASSUME Issued, NEW u, NEW edition, NEW parent, Issue(u, edition, parent),
         parent # 0 => /\ parent \in DOMAIN tokens /\ edition = tokens[parent].edition
                       /\ u.id = tokens[parent].user /\ u.role = tokens[parent].role
  PROVE  Issued' /\ \A t \in DOMAIN tokens : t \in DOMAIN tokens'
<1>1. PICK S : tokens \in Seq(S)
  BY DEF Issued
<1>2. PICK n \in Nat : n = Len(tokens)
  BY <1>1
<1> DEFINE root == IF parent = 0 THEN n + 1 ELSE tokens[parent].root
           a == AccessToken(u, edition, root, parent)
           r == RefreshToken(u, root, parent)
           T == S \cup {a, r}
<1>3. /\ n \in Nat /\ Len(tokens) = n /\ DOMAIN tokens = 1 .. n
      /\ tokens' = tokens \o <<a, r>>
  <2>1. tokens' = tokens \o <<a, r>>
    BY <1>2, Zenon DEF Issue
  <2> QED
    BY <1>1, <1>2, <2>1
<1>4. /\ a.use = "access" /\ a.user = u.id /\ a.role = u.role /\ a.edition = edition
      /\ a.perms = Permissions(u.role, edition) /\ a.root = root
  BY DEF AccessToken
<1>5. /\ r.use = "refresh" /\ r.user = u.id /\ r.role = u.role /\ r.edition = NoEdition
      /\ r.root = root
  BY RefreshFields
<1>6. parent # 0 =>
        /\ root \in 1 .. n /\ tokens[root].use = "access"
        /\ u.id = tokens[root].user /\ u.role = tokens[root].role
        /\ edition = tokens[root].edition \/ edition = NoEdition
  BY <1>3 DEF Issued, Inherits
<1>7. parent = 0 => root = n + 1
  OBVIOUS
<1> HIDE DEF a, r, root
<1>8. /\ tokens' \in Seq(T) /\ Len(tokens') = n + 2 /\ DOMAIN tokens' = 1 .. n + 2
      /\ \A i \in 1 .. n : tokens'[i] = tokens[i]
      /\ tokens'[n + 1] = a /\ tokens'[n + 2] = r
  <2>1. tokens \in Seq(T) /\ <<a, r>> \in Seq(T)
    BY <1>1
  <2> HIDE DEF T
  <2> QED
    BY <1>3, <2>1
<1> HIDE DEF T
<1>9. ASSUME NEW t \in 1 .. n PROVE Inherits(t)'
  <2>1. Inherits(t)
    BY <1>3 DEF Issued
  <2> QED
    BY <1>1, <1>3, <1>8, <2>1, OthersStay
<1>10. /\ root \in DOMAIN tokens' /\ tokens'[root].use = "access"
       /\ tokens'[root].user = u.id /\ tokens'[root].role = u.role
       /\ edition = tokens'[root].edition \/ edition = NoEdition
  <2>1. CASE parent = 0
    BY <1>3, <1>4, <1>7, <1>8, <2>1
  <2>2. CASE parent # 0
    BY <1>3, <1>6, <1>8, <2>2
  <2> QED
    BY <2>1, <2>2
<1>11. Inherits(n + 1)'
  BY <1>4, <1>8, <1>10 DEF Inherits
<1>12. Inherits(n + 2)'
  BY <1>5, <1>8, <1>10 DEF Inherits
<1>13. \A t \in DOMAIN tokens' : t \in 1 .. n \/ t = n + 1 \/ t = n + 2
  BY <1>3, <1>8
<1>14. \A t \in DOMAIN tokens' : Inherits(t)'
  <2> SUFFICES ASSUME NEW t \in DOMAIN tokens' PROVE Inherits(t)'
    OBVIOUS
  <2>1. CASE t \in 1 .. n
    BY <1>9, <2>1
  <2>2. CASE t = n + 1
    BY <1>11, <2>2
  <2>3. CASE t = n + 2
    BY <1>12, <2>3
  <2> QED
    BY <1>13, <2>1, <2>2, <2>3
<1> QED
  BY <1>3, <1>8, <1>14 DEF Issued

(* A token for the demo is the root of its own session. *)
LEMMA DemoStep ==
  ASSUME Issued, NEW requested, DemoAccess(requested)
  PROVE  Issued' /\ \A t \in DOMAIN tokens : t \in DOMAIN tokens'
<1>1. PICK S : tokens \in Seq(S)
  BY DEF Issued
<1>2. PICK n \in Nat : n = Len(tokens)
  BY <1>1
<1> DEFINE edition == IF requested = "enterprise" THEN "enterprise" ELSE "oss"
           x == [AccessToken([id |-> 0, role |-> "admin"], edition, n + 1, 0) EXCEPT !.secret = "demo"]
           T == S \cup {x}
<1>9. tokens' = Append(tokens, x)
  BY <1>2, Zenon DEF DemoAccess
<1> HIDE DEF edition
<1>3. /\ x.use = "access" /\ x.root = n + 1 /\ x.perms = Permissions(x.role, x.edition)
  BY DEF AccessToken
<1> HIDE DEF x
<1>4. n \in Nat /\ Len(tokens) = n /\ DOMAIN tokens = 1 .. n /\ tokens' = Append(tokens, x)
  BY <1>1, <1>2, <1>9
<1>5. /\ tokens' \in Seq(T) /\ DOMAIN tokens' = 1 .. n + 1 /\ Len(tokens') = n + 1
      /\ \A i \in 1 .. n : tokens'[i] = tokens[i]
      /\ tokens'[n + 1] = x
  <2>1. tokens \in Seq(T) /\ x \in T
    BY <1>1
  <2> HIDE DEF T
  <2> QED
    BY <1>4, <2>1
<1>6. ASSUME NEW t \in 1 .. n PROVE Inherits(t)'
  <2>1. Inherits(t)
    BY <1>4 DEF Issued
  <2> QED
    BY <1>1, <1>4, <1>5, <2>1, OthersStay
<1>7. Inherits(n + 1)'
  BY <1>3, <1>4, <1>5 DEF Inherits
<1>8. \A t \in DOMAIN tokens' : Inherits(t)'
  <2> SUFFICES ASSUME NEW t \in DOMAIN tokens' PROVE Inherits(t)'
    OBVIOUS
  <2>1. t \in 1 .. n \/ t = n + 1
    BY <1>4, <1>5
  <2> QED
    BY <1>6, <1>7, <2>1
<1> QED
  BY <1>4, <1>5, <1>8 DEF Issued

(* A request that is under way stays so while tokens are added. *)
LEMMA RequestsStay ==
  ASSUME Underway, request' = request, \A t \in DOMAIN tokens : t \in DOMAIN tokens'
  PROVE  Underway'
BY DEF Underway

(* A request moves on to another place, and keeps none of the tokens. *)
LEMMA RequestMoves ==
  ASSUME Underway, NEW c \in Clients, NEW next, request' = [request EXCEPT ![c] = next],
         next.op = "refresh" => next.token \in DOMAIN tokens',
         \A t \in DOMAIN tokens : t \in DOMAIN tokens'
  PROVE  Underway'
<1>1. DOMAIN request' = Clients /\ request'[c] = next /\ \A d \in Clients : d # c => request'[d] = request[d]
  BY DEF Underway
<1> QED
  BY <1>1 DEF Underway

(* The tokens stay as they are. *)
LEMMA TokensStay == ASSUME Issued, tokens' = tokens PROVE Issued' /\ \A t \in DOMAIN tokens : t \in DOMAIN tokens'
BY DEF Issued, Inherits

(* At the start there is no token and no request. *)
LEMMA AccountsInit == Init => AccountsInv
<1> SUFFICES ASSUME Init PROVE AccountsInv
  OBVIOUS
<1>1. tokens = <<>> /\ request = [c \in Clients |-> Idle]
  BY Zenon DEF Init
<1>2. tokens \in Seq({}) /\ DOMAIN tokens = {}
  BY <1>1
<1> QED
  BY <1>1, <1>2 DEF AccountsInv, Issued, Underway, Idle

(* Every step of the passwords, tokens and restarts keeps the invariant. *)
LEMMA SessionStep == AccountsInv /\ SessionNext => AccountsInv'
<1> SUFFICES ASSUME AccountsInv, SessionNext PROVE AccountsInv'
  OBVIOUS
<1>0. Issued /\ Underway
  BY DEF AccountsInv
<1>1. ASSUME NEW e, NEW form, NEW pw, NEW ed, Login(e, form, pw, ed) PROVE AccountsInv'
  <2>1. Issue(GetUserByEmail(e, form), DefaultEdition(GetUserByEmail(e, form).role, ed), 0)
    BY <1>1, Zenon DEF Login, LoginWithEdition
  <2>2. request' = request
    BY <1>1, Zenon DEF Login
  <2>3. Issued' /\ \A t \in DOMAIN tokens : t \in DOMAIN tokens'
    BY <1>0, <2>1, IssueStep
  <2> QED
    BY <1>0, <2>2, <2>3, RequestsStay DEF AccountsInv
<1>2. ASSUME NEW e, NEW form, NEW pw, NEW ed, Register(e, form, pw, ed) PROVE AccountsInv'
  <2> DEFINE u == [id |-> nextUser, role |-> "viewer"]
  <2>1. \/ Issue(u, DefaultEdition("viewer", ed), 0)
        \/ tokens' = tokens
    BY <1>2, Zenon DEF Register
  <2>2. request' = request
    BY <1>2, Zenon DEF Register
  <2>3. Issued' /\ \A t \in DOMAIN tokens : t \in DOMAIN tokens'
    BY <1>0, <2>1, IssueStep, TokensStay
  <2> QED
    BY <1>0, <2>2, <2>3, RequestsStay DEF AccountsInv
<1>3. ASSUME NEW e, NEW form, NEW ed, MfaVerify(e, form, ed) PROVE AccountsInv'
  <2>1. Issue(GetUserByEmail(e, form), DefaultEdition(GetUserByEmail(e, form).role, ed), 0)
    BY <1>3, Zenon DEF MfaVerify
  <2>2. request' = request
    BY <1>3, Zenon DEF MfaVerify
  <2>3. Issued' /\ \A t \in DOMAIN tokens : t \in DOMAIN tokens'
    BY <1>0, <2>1, IssueStep
  <2> QED
    BY <1>0, <2>2, <2>3, RequestsStay DEF AccountsInv
<1>4. ASSUME NEW ed, DemoAccess(ed) PROVE AccountsInv'
  <2>1. request' = request
    BY <1>4, Zenon DEF DemoAccess
  <2> QED
    BY <1>0, <1>4, <2>1, DemoStep, RequestsStay DEF AccountsInv
<1>5. ASSUME NEW t, Expire(t) \/ (\E b \in BOOLEAN : Logout(t, b)) PROVE AccountsInv'
  <2>1. tokens' = tokens /\ request' = request
    BY <1>5, Zenon DEF Expire, Logout
  <2> QED
    BY <1>0, <2>1, TokensStay, RequestsStay DEF AccountsInv
<1>6. ASSUME NEW c \in Clients, NEW t \in DOMAIN tokens, RefreshCheck(c, t) PROVE AccountsInv'
  <2> DEFINE next == [op |-> "refresh", token |-> t]
  <2>1. tokens' = tokens /\ request' = [request EXCEPT ![c] = next]
    BY <1>6, Zenon DEF RefreshCheck
  <2>2. next.token \in DOMAIN tokens'
    BY <2>1
  <2>3. Issued' /\ \A x \in DOMAIN tokens : x \in DOMAIN tokens'
    BY <1>0, <2>1, TokensStay
  <2>4. Underway'
    BY <1>0, <2>1, <2>2, <2>3, RequestMoves
  <2> QED
    BY <2>3, <2>4 DEF AccountsInv
<1>7. ASSUME NEW c \in Clients, RefreshRotate(c) PROVE AccountsInv'
  <2> DEFINE t == request[c].token
             u == [id |-> tokens[t].user, role |-> tokens[t].role]
  <2>1. t \in DOMAIN tokens
    BY <1>0, <1>7 DEF RefreshRotate, Underway
  <2>2. Issue(u, tokens[t].edition, t)
    BY <1>7, Zenon DEF RefreshRotate
  <2>3. u.id = tokens[t].user /\ u.role = tokens[t].role
    OBVIOUS
  <2> HIDE DEF u
  <2>4. Issued' /\ \A x \in DOMAIN tokens : x \in DOMAIN tokens'
    BY <1>0, <2>1, <2>2, <2>3, IssueStep
  <2>5. request' = [request EXCEPT ![c] = Idle]
    BY <1>7, Zenon DEF RefreshRotate
  <2>6. Underway'
    BY <1>0, <2>4, <2>5, RequestMoves DEF Idle
  <2> QED
    BY <2>4, <2>6 DEF AccountsInv
<1>8. CASE Restart
  <2>1. tokens' = tokens /\ request' = [c \in Clients |-> Idle]
    BY <1>8, Zenon DEF Restart
  <2>2. Underway'
    BY <2>1 DEF Underway, Idle
  <2> QED
    BY <1>0, <2>1, <2>2, TokensStay DEF AccountsInv
<1> QED
  BY <1>1, <1>2, <1>3, <1>4, <1>5, <1>6, <1>7, <1>8, Zenon DEF SessionNext

(* Every step of the logins by way of a provider keeps the invariant. *)
LEMMA OAuthStep == AccountsInv /\ OAuthNext => AccountsInv'
<1> SUFFICES ASSUME AccountsInv, OAuthNext PROVE AccountsInv'
  OBVIOUS
<1>0. Issued /\ Underway
  BY DEF AccountsInv
<1>1. ASSUME NEW p, NEW s, OAuthLogin(p, s) PROVE AccountsInv'
  <2>1. tokens' = tokens /\ request' = request
    BY <1>1, Zenon DEF OAuthLogin
  <2> QED
    BY <1>0, <2>1, TokensStay, RequestsStay DEF AccountsInv
<1>2. ASSUME NEW c \in Clients, NEW next, next.op # "refresh", tokens' = tokens,
             request' = [request EXCEPT ![c] = next]
      PROVE  AccountsInv'
  BY <1>0, <1>2, TokensStay, RequestMoves DEF AccountsInv
<1>3. ASSUME NEW c \in Clients, NEW p, NEW s, CallbackCheck(c, p, s) PROVE AccountsInv'
  <2> DEFINE next == [op |-> "take", provider |-> p, state |-> s]
  <2>1. tokens' = tokens /\ request' = [request EXCEPT ![c] = next]
    BY <1>3, Zenon DEF CallbackCheck
  <2>2. next.op # "refresh"
    OBVIOUS
  <2> QED
    BY <1>2, <2>1, <2>2
<1>4. ASSUME NEW c \in Clients, CallbackTake(c) PROVE AccountsInv'
  <2> DEFINE next == [op |-> "exchange", provider |-> request[c].provider]
  <2>1. tokens' = tokens /\ request' = [request EXCEPT ![c] = next]
    BY <1>4 DEF CallbackTake
  <2>2. next.op # "refresh"
    OBVIOUS
  <2> QED
    BY <1>2, <2>1, <2>2
<1>5. ASSUME NEW c \in Clients, CallbackFails(c) PROVE AccountsInv'
  <2>1. tokens' = tokens /\ request' = [request EXCEPT ![c] = Idle]
    BY <1>5, Zenon DEF CallbackFails
  <2>2. Idle.op # "refresh"
    BY DEF Idle
  <2> QED
    BY <1>2, <2>1, <2>2
<1>6. ASSUME NEW c \in Clients, NEW e, CallbackLookup(c, e) PROVE AccountsInv'
  <2> DEFINE next == [op |-> "signin", email |-> e, found |-> GetUserByEmail(e, "plain")]
  <2>1. tokens' = tokens /\ request' = [request EXCEPT ![c] = next]
    BY <1>6, Zenon DEF CallbackLookup
  <2>2. next.op # "refresh"
    OBVIOUS
  <2> QED
    BY <1>2, <2>1, <2>2
<1>7. ASSUME NEW c \in Clients, CallbackFinish(c) PROVE AccountsInv'
  <2> DEFINE u == [id |-> nextUser, role |-> "viewer"]
  <2>1. \/ Issue(request[c].found, "oss", 0) \/ Issue(u, "oss", 0) \/ tokens' = tokens
    BY <1>7, Zenon DEF CallbackFinish
  <2>2. request' = [request EXCEPT ![c] = Idle]
    BY <1>7, Zenon DEF CallbackFinish
  <2>3. Issued' /\ \A t \in DOMAIN tokens : t \in DOMAIN tokens'
    BY <1>0, <2>1, IssueStep, TokensStay
  <2>4. Underway'
    BY <1>0, <2>2, <2>3, RequestMoves DEF Idle
  <2> QED
    BY <2>3, <2>4 DEF AccountsInv
<1> QED
  BY <1>1, <1>3, <1>4, <1>5, <1>6, <1>7, Zenon DEF OAuthNext

(* Every step keeps what tokens inherit. *)
LEMMA AccountsStep == AccountsInv /\ [Next]_vars => AccountsInv'
<1>1. AccountsInv /\ UNCHANGED vars => AccountsInv'
  <2> SUFFICES ASSUME AccountsInv, UNCHANGED vars PROVE AccountsInv'
    OBVIOUS
  <2>1. tokens' = tokens /\ request' = request
    BY Zenon DEF vars
  <2> QED
    BY <2>1, TokensStay, RequestsStay DEF AccountsInv
<1> QED
  BY <1>1, SessionStep, OAuthStep, Zenon DEF Next

(* Tokens are a sequence that only grows, each inheriting from its login. *)
THEOREM TokensInherit == Spec => []AccountsInv
BY AccountsInit, AccountsStep, PTL DEF Spec

(* Who inherits from a login has no right that the login did not have. *)
LEMMA InheritedRights == AccountsInv => SessionKeepsRights
<1> SUFFICES ASSUME AccountsInv, NEW t \in DOMAIN tokens, tokens[t].use = "access"
             PROVE  /\ tokens[t].user = tokens[tokens[t].root].user
                    /\ tokens[t].role = tokens[tokens[t].root].role
                    /\ tokens[t].perms \subseteq tokens[tokens[t].root].perms
  BY Zenon DEF SessionKeepsRights, Access
<1>1. Inherits(t) /\ Inherits(tokens[t].root)
  BY DEF AccountsInv, Issued, Inherits
<1>2. tokens[tokens[t].root].perms =
        Permissions(tokens[t].role, tokens[tokens[t].root].edition)
  BY <1>1 DEF Inherits
<1> QED
  BY <1>1, <1>2, NoEditionGrantsLess DEF Inherits

(* However often a session is refreshed, by whatever chain of access and     *)
(* refresh tokens, concurrently or after restarts, its tokens name the user  *)
(* and role of its login and grant nothing that the login did not.           *)
THEOREM RightsKept == Spec => []SessionKeepsRights
BY TokensInherit, InheritedRights, PTL

-----------------------------------------------------------------------------
(* Rotation.  How often a token was exchanged, and by how many requests that *)
(* have validated it it may still be, unless a restart drops them.           *)
Children(t) == {a \in Access : tokens[a].parent = t}
Pending(t) == {c \in Clients : request[c].op = "refresh" /\ request[c].token = t}
Clerks == Cardinality(Clients)
Revoked == blacklist["auth"]
Before == Clerks * restarts      \* the exchanges earlier runs may have made
Spent(t) ==
  IF t \in Revoked THEN Cardinality(Children(t)) + Cardinality(Pending(t)) <= Before + Clerks
  ELSE Cardinality(Children(t)) <= Before
Ordered ==
  /\ restarts \in Nat /\ DOMAIN blacklist = Services /\ Revoked \subseteq DOMAIN tokens
  /\ \A t \in DOMAIN tokens : tokens[t].parent < t /\ tokens[t].parent \in Nat
RotationInv == AccountsInv /\ Ordered /\ \A t \in DOMAIN tokens : Spent(t)

(* What a step adds: an access token and what comes with it, for one parent. *)
Adds(parent) ==
  /\ (\E S : tokens' \in Seq(S)) /\ Len(tokens) <= Len(tokens')
  /\ \A t \in DOMAIN tokens : tokens'[t] = tokens[t]
  /\ \A t \in DOMAIN tokens' \ DOMAIN tokens :
       /\ tokens'[t].parent = parent
       /\ tokens'[t].use = "access" => t = Len(tokens) + 1

LEMMA IssueAdds ==
  ASSUME Issued, NEW u, NEW edition, NEW parent, Issue(u, edition, parent)
  PROVE  Adds(parent)
<1>1. PICK S : tokens \in Seq(S)
  BY DEF Issued
<1>2. PICK n \in Nat : n = Len(tokens)
  BY <1>1
<1> DEFINE root == IF parent = 0 THEN n + 1 ELSE tokens[parent].root
           a == AccessToken(u, edition, root, parent)
           r == RefreshToken(u, root, parent)
           T == S \cup {a, r}
<1>3. tokens' = tokens \o <<a, r>>
  BY <1>2, Zenon DEF Issue
<1>4. a.parent = parent
  BY DEF AccessToken
<1>5. r.parent = parent /\ r.use = "refresh"
  BY Zenon DEF RefreshToken
<1> HIDE DEF a, r
<1>6. tokens \in Seq(T) /\ <<a, r>> \in Seq(T)
  BY <1>1
<1> HIDE DEF T
<1>7. /\ tokens' \in Seq(T) /\ Len(tokens') = n + 2
      /\ \A i \in 1 .. n : tokens'[i] = tokens[i]
      /\ tokens'[n + 1] = a /\ tokens'[n + 2] = r
  BY <1>2, <1>3, <1>6
<1> QED
  BY <1>1, <1>2, <1>4, <1>5, <1>7 DEF Adds

LEMMA DemoAdds ==
  ASSUME Issued, NEW requested, DemoAccess(requested)
  PROVE  Adds(0)
<1>1. PICK S : tokens \in Seq(S)
  BY DEF Issued
<1>2. PICK n \in Nat : n = Len(tokens)
  BY <1>1
<1> DEFINE edition == IF requested = "enterprise" THEN "enterprise" ELSE "oss"
           x == [AccessToken([id |-> 0, role |-> "admin"], edition, n + 1, 0) EXCEPT !.secret = "demo"]
           T == S \cup {x}
<1>3. tokens' = Append(tokens, x)
  BY <1>2, Zenon DEF DemoAccess
<1> HIDE DEF edition
<1>4. x.parent = 0
  BY DEF AccessToken
<1> HIDE DEF x
<1>5. tokens \in Seq(T) /\ x \in T
  BY <1>1
<1> HIDE DEF T
<1>6. /\ tokens' \in Seq(T) /\ Len(tokens') = n + 1
      /\ \A i \in 1 .. n : tokens'[i] = tokens[i]
      /\ tokens'[n + 1] = x
  BY <1>2, <1>3, <1>5
<1> QED
  BY <1>1, <1>2, <1>4, <1>6 DEF Adds

LEMMA SameTokensAdd == ASSUME Issued, tokens' = tokens PROVE Adds(0)
BY DEF Issued, Adds

(* A token has finitely many children, and so have requests. *)
LEMMA Finite ==
  ASSUME IsFiniteSet(Clients), Issued, NEW t
  PROVE  /\ IsFiniteSet(Children(t)) /\ Cardinality(Children(t)) \in Nat
         /\ IsFiniteSet(Pending(t)) /\ Cardinality(Pending(t)) \in Nat
         /\ Cardinality(Pending(t)) <= Clerks /\ Clerks \in Nat
<1>1. PICK n \in Nat : DOMAIN tokens = 1 .. n
  BY DEF Issued
<1>2. IsFiniteSet(1 .. n)
  BY FS_Interval
<1>3. Children(t) \subseteq 1 .. n /\ Pending(t) \subseteq Clients
  BY <1>1 DEF Children, Access, Pending
<1> QED
  BY <1>2, <1>3, FS_Subset, FS_CardinalityType DEF Clerks

(* The order of tokens: a token descends from earlier ones. *)
LEMMA OrderStays ==
  ASSUME Issued, Ordered, NEW parent \in Nat, Adds(parent), parent = 0 \/ parent \in DOMAIN tokens,
         restarts' \in Nat, DOMAIN blacklist' = Services, Revoked' \subseteq DOMAIN tokens
  PROVE  Ordered'
<1>1. PICK n \in Nat, m \in Nat : /\ n = Len(tokens) /\ m = Len(tokens') /\ n <= m
                                  /\ DOMAIN tokens = 1 .. n /\ DOMAIN tokens' = 1 .. m
  BY DEF Issued, Adds
<1>2. ASSUME NEW t \in 1 .. m PROVE tokens'[t].parent < t /\ tokens'[t].parent \in Nat
  <2>1. CASE t \in 1 .. n
    BY <1>1, <2>1 DEF Ordered, Adds
  <2>2. CASE t \notin 1 .. n
    <3>1. tokens'[t].parent = parent
      BY <1>1, <2>2 DEF Adds
    <3> QED
      BY <1>1, <2>2, <3>1
  <2> QED
    BY <2>1, <2>2
<1>3. Revoked' \subseteq DOMAIN tokens'
  BY <1>1
<1> QED
  BY <1>1, <1>2, <1>3 DEF Ordered

(* The children after a step: one more for the parent, and none for others. *)
LEMMA ChildrenAfter ==
  ASSUME Issued, Ordered, NEW parent \in Nat, Adds(parent), parent = 0 \/ parent \in DOMAIN tokens,
         NEW t \in DOMAIN tokens'
  PROVE  /\ t \in DOMAIN tokens /\ t # parent => Children(t)' = Children(t)
         /\ t \notin DOMAIN tokens => Children(t)' = {}
         /\ Children(t)' \subseteq Children(t) \cup {Len(tokens) + 1}
<1>1. PICK n \in Nat, m \in Nat : /\ n = Len(tokens) /\ m = Len(tokens') /\ n <= m
                                  /\ DOMAIN tokens = 1 .. n /\ DOMAIN tokens' = 1 .. m
  BY DEF Issued, Adds
<1>2. \A a \in 1 .. n : tokens'[a] = tokens[a] /\ tokens[a].parent < a /\ tokens[a].parent \in Nat
  BY <1>1 DEF Adds, Ordered
<1>3. \A a \in 1 .. m : a \notin 1 .. n =>
         tokens'[a].parent = parent /\ (tokens'[a].use = "access" => a = n + 1)
  BY <1>1 DEF Adds
<1>4. Children(t) = {a \in 1 .. n : tokens[a].use = "access" /\ tokens[a].parent = t}
  BY <1>1 DEF Children, Access
<1>5. Children(t)' = {a \in 1 .. m : tokens'[a].use = "access" /\ tokens'[a].parent = t}
  BY <1>1 DEF Children, Access
<1>6. 1 .. n \subseteq 1 .. m /\ t \in Nat /\ t # 0
  BY <1>1
<1>7. ASSUME t \in 1 .. n, t # parent PROVE Children(t)' = Children(t)
  BY <1>2, <1>3, <1>4, <1>5, <1>6, <1>7
<1>8. ASSUME t \notin 1 .. n PROVE Children(t)' = {}
  <2>1. parent < t
    BY <1>1, <1>8
  <2>2. \A a \in 1 .. n : tokens'[a].parent # t
    BY <1>1, <1>2, <1>8
  <2> QED
    BY <1>3, <1>5, <2>1, <2>2
<1>9. Children(t)' \subseteq Children(t) \cup {n + 1}
  BY <1>2, <1>3, <1>4, <1>5
<1> QED
  BY <1>1, <1>7, <1>8, <1>9

(* A step that exchanges no token, and lets no request validate a revoked    *)
(* one, keeps the bound: revoked tokens only lose requests.                  *)
LEMMA QuietStep ==
  ASSUME IsFiniteSet(Clients), RotationInv, AccountsInv', Adds(0), restarts' = restarts,
         DOMAIN blacklist' = Services, Revoked \subseteq Revoked', Revoked' \subseteq DOMAIN tokens,
         \A t \in Revoked : Pending(t)' \subseteq Pending(t)
  PROVE  RotationInv'
<1>1. Issued /\ Ordered /\ Issued'
  BY DEF RotationInv, AccountsInv
<1>2. Ordered'
  BY <1>1, OrderStays DEF Ordered
<1>3. ASSUME NEW t \in DOMAIN tokens' PROVE Spent(t)'
  <2>1. /\ Cardinality(Children(t)) \in Nat /\ IsFiniteSet(Pending(t))
        /\ Cardinality(Pending(t)) \in Nat /\ Cardinality(Pending(t)) <= Clerks
        /\ Clerks \in Nat
    BY <1>1, Finite
  <2>2. /\ Cardinality(Pending(t)') \in Nat /\ Cardinality(Pending(t)') <= Clerks
    <3>1. IsFiniteSet(Clients) /\ Pending(t)' \subseteq Clients
      BY DEF Pending
    <3> QED
      BY <3>1, FS_Subset, FS_CardinalityType DEF Clerks
  <2>3. Before' = Before /\ Before \in Nat /\ Clerks' = Clerks
    <3>1. restarts \in Nat /\ Clerks \in Nat
      BY <1>1, <2>1 DEF Ordered
    <3> QED
      BY <3>1 DEF Before, Clerks
  <2>4. CASE t \in DOMAIN tokens
    <3>1. Children(t)' = Children(t)
      <4>1. t # 0
        BY <1>1, <2>4 DEF Issued
      <4> QED
        BY <1>1, <2>4, <4>1, ChildrenAfter
    <3>2. Spent(t)
      BY <2>4 DEF RotationInv
    <3>3. CASE t \in Revoked
      <4>1. Pending(t)' \subseteq Pending(t)
        BY <3>3
      <4>2. Cardinality(Pending(t)') <= Cardinality(Pending(t))
        BY <2>1, <4>1, FS_Subset
      <4>3. Cardinality(Children(t)) + Cardinality(Pending(t)) <= Before + Clerks
        BY <3>2, <3>3 DEF Spent
      <4>4. t \in Revoked'
        BY <3>3
      <4> QED
        BY <2>1, <2>2, <2>3, <3>1, <4>2, <4>3, <4>4 DEF Spent
    <3>4. CASE t \notin Revoked
      <4>1. Cardinality(Children(t)) <= Before
        BY <3>2, <3>4 DEF Spent
      <4> QED
        BY <2>1, <2>2, <2>3, <3>1, <4>1 DEF Spent
    <3> QED
      BY <3>3, <3>4
  <2>5. CASE t \notin DOMAIN tokens
    <3>1. Children(t)' = {}
      BY <1>1, <2>5, ChildrenAfter
    <3>2. Cardinality(Children(t)') = 0
      BY <3>1, FS_EmptySet
    <3> QED
      BY <2>1, <2>2, <2>3, <3>2 DEF Spent
  <2> QED
    BY <2>4, <2>5
<1> QED
  BY <1>2, <1>3 DEF RotationInv

(* An exchange spends the token: a request less, a child more, and revoked.  *)
LEMMA RotateStep ==
  ASSUME IsFiniteSet(Clients), RotationInv, AccountsInv', NEW c \in Clients, RefreshRotate(c)
  PROVE  RotationInv'
<1> DEFINE p == request[c].token
           u == [id |-> tokens[p].user, role |-> tokens[p].role]
<1>1. Issued /\ Underway /\ Ordered /\ Issued'
  BY DEF RotationInv, AccountsInv
<1>2. /\ request[c].op = "refresh" /\ blacklist' = [blacklist EXCEPT !["auth"] = @ \cup {p}]
      /\ Issue(u, tokens[p].edition, p)
      /\ request' = [request EXCEPT ![c] = Idle] /\ restarts' = restarts
  BY Zenon DEF RefreshRotate, Revoke
<1>3. p \in DOMAIN tokens /\ p \in Nat
  BY <1>1, <1>2 DEF Underway, Issued
<1> HIDE DEF u
<1>4. Adds(p)
  BY <1>1, <1>2, IssueAdds
<1>5. Revoked' = Revoked \cup {p} /\ DOMAIN blacklist' = Services
  BY <1>1, <1>2 DEF Ordered, Revoked, Services
<1>6. Ordered'
  BY <1>1, <1>2, <1>3, <1>4, <1>5, OrderStays DEF Ordered
<1>7. PICK n \in Nat : n = Len(tokens)
  BY <1>1 DEF Issued
<1>8. ASSUME NEW t \in DOMAIN tokens' PROVE Spent(t)'
  <2>1. /\ IsFiniteSet(Children(t)) /\ Cardinality(Children(t)) \in Nat /\ IsFiniteSet(Pending(t))
        /\ Cardinality(Pending(t)) \in Nat /\ Cardinality(Pending(t)) <= Clerks
        /\ Clerks \in Nat
    BY <1>1, Finite
  <2>2. Before' = Before /\ Before \in Nat /\ Clerks' = Clerks
    <3>1. restarts \in Nat /\ Clerks \in Nat
      BY <1>1, <2>1 DEF Ordered
    <3> QED
      BY <1>2, <3>1 DEF Before, Clerks
  <2>3. Pending(t)' = Pending(t) \ {c}
    <3>1. /\ request'[c].op # "refresh"
          /\ \A d \in Clients : d # c => request'[d] = request[d]
      BY <1>1, <1>2 DEF Underway, Idle
    <3> QED
      BY <3>1 DEF Pending
  <2>4. /\ Cardinality(Pending(t)') \in Nat
        /\ Cardinality(Pending(t)') <= Cardinality(Pending(t))
        /\ t = p => Cardinality(Pending(t)') + 1 = Cardinality(Pending(t))
    <3>1. t = p => c \in Pending(t)
      BY <1>2 DEF Pending
    <3>2. /\ IsFiniteSet(Pending(t) \ {c})
          /\ Cardinality(Pending(t) \ {c}) =
               IF c \in Pending(t) THEN Cardinality(Pending(t)) - 1 ELSE Cardinality(Pending(t))
      BY <2>1, FS_RemoveElement
    <3>3. Cardinality(Pending(t) \ {c}) \in Nat
      BY <3>2, FS_CardinalityType
    <3> QED
      BY <2>1, <2>3, <3>1, <3>2, <3>3
  <2>5. CASE t = p
    <3>1. Children(t)' \subseteq Children(t) \cup {n + 1}
      BY <1>1, <1>3, <1>4, <1>7, ChildrenAfter
    <3>2. /\ IsFiniteSet(Children(t) \cup {n + 1})
          /\ Cardinality(Children(t) \cup {n + 1}) <= Cardinality(Children(t)) + 1
          /\ Cardinality(Children(t) \cup {n + 1}) \in Nat
      <4>1. /\ IsFiniteSet(Children(t) \cup {n + 1})
            /\ Cardinality(Children(t) \cup {n + 1}) =
                 IF n + 1 \in Children(t) THEN Cardinality(Children(t))
                 ELSE Cardinality(Children(t)) + 1
        BY <2>1, FS_AddElement
      <4> QED
        BY <2>1, <4>1
    <3>3. /\ Cardinality(Children(t)') \in Nat
          /\ Cardinality(Children(t)') <= Cardinality(Children(t)) + 1
      BY <3>1, <3>2, FS_Subset, FS_CardinalityType
    <3>4. Cardinality(Children(t)) + Cardinality(Pending(t)) <= Before + Clerks
      <4>1. Spent(t)
        BY <1>3, <2>5 DEF RotationInv
      <4> QED
        BY <2>1, <2>2, <4>1 DEF Spent
    <3>5. t \in Revoked'
      BY <1>5, <2>5
    <3> QED
      BY <2>1, <2>2, <2>4, <2>5, <3>3, <3>4, <3>5 DEF Spent
  <2>6. CASE t # p /\ t \in DOMAIN tokens
    <3>1. Children(t)' = Children(t)
      BY <1>1, <1>3, <1>4, <2>6, ChildrenAfter
    <3>2. t \in Revoked' <=> t \in Revoked
      BY <1>5, <2>6
    <3>3. Spent(t)
      BY <2>6 DEF RotationInv
    <3> QED
      BY <2>1, <2>2, <2>4, <3>1, <3>2, <3>3 DEF Spent
  <2>7. CASE t \notin DOMAIN tokens
    <3>1. Children(t)' = {}
      BY <1>1, <1>3, <1>4, <2>7, ChildrenAfter
    <3>2. Cardinality(Children(t)') = 0
      BY <3>1, FS_EmptySet
    <3> QED
      BY <2>1, <2>2, <2>4, <3>2 DEF Spent
  <2> QED
    BY <2>5, <2>6, <2>7
<1> QED
  BY <1>6, <1>8 DEF RotationInv

(* A restart forgets what was revoked, and the requests with it.             *)
LEMMA RestartStep ==
  ASSUME IsFiniteSet(Clients), RotationInv, AccountsInv', Restart
  PROVE  RotationInv'
<1>1. Issued /\ Ordered
  BY DEF RotationInv, AccountsInv
<1>2. tokens' = tokens /\ restarts' = restarts + 1 /\ blacklist' = [s \in Services |-> {}]
  BY Zenon DEF Restart
<1>3. Revoked' = {} /\ DOMAIN blacklist' = Services
  BY <1>2 DEF Revoked, Services
<1>4. Ordered'
  BY <1>1, <1>2, <1>3 DEF Ordered
<1>5. ASSUME NEW t \in DOMAIN tokens PROVE Spent(t)'
  <2>1. /\ Cardinality(Children(t)) \in Nat /\ Cardinality(Pending(t)) \in Nat
        /\ Clerks \in Nat /\ restarts \in Nat
    BY <1>1, Finite DEF Ordered
  <2>2. Before' = Before + Clerks /\ Before \in Nat
    <3>1. Clerks' = Clerks
      BY DEF Clerks
    <3>2. Clerks * (restarts + 1) = Clerks * restarts + Clerks
      BY <2>1
    <3> QED
      BY <1>2, <2>1, <3>1, <3>2 DEF Before
  <2>3. Children(t)' = Children(t)
    BY <1>2 DEF Children, Access
  <2>4. Cardinality(Children(t)) <= Before + Clerks
    <3>1. Spent(t)
      BY DEF RotationInv
    <3> QED
      BY <2>1, <2>2, <3>1 DEF Spent
  <2> QED
    BY <1>3, <2>2, <2>3, <2>4 DEF Spent
<1> QED
  BY <1>2, <1>4, <1>5 DEF RotationInv

(* A request that moves on validates no token that is revoked.               *)
LEMMA PendingMoves ==
  ASSUME Underway, NEW c \in Clients, NEW next, request' = [request EXCEPT ![c] = next],
         next.op = "refresh" => next.token \notin Revoked, NEW t \in Revoked
  PROVE  Pending(t)' \subseteq Pending(t)
<1>1. request'[c] = next /\ \A d \in Clients : d # c => request'[d] = request[d]
  BY DEF Underway
<1> QED
  BY <1>1 DEF Pending

(* The quiet steps, which leave the blacklists alone.                        *)
LEMMA UnrevokedStep ==
  ASSUME IsFiniteSet(Clients), RotationInv, AccountsInv', Adds(0), restarts' = restarts,
         blacklist' = blacklist,
         \/ request' = request
         \/ \E c \in Clients : \E next :
              /\ request' = [request EXCEPT ![c] = next]
              /\ next.op = "refresh" => next.token \notin Revoked
  PROVE  RotationInv'
<1>1. /\ Underway /\ DOMAIN blacklist' = Services /\ Revoked' = Revoked
      /\ Revoked \subseteq DOMAIN tokens
  BY DEF RotationInv, AccountsInv, Ordered, Revoked
<1>2. ASSUME NEW t \in Revoked PROVE Pending(t)' \subseteq Pending(t)
  <2>1. CASE request' = request
    BY <2>1 DEF Pending
  <2>2. CASE request' # request
    BY <1>1, <2>2, PendingMoves
  <2> QED
    BY <2>1, <2>2
<1> QED
  BY <1>1, <1>2, QuietStep

LEMMA RotationSession ==
  ASSUME IsFiniteSet(Clients), RotationInv, SessionNext
  PROVE  RotationInv'
<1>0. AccountsInv /\ Issued /\ Underway /\ Ordered /\ AccountsInv'
  BY SessionStep DEF RotationInv, AccountsInv
<1>1. ASSUME NEW e, NEW form, NEW pw, NEW ed, Login(e, form, pw, ed) PROVE RotationInv'
  <2>1. /\ Issue(GetUserByEmail(e, form), DefaultEdition(GetUserByEmail(e, form).role, ed), 0)
        /\ request' = request /\ blacklist' = blacklist /\ restarts' = restarts
    BY <1>1, Zenon DEF Login, LoginWithEdition
  <2> QED
    BY <1>0, <2>1, IssueAdds, UnrevokedStep
<1>2. ASSUME NEW e, NEW form, NEW pw, NEW ed, Register(e, form, pw, ed) PROVE RotationInv'
  <2> DEFINE u == [id |-> nextUser, role |-> "viewer"]
  <2>1. /\ Issue(u, DefaultEdition("viewer", ed), 0) \/ tokens' = tokens
        /\ request' = request /\ blacklist' = blacklist /\ restarts' = restarts
    BY <1>2, Zenon DEF Register
  <2>2. Adds(0)
    BY <1>0, <2>1, IssueAdds, SameTokensAdd
  <2> QED
    BY <1>0, <2>1, <2>2, UnrevokedStep
<1>3. ASSUME NEW e, NEW form, NEW ed, MfaVerify(e, form, ed) PROVE RotationInv'
  <2>1. /\ Issue(GetUserByEmail(e, form), DefaultEdition(GetUserByEmail(e, form).role, ed), 0)
        /\ request' = request /\ blacklist' = blacklist /\ restarts' = restarts
    BY <1>3, Zenon DEF MfaVerify
  <2> QED
    BY <1>0, <2>1, IssueAdds, UnrevokedStep
<1>4. ASSUME NEW ed, DemoAccess(ed) PROVE RotationInv'
  <2>1. request' = request /\ blacklist' = blacklist /\ restarts' = restarts
    BY <1>4, Zenon DEF DemoAccess
  <2> QED
    BY <1>0, <1>4, <2>1, DemoAdds, UnrevokedStep
<1>5. ASSUME NEW t \in DOMAIN tokens, Expire(t) PROVE RotationInv'
  <2>1. tokens' = tokens /\ request' = request /\ blacklist' = blacklist /\ restarts' = restarts
    BY <1>5, Zenon DEF Expire
  <2> QED
    BY <1>0, <2>1, SameTokensAdd, UnrevokedStep
<1>6. ASSUME NEW t \in DOMAIN tokens, NEW b \in BOOLEAN, Logout(t, b) PROVE RotationInv'
  <2>1. /\ tokens' = tokens /\ request' = request /\ restarts' = restarts
        /\ blacklist' = [blacklist EXCEPT !["auth"] = @ \cup {t}] \/ blacklist' = blacklist
    BY <1>6, Zenon DEF Logout, Revoke
  <2>2. /\ DOMAIN blacklist' = Services
        /\ Revoked \subseteq Revoked' /\ Revoked' \subseteq DOMAIN tokens
    BY <1>0, <2>1 DEF Ordered, Revoked, Services
  <2>3. \A x \in Revoked : Pending(x)' \subseteq Pending(x)
    BY <2>1 DEF Pending
  <2> QED
    BY <1>0, <2>1, <2>2, <2>3, SameTokensAdd, QuietStep
<1>7. ASSUME NEW c \in Clients, NEW t \in DOMAIN tokens, RefreshCheck(c, t) PROVE RotationInv'
  <2> DEFINE next == [op |-> "refresh", token |-> t]
  <2>1. /\ tokens' = tokens /\ blacklist' = blacklist /\ restarts' = restarts
        /\ request' = [request EXCEPT ![c] = next] /\ t \notin Revoked
    BY <1>7, Zenon DEF RefreshCheck, ValidateToken, Revoked
  <2>2. next.token = t
    OBVIOUS
  <2> HIDE DEF next
  <2> QED
    BY <1>0, <2>1, <2>2, SameTokensAdd, UnrevokedStep
<1>8. ASSUME NEW c \in Clients, RefreshRotate(c) PROVE RotationInv'
  BY <1>0, <1>8, RotateStep
<1>9. CASE Restart
  BY <1>0, <1>9, RestartStep
<1> QED
  BY <1>1, <1>2, <1>3, <1>4, <1>5, <1>6, <1>7, <1>8, <1>9, Zenon DEF SessionNext

LEMMA RotationOAuth ==
  ASSUME IsFiniteSet(Clients), RotationInv, OAuthNext
  PROVE  RotationInv'
<1>0. AccountsInv /\ Issued /\ Underway /\ Ordered /\ AccountsInv'
  BY OAuthStep DEF RotationInv, AccountsInv
<1>1. ASSUME NEW p, NEW s, OAuthLogin(p, s) PROVE RotationInv'
  <2>1. tokens' = tokens /\ request' = request /\ blacklist' = blacklist /\ restarts' = restarts
    BY <1>1, Zenon DEF OAuthLogin
  <2> QED
    BY <1>0, <2>1, SameTokensAdd, UnrevokedStep
<1>2. ASSUME NEW c \in Clients, NEW next, next.op # "refresh", Adds(0), blacklist' = blacklist,
             restarts' = restarts, request' = [request EXCEPT ![c] = next]
      PROVE  RotationInv'
  BY <1>0, <1>2, UnrevokedStep
<1>3. ASSUME NEW c \in Clients, NEW p, NEW s, CallbackCheck(c, p, s) PROVE RotationInv'
  <2> DEFINE next == [op |-> "take", provider |-> p, state |-> s]
  <2>1. /\ tokens' = tokens /\ blacklist' = blacklist /\ restarts' = restarts
        /\ request' = [request EXCEPT ![c] = next]
    BY <1>3, Zenon DEF CallbackCheck
  <2>2. next.op # "refresh"
    OBVIOUS
  <2> HIDE DEF next
  <2> QED
    BY <1>0, <1>2, <2>1, <2>2, SameTokensAdd
<1>4. ASSUME NEW c \in Clients, CallbackTake(c) PROVE RotationInv'
  <2> DEFINE next == [op |-> "exchange", provider |-> request[c].provider]
  <2>1. tokens' = tokens /\ request' = [request EXCEPT ![c] = next]
    BY <1>4 DEF CallbackTake
  <2>2. blacklist' = blacklist /\ restarts' = restarts
    BY <1>4, Zenon DEF CallbackTake
  <2>3. next.op # "refresh"
    OBVIOUS
  <2> HIDE DEF next
  <2> QED
    BY <1>0, <1>2, <2>1, <2>2, <2>3, SameTokensAdd
<1>5. ASSUME NEW c \in Clients, CallbackFails(c) PROVE RotationInv'
  <2>1. /\ tokens' = tokens /\ blacklist' = blacklist /\ restarts' = restarts
        /\ request' = [request EXCEPT ![c] = Idle]
    BY <1>5, Zenon DEF CallbackFails
  <2>2. Idle.op # "refresh"
    BY DEF Idle
  <2> QED
    BY <1>0, <1>2, <2>1, <2>2, SameTokensAdd
<1>6. ASSUME NEW c \in Clients, NEW e, CallbackLookup(c, e) PROVE RotationInv'
  <2> DEFINE next == [op |-> "signin", email |-> e, found |-> GetUserByEmail(e, "plain")]
  <2>1. /\ tokens' = tokens /\ blacklist' = blacklist /\ restarts' = restarts
        /\ request' = [request EXCEPT ![c] = next]
    BY <1>6, Zenon DEF CallbackLookup
  <2>2. next.op # "refresh"
    OBVIOUS
  <2> HIDE DEF next
  <2> QED
    BY <1>0, <1>2, <2>1, <2>2, SameTokensAdd
<1>7. ASSUME NEW c \in Clients, CallbackFinish(c) PROVE RotationInv'
  <2> DEFINE u == [id |-> nextUser, role |-> "viewer"]
  <2>1. \/ Issue(request[c].found, "oss", 0) \/ Issue(u, "oss", 0) \/ tokens' = tokens
    BY <1>7, Zenon DEF CallbackFinish
  <2>2. /\ blacklist' = blacklist /\ restarts' = restarts
        /\ request' = [request EXCEPT ![c] = Idle]
    BY <1>7, Zenon DEF CallbackFinish
  <2>3. Adds(0)
    BY <1>0, <2>1, IssueAdds, SameTokensAdd
  <2>4. Idle.op # "refresh"
    BY DEF Idle
  <2> QED
    BY <1>2, <2>2, <2>3, <2>4
<1> QED
  BY <1>1, <1>3, <1>4, <1>5, <1>6, <1>7, Zenon DEF OAuthNext

(* At the start nothing has been exchanged. *)
LEMMA RotationInit == Init => RotationInv
<1> SUFFICES ASSUME Init PROVE RotationInv
  OBVIOUS
<1>1. tokens = <<>> /\ restarts = 0 /\ blacklist = [s \in Services |-> {}]
  BY Zenon DEF Init
<1>2. DOMAIN tokens = {} /\ Revoked = {} /\ DOMAIN blacklist = Services
  BY <1>1 DEF Revoked, Services
<1> QED
  BY <1>1, <1>2, AccountsInit DEF RotationInv, Ordered

(* Every step keeps the count of what may still be exchanged. *)
LEMMA RotationStep ==
  ASSUME IsFiniteSet(Clients) PROVE RotationInv /\ [Next]_vars => RotationInv'
<1>1. RotationInv /\ UNCHANGED vars => RotationInv'
  <2> SUFFICES ASSUME RotationInv, UNCHANGED vars PROVE RotationInv'
    OBVIOUS
  <2>1. tokens' = tokens /\ request' = request /\ blacklist' = blacklist /\ restarts' = restarts
    BY Zenon DEF vars
  <2>2. Issued /\ Underway
    BY DEF RotationInv, AccountsInv
  <2>3. AccountsInv'
    BY <2>1, <2>2, TokensStay, RequestsStay DEF AccountsInv
  <2> QED
    BY <2>1, <2>2, <2>3, SameTokensAdd, UnrevokedStep
<1> QED
  BY <1>1, RotationSession, RotationOAuth, Zenon DEF Next

(* Every token descends from earlier ones, and counts the requests that may  *)
(* still exchange it against what it has been exchanged for.                 *)
THEOREM RotationInvariance == ASSUME IsFiniteSet(Clients) PROVE Spec => []RotationInv
BY RotationInit, RotationStep, PTL DEF Spec

(* What is spent so is exchanged at most once per client and run. *)
LEMMA SpentOnce == ASSUME IsFiniteSet(Clients), RotationInv PROVE RotationSpends
<1> SUFFICES ASSUME NEW t \in DOMAIN tokens
             PROVE  Cardinality(Children(t)) <= Cardinality(Clients) * (restarts + 1)
  BY DEF RotationSpends, Children
<1>1. Spent(t) /\ Issued /\ restarts \in Nat
  BY DEF RotationInv, AccountsInv, Ordered
<1>2. Cardinality(Children(t)) \in Nat /\ Cardinality(Pending(t)) \in Nat /\ Clerks \in Nat
  BY <1>1, Finite
<1>3. Clerks * (restarts + 1) = Before + Clerks /\ Before \in Nat
  BY <1>1, <1>2 DEF Before
<1>4. Cardinality(Children(t)) <= Before + Clerks
  BY <1>1, <1>2, <1>3 DEF Spent
<1> QED
  BY <1>3, <1>4 DEF Clerks

(* Rotation spends tokens: for any number of clients and restarts a token is *)
(* exchanged at most once per concurrent request in each run of the server.  *)
THEOREM RotationKept == ASSUME IsFiniteSet(Clients) PROVE Spec => []RotationSpends
BY RotationInvariance, SpentOnce, PTL
=============================================================================
