------------------------------ MODULE Accounts ------------------------------
(***************************************************************************)
(* Users and tokens: login, registration, refresh with rotation, logout,   *)
(* the in-memory blacklists, OAuth logins, and the middleware that admits  *)
(* a request.  The enterprise edition builds two services with one secret: *)
(* the one behind the auth routes and the one that guards its own routes;  *)
(* each has a blacklist.  A handler that waits between a look and a write  *)
(* takes several steps.                                                    *)
(***************************************************************************)
EXTENDS Naturals, Sequences, FiniteSets

CONSTANTS
  Emails,        \* canonical addresses
  Bootstrap,     \* the address of the bootstrap administrator
  AllowedEmails, \* the addresses of the allowed domains
  Passwords, BootstrapPassword, Profiled,   \* Profiled: what OAuth users get
  Requested,     \* the editions a client asks for, "" for none
  Clients,       \* requests that may be under way at once
  Refreshed,     \* the uses of the tokens clients send to be refreshed
  States,        \* OAuth state parameters
  MaxTokens, MaxSessions, MaxUsers, MaxRevoked, MaxExpired, MaxRestarts,   \* bounds
  None

Services == {"auth", "guard"}
Forms == {"plain", "upper", "padded"}     \* how an address is typed

VARIABLES
  store,      \* "domain" (in memory) or "database"
  users,      \* users[e]: the user of an address, or None
  nextUser,   \* user ids given out
  tokens,     \* every token issued, in order; its index is its jti
  age,        \* age[use]: the tokens of a use expire in order, up to this one
  blacklist,  \* blacklist[s]: the tokens revoked at a service
  request,    \* request[c]: what a client's request is in the middle of
  oauthState, \* the states of started OAuth logins
  restarts    \* bound

vars == <<store, users, nextUser, tokens, age, blacklist, request,
          oauthState, restarts>>

Idle == [op |-> "idle"]
NoUser == [id |-> 0]

Base(role) ==
  CASE role = "admin" -> {"cbom:read", "cbom:write", "cbom:delete", "assets:read",
         "assets:write", "security:read", "security:write", "k8s:read", "k8s:write", "users:manage"}
    [] role = "operator" -> {"cbom:read", "cbom:write", "assets:read", "assets:write",
         "security:read", "k8s:read", "k8s:write"}
    [] role = "analyst" -> {"cbom:read", "assets:read", "security:read", "k8s:read"}
    [] role = "viewer" -> {"cbom:read", "assets:read"}
    [] OTHER -> {}
Extra(role) ==
  CASE role = "admin" -> {"ibmq:attest", "ibmq:emergency", "ml:analyze", "cloud:manage", "sso:manage"}
    [] role = "operator" -> {"ibmq:attest", "ml:analyze", "cloud:read"}
    [] role = "analyst" -> {"ibmq:read", "ml:read"}
    [] role = "viewer" -> {"ibmq:read"}
    [] OTHER -> {}
Permissions(role, edition) ==
  Base(role) \cup (IF edition = "enterprise" THEN Extra(role) ELSE {})

EditionForRole(role, requested) ==
  IF requested \in {"oss", "enterprise"} THEN requested
  ELSE IF role \in {"admin", "operator"} THEN "enterprise" ELSE "oss"
DefaultEdition(role, requested) ==
  IF requested # "" THEN requested ELSE EditionForRole(role, "")

BootstrapUser == [id |-> 1, role |-> "admin", password |-> BootstrapPassword, mfa |-> FALSE]
\* With a database the bootstrap insert fails ("tenant-1" is no UUID): its users
\* are those somebody put there, here one administrator with a second factor.
SeededUser == [BootstrapUser EXCEPT !.mfa = TRUE]
FirstUsers(kind) ==
  [e \in Emails |-> IF e # Bootstrap THEN NoUser
                    ELSE IF kind = "domain" THEN BootstrapUser ELSE SeededUser]

Init ==
  /\ store \in {"domain", "database"}
  /\ users = FirstUsers(store) /\ nextUser = 2
  /\ tokens = <<>> /\ age = [use \in {"access", "refresh"} |-> 0]
  /\ blacklist = [s \in Services |-> {}]
  /\ request = [c \in Clients |-> Idle]
  /\ oauthState = {} /\ restarts = 0

-----------------------------------------------------------------------------
\* User stores.  The domain store looks up the lower-case address but does not
\* trim it; the database compares it as it is.
FindInDomain(e, form) ==
  IF e \in AllowedEmails /\ form # "padded" THEN users[e] ELSE NoUser
FindRow(e, form) == IF form = "plain" THEN users[e] ELSE NoUser
GetUserByEmail(e, form) ==
  IF store = "domain" THEN FindInDomain(e, form) ELSE FindRow(e, form)

\* The domain store replaces a user of the same address without a word; the
\* insert into the database never succeeds, again for "tenant-1".
CreateInDomain(e, password) ==
  /\ e \in AllowedEmails /\ nextUser <= MaxUsers
  /\ users' = [users EXCEPT ![e] = [id |-> nextUser, role |-> "viewer",
                                    password |-> password, mfa |-> FALSE]]
  /\ nextUser' = nextUser + 1
CreateRow == FALSE
CreateUser(e, password) ==
  \/ store = "domain" /\ CreateInDomain(e, password)
  \/ store = "database" /\ CreateRow
CannotCreate(e) == store = "database" \/ e \notin AllowedEmails

-----------------------------------------------------------------------------
\* Tokens.  root is the access token of the login a token descends from, and
\* parent the token it was exchanged for.
AccessToken(u, edition, root, parent) ==
  [use |-> "access", user |-> u.id, role |-> u.role, edition |-> edition,
   perms |-> Permissions(u.role, edition), secret |-> "server",
   root |-> root, parent |-> parent]
RefreshToken(u, root, parent) ==
  [use |-> "refresh", user |-> u.id, role |-> u.role, edition |-> "", perms |-> {},
   secret |-> "server", root |-> root, parent |-> parent]

Sessions == {t \in DOMAIN tokens : tokens[t].use = "access" /\ tokens[t].root = t}
Issue(u, edition, parent) ==
  /\ Len(tokens) + 2 <= MaxTokens
  /\ parent = 0 => Cardinality(Sessions) < MaxSessions
  /\ LET root == IF parent = 0 THEN Len(tokens) + 1 ELSE tokens[parent].root
     IN  tokens' = tokens \o <<AccessToken(u, edition, root, parent),
                               RefreshToken(u, root, parent)>>

ValidateToken(s, t) ==
  /\ tokens[t].secret = "server" /\ t > age[tokens[t].use]
  /\ t \notin blacklist[s]
Revoke(s, t) == blacklist' = [blacklist EXCEPT ![s] = @ \cup {t}]

\* The answer names the edition; the token holds it.
LoginWithEdition(e, form, password, requested) ==
  LET u == GetUserByEmail(e, form)
  IN  /\ u # NoUser /\ u.password = password /\ ~u.mfa
      /\ Issue(u, DefaultEdition(u.role, requested), 0)

Login(e, form, password, requested) ==
  /\ e \in AllowedEmails
  /\ LoginWithEdition(e, form, password, requested)
  /\ UNCHANGED <<store, users, nextUser, age, blacklist, request, oauthState, restarts>>

\* Registration logs in with the address as it was typed; if that fails the
\* user is created all the same.
Register(e, form, password, requested) ==
  /\ e \in AllowedEmails /\ CreateUser(e, password)
  /\ IF form # "padded"
     THEN Issue([id |-> nextUser, role |-> "viewer"], DefaultEdition("viewer", requested), 0)
     ELSE UNCHANGED tokens
  /\ UNCHANGED <<store, age, blacklist, request, oauthState, restarts>>

MfaVerify(e, form, requested) ==
  LET u == GetUserByEmail(e, form)
  IN  /\ u # NoUser /\ u.mfa
      /\ Issue(u, DefaultEdition(u.role, requested), 0)
      /\ UNCHANGED <<store, users, nextUser, age, blacklist, request, oauthState, restarts>>

\* Signed with a secret of its own: no service accepts it.
DemoAccess(requested) ==
  /\ Len(tokens) < MaxTokens /\ Cardinality(Sessions) < MaxSessions
  /\ tokens' = Append(tokens, [AccessToken([id |-> 0, role |-> "admin"],
       IF requested = "enterprise" THEN "enterprise" ELSE "oss", Len(tokens) + 1, 0)
         EXCEPT !.secret = "demo"])
  /\ UNCHANGED <<store, users, nextUser, age, blacklist, request, oauthState, restarts>>

\* The refresh handler takes any token that validates, access tokens too;
\* validation and revocation are two uses of the blacklist's lock.
RefreshCheck(c, t) ==
  /\ request[c] = Idle /\ tokens[t].use \in Refreshed /\ ValidateToken("auth", t)
  /\ request' = [request EXCEPT ![c] = [op |-> "refresh", token |-> t]]
  /\ UNCHANGED <<store, users, nextUser, tokens, age, blacklist, oauthState, restarts>>

\* Fault: the old token stays valid.
RefreshRotateUnspent(c) ==
  /\ request[c].op = "refresh"
  /\ LET old == tokens[request[c].token]
     IN  Issue([id |-> old.user, role |-> old.role], old.edition, request[c].token)
  /\ request' = [request EXCEPT ![c] = Idle]
  /\ UNCHANGED <<store, users, nextUser, age, blacklist, oauthState, restarts>>
\* Fault: the new token gets the edition a login would give.
RefreshRotateByRole(c) ==
  /\ request[c].op = "refresh"
  /\ LET old == tokens[request[c].token]
     IN  Issue([id |-> old.user, role |-> old.role], EditionForRole(old.role, ""), request[c].token)
  /\ Revoke("auth", request[c].token)
  /\ request' = [request EXCEPT ![c] = Idle]
  /\ UNCHANGED <<store, users, nextUser, age, oauthState, restarts>>
\* The edition comes from the token: a refresh token has none, so its access
\* token holds the permissions of the role alone.
RefreshRotate(c) ==
  /\ request[c].op = "refresh"
  /\ Revoke("auth", request[c].token)
  /\ LET old == tokens[request[c].token]
     IN  Issue([id |-> old.user, role |-> old.role], old.edition, request[c].token)
  /\ request' = [request EXCEPT ![c] = Idle]
  /\ UNCHANGED <<store, users, nextUser, age, oauthState, restarts>>

\* Without the word Bearer the middleware takes the token and the handler does not.
Logout(t, bearer) ==
  /\ ValidateToken("auth", t) /\ Cardinality(blacklist["auth"]) < MaxRevoked
  /\ IF bearer THEN Revoke("auth", t) ELSE UNCHANGED blacklist
  /\ UNCHANGED <<store, users, nextUser, tokens, age, request, oauthState, restarts>>

\* Tokens of one use live equally long, refresh tokens longer than access tokens.
Expire(t) ==
  LET use == tokens[t].use
  IN  /\ t > age[use] /\ t <= MaxExpired
      /\ \A a \in (age[use] + 1)..(t - 1) : tokens[a].use # use
      /\ use = "refresh" => age["access"] >= t - 1
      /\ age' = [age EXCEPT ![use] = t]
      /\ UNCHANGED <<store, users, nextUser, tokens, blacklist, request, oauthState, restarts>>

-----------------------------------------------------------------------------
\* OAuth.  The state map has no lock: it is looked up, then deleted from.
Providers == {"google", "github"}
OAuthLogin(p, s) ==
  /\ <<p, s>> \notin oauthState /\ Cardinality(Sessions) < MaxSessions
  /\ oauthState' = oauthState \cup {<<p, s>>}
  /\ UNCHANGED <<store, users, nextUser, tokens, age, blacklist, request, restarts>>

CallbackCheck(c, p, s) ==
  /\ request[c] = Idle /\ <<p, s>> \in oauthState
  /\ request' = [request EXCEPT ![c] = [op |-> "take", provider |-> p, state |-> s]]
  /\ UNCHANGED <<store, users, nextUser, tokens, age, blacklist, oauthState, restarts>>

\* The state is spent before the code is exchanged, whatever comes of that.
CallbackTake(c) ==
  /\ request[c].op = "take"
  /\ oauthState' = oauthState \ {<<request[c].provider, request[c].state>>}
  /\ request' = [request EXCEPT ![c] = [op |-> "exchange", provider |-> @.provider]]
  /\ UNCHANGED <<store, users, nextUser, tokens, age, blacklist, restarts>>

\* What a provider says of its user.  Google vouches for the address or not;
\* GitHub gives a public one, or else the primary and verified of the others.
GoogleEmail(profile) == IF profile.verified THEN profile.email ELSE None
GitHubEmail(profile) == IF profile.email # None THEN profile.email ELSE profile.primary
Identity(provider, profile) ==
  IF provider = "google" THEN GoogleEmail(profile) ELSE GitHubEmail(profile)
ProfileOf(e) == {[email |-> e, primary |-> None, verified |-> v] : v \in BOOLEAN}
                  \cup {[email |-> None, primary |-> e, verified |-> FALSE]}

\* The calls of the provider fail, or its answer is refused: a plain error.
CallbackFails(c) ==
  /\ request[c].op = "exchange"
  /\ request' = [request EXCEPT ![c] = Idle]
  /\ UNCHANGED <<store, users, nextUser, tokens, age, blacklist, oauthState, restarts>>
CallbackLookup(c, e) ==
  /\ request[c].op = "exchange" /\ e \in AllowedEmails
  /\ \E profile \in ProfileOf(e) : Identity(request[c].provider, profile) = e
  /\ request' = [request EXCEPT ![c] = [op |-> "signin", email |-> e,
                                        found |-> GetUserByEmail(e, "plain")]]
  /\ UNCHANGED <<store, users, nextUser, tokens, age, blacklist, oauthState, restarts>>
\* A user who was not found is registered as a viewer; either gets an OSS session.
CallbackFinish(c) ==
  /\ request[c].op = "signin"
  /\ \/ /\ request[c].found # NoUser
        /\ Issue(request[c].found, "oss", 0)
        /\ UNCHANGED <<users, nextUser>>
     \/ /\ request[c].found = NoUser
        /\ CreateUser(request[c].email, Profiled)
        /\ Issue([id |-> nextUser, role |-> "viewer"], "oss", 0)
     \/ /\ request[c].found = NoUser /\ CannotCreate(request[c].email)
        /\ UNCHANGED <<users, nextUser, tokens>>
  /\ request' = [request EXCEPT ![c] = Idle]
  /\ UNCHANGED <<store, age, blacklist, oauthState, restarts>>

\* Blacklists, OAuth states and requests are in memory, the domain store too.
Restart ==
  /\ restarts < MaxRestarts /\ restarts' = restarts + 1
  /\ blacklist' = [s \in Services |-> {}]
  /\ request' = [c \in Clients |-> Idle] /\ oauthState' = {}
  /\ users' = IF store = "domain" THEN FirstUsers(store) ELSE users
  /\ UNCHANGED <<store, nextUser, tokens, age>>

SessionNext ==
  \/ \E e \in Emails, form \in Forms, pw \in Passwords, ed \in Requested :
        Login(e, form, pw, ed) \/ Register(e, form, pw, ed)
  \/ \E e \in Emails, form \in Forms, ed \in Requested : MfaVerify(e, form, ed)
  \/ \E ed \in Requested : DemoAccess(ed)
  \/ \E t \in DOMAIN tokens : Expire(t) \/ (\E b \in BOOLEAN : Logout(t, b))
  \/ \E c \in Clients, t \in DOMAIN tokens : RefreshCheck(c, t)
  \/ \E c \in Clients : RefreshRotate(c)
  \/ Restart

OAuthNext ==
  \/ \E p \in Providers, s \in States : OAuthLogin(p, s) \/ (\E c \in Clients : CallbackCheck(c, p, s))
  \/ \E c \in Clients : CallbackTake(c) \/ CallbackFails(c) \/ CallbackFinish(c)
  \/ \E c \in Clients, e \in Emails : CallbackLookup(c, e)

Next == SessionNext \/ OAuthNext

Spec == Init /\ [][Next]_vars
-----------------------------------------------------------------------------
Access == {t \in DOMAIN tokens : tokens[t].use = "access"}

(* However a session is refreshed, concurrently or after a restart, its      *)
(* tokens name the user and role of its login and grant nothing more.        *)
SessionKeepsRights ==
  \A t \in Access :
    LET root == tokens[tokens[t].root]
    IN  /\ tokens[t].user = root.user /\ tokens[t].role = root.role
        /\ tokens[t].perms \subseteq root.perms

(* Rotation: a token is exchanged once per request that validated it before  *)
(* the first exchange revoked it, and again only after a restart.            *)
RotationSpends ==
  \A t \in DOMAIN tokens :
    Cardinality({a \in Access : tokens[a].parent = t})
      <= Cardinality(Clients) * (restarts + 1)
=============================================================================
