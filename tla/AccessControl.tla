--------------------------- MODULE AccessControl ----------------------------
(***************************************************************************)
(* What a principal may call, in three parts that share no state: the keys *)
(* with the guards that judge their scopes, the table of routes with the   *)
(* global guards, and the replay of responses by idempotency key.          *)
(***************************************************************************)
EXTENDS Integers, FiniteSets, SequencesExt

-----------------------------------------------------------------------------
(***************************************************************************)
(* API keys (src/modules/developer), the passport strategy that verifies   *)
(* them (src/modules/auth) and the guards that judge what a principal may  *)
(* do (src/common/guards).  A route is guarded either by the global chain  *)
(* JwtAuthGuard, RolesGuard, ScopesGuard or by ApiKeyGuard, which keeps    *)
(* the scopes of the route in a field while it awaits the verification.    *)
(***************************************************************************)

CONSTANTS
    Keys,          \* API keys, all with the same public prefix
    Granted,       \* [Keys -> permissions of the key]
    KeyRoutes,        \* [guard, public, scopes, roles] of a handler
    Members,       \* roles of users that come with a JWT
    MaxRequests,   \* requests, that start in the order of their numbers
    MaxLife,       \* longest expiresInDays
    MaxKeyDay      \* bound on the clock

VARIABLES
    keyDay,            \* Date.now()
    keyRow,            \* [Keys -> [state, expiresAt]], 0 when it never expires
    requiredScopes,    \* ApiKeyGuard._requiredScopes, one field for all requests
    request            \* [1..MaxRequests -> the request]

apiKeyVars == <<keyDay, keyRow, requiredScopes, request>>

Requests == 1..MaxRequests

NoRequest == [step |-> "none"]

ApiKeyInit ==
    /\ keyDay = 1
    /\ keyRow = [k \in Keys |-> [state |-> "none", expiresAt |-> 0]]
    /\ requiredScopes = {}
    /\ request = [r \in Requests |-> NoRequest]

\* create: the key expires after expiresInDays, or never.
CreateKey(k) ==
    /\ keyRow[k].state = "none"
    /\ \E days \in 0..MaxLife :
        keyRow' = [keyRow EXCEPT ![k] = [state |-> "active",
                                         expiresAt |-> IF days = 0 THEN 0 ELSE keyDay + days]]
    /\ UNCHANGED <<keyDay, requiredScopes, request>>

\* revoke: a second one is a conflict.
RevokeKey(k) ==
    /\ keyRow[k].state = "active"
    /\ keyRow' = [keyRow EXCEPT ![k].state = "revoked"]
    /\ UNCHANGED <<keyDay, requiredScopes, request>>

Dead(k) == keyRow[k].state = "revoked" \/ keyRow[k].expiresAt \in 1..keyDay

-----------------------------------------------------------------------------
(* Scopes and roles                                                        *)

\* A scope is a resource and an action; the global wildcards (*, admin) have the
\* resource "*".  A granted scope matches itself, every action of its resource
\* when its own action is a wildcard, and everything when it is global.
MatchScope_AnyAction(granted, required) ==
    \/ granted.resource = "*"
    \/ granted.resource = required.resource

MatchScope(granted, required) ==
    \/ granted.resource = "*"
    \/ granted = required
    \/ granted.action = "*" /\ granted.resource = required.resource

MissingScopes(granted, required) ==
    {s \in required : \A g \in granted : ~MatchScope(g, s)}

\* RolesGuard.canActivate: an owner satisfies every requirement.
RoleAllowed(role, roles) == roles = {} \/ role = "OWNER" \/ role \in roles

\* ScopesGuard.canActivate: owners and administrators with a JWT hold every scope.
ScopesAllowed(user, scopes) ==
    \/ scopes = {}
    \/ ~user.isApiKey /\ user.role \in {"OWNER", "ADMIN"}
    \/ MissingScopes(user.scopes, scopes) = {}

-----------------------------------------------------------------------------
(* Requests                                                                *)

Refused == [step |-> "refused"]

FinishRequest(r, admitted) ==
    request' = [request EXCEPT ![r] =
        IF admitted THEN [step |-> "admitted", key |-> @.key, route |-> @.route,
                          dead |-> @.dead, raced |-> @.raced]
        ELSE Refused]

Others(r) == {q \in Requests : q < r /\ request[q].step \in {"lookup", "compare"}}

\* The handlers are entered in order: a public route is open to all, a request
\* without a key fails on a route of ApiKeyGuard.  ApiKeyGuard.canActivate writes
\* the route's scopes to its field before the strategy is awaited.
ArriveWithKey(r, route) ==
    /\ request[r] = NoRequest
    /\ \A q \in 1..(r - 1) : request[q] # NoRequest
    /\ \E k \in {x \in Keys : keyRow[x].state # "none"} \cup {"none"} :
        LET step == IF route.public THEN "admitted" ELSE "lookup"
            writes == ~route.public /\ route.guard = "apiKey"
        IN  /\ requiredScopes' = IF writes THEN route.scopes ELSE requiredScopes
            /\ request' = [q \in Requests |->
                   IF q = r
                   THEN IF k = "none" /\ ~route.public THEN Refused ELSE
                        [step |-> step, key |-> k, route |-> route, raced |-> FALSE,
                         dead |-> {x \in Keys : Dead(x)}]
                   ELSE IF writes /\ q \in Others(r) /\ request[q].route.guard = "apiKey"
                        THEN [request[q] EXCEPT !.raced = TRUE] ELSE request[q]]
    /\ UNCHANGED <<keyDay, keyRow>>

\* A user with a JWT passes the global chain in one go.
ArriveWithJwt(r, route, role) ==
    /\ request[r] = NoRequest /\ route.guard = "global"
    /\ \A q \in 1..(r - 1) : request[q] # NoRequest
    /\ LET admitted == \/ route.public
                       \/ /\ RoleAllowed(role, route.roles)
                          /\ ScopesAllowed([isApiKey |-> FALSE, role |-> role, scopes |-> {}], route.scopes)
       IN  request' = [request EXCEPT ![r] =
                          IF admitted THEN [step |-> "admitted", key |-> "none", route |-> route,
                                            dead |-> {}, raced |-> FALSE]
                          ELSE Refused]
    /\ UNCHANGED <<keyDay, keyRow, requiredScopes>>

\* findActiveByPrefix: the candidates, with the rows as they are now.
FindActiveByPrefix_Inclusive(r) ==
    /\ request[r].step = "lookup"
    /\ LET found == {k \in Keys : /\ keyRow[k].state = "active"
                                  /\ keyRow[k].expiresAt = 0 \/ keyRow[k].expiresAt >= keyDay}
       IN  request' = [request EXCEPT ![r] = [step |-> "compare", key |-> @.key, route |-> @.route,
                                              dead |-> @.dead, raced |-> @.raced, found |-> found]]
    /\ UNCHANGED <<keyDay, keyRow, requiredScopes>>

FindActiveByPrefix(r) ==
    /\ request[r].step = "lookup"
    /\ LET found == {k \in Keys : /\ keyRow[k].state = "active"
                                  /\ keyRow[k].expiresAt = 0 \/ keyRow[k].expiresAt > keyDay}
       IN  request' = [request EXCEPT ![r] = [step |-> "compare", key |-> @.key, route |-> @.route,
                                              dead |-> @.dead, raced |-> @.raced, found |-> found]]
    /\ UNCHANGED <<keyDay, keyRow, requiredScopes>>

\* The strategy's principal of key k: a developer with the key's permissions.
Principal(k) == [isApiKey |-> TRUE, role |-> "DEVELOPER", scopes |-> Granted[k]]

\* handleRequest of the guard the route has.
HandleRequest(route, k) ==
    IF route.guard = "apiKey"
    THEN requiredScopes = {} \/ MissingScopes(Granted[k], requiredScopes) = {}
    ELSE RoleAllowed("DEVELOPER", route.roles) /\ ScopesAllowed(Principal(k), route.scopes)

\* verify compares one candidate of the snapshot; one that has expired meanwhile
\* is passed over, the one that matches is the caller's key.  touchLastUsed
\* changes nothing that is read here, and its failure is swallowed.
Compare(r, k) ==
    /\ request[r].step = "compare" /\ k \in request[r].found
    /\ IF k = request[r].key /\ ~(keyRow[k].expiresAt \in 1..(keyDay - 1))
       THEN FinishRequest(r, HandleRequest(request[r].route, k))
       ELSE request' = [request EXCEPT ![r].found = @ \ {k}]
    /\ UNCHANGED <<keyDay, keyRow, requiredScopes>>

\* No candidate matched: verify returns null, the strategy fails.
NoMatch(r) ==
    /\ request[r].step = "compare" /\ request[r].found = {}
    /\ FinishRequest(r, FALSE)
    /\ UNCHANGED <<keyDay, keyRow, requiredScopes>>

KeyDayPasses ==
    /\ keyDay < MaxKeyDay
    /\ keyDay' = keyDay + 1
    /\ UNCHANGED <<keyRow, requiredScopes, request>>

ApiKeyNext ==
    \/ \E k \in Keys : CreateKey(k) \/ RevokeKey(k)
    \/ \E r \in Requests, route \in KeyRoutes :
        \/ ArriveWithKey(r, route)
        \/ \E role \in Members : ArriveWithJwt(r, route, role)
    \/ \E r \in Requests :
        \/ FindActiveByPrefix(r) \/ NoMatch(r)
        \/ \E k \in Keys : Compare(r, k)
    \/ KeyDayPasses

ApiKeySpec == ApiKeyInit /\ [][ApiKeyNext]_apiKeyVars

-----------------------------------------------------------------------------
(* Properties                                                              *)

AdmittedByKey == {r \in Requests : /\ request[r].step = "admitted" /\ request[r].key # "none"
                                   /\ ~request[r].route.public}

\* "Revoked and expired rows are excluded by the repository, and re-checked
\* below": a key that was revoked or had expired when the request arrived does
\* not admit it, however the verification is interleaved with other changes.
DeadKeyIsRefused == \A r \in AdmittedByKey : request[r].key \notin request[r].dead

\* "Requests lacking required scopes receive 403 Forbidden": the key of an
\* admitted request covers every scope of the route that was called.  ApiKeyGuard
\* keeps the scopes in a field that all requests share, so this is only sure for
\* a request during whose verification no other request entered the guard.
ScopesCoveredUnlessOverlapped ==
    \A r \in AdmittedByKey : ~request[r].raced =>
        \A s \in request[r].route.scopes : \E g \in Granted[request[r].key] :
            g.resource = "*" \/ (g.resource = s.resource /\ g.action \in {"*", s.action})

-----------------------------------------------------------------------------
(***************************************************************************)
(* The HTTP surface: the controllers' routes in the order in which they    *)
(* are registered, the router that gives a request to the first route that *)
(* matches it, and the global guards that admit it (app.module.ts: JWT or  *)
(* API key, then role).  A path is a sequence of segments, ":" a parameter. *)
(* Rate limits are the subject of Throttlers, scopes of the part above.    *)
(***************************************************************************)

VARIABLE served   \* the request: what was asked, by whom, and what it met

routeVars == <<served>>

UserRole == {"OWNER", "ADMIN", "FINANCE", "DEVELOPER", "AUDITOR", "VIEWER"}
Managers == {"OWNER", "ADMIN"}
Money    == Managers \cup {"FINANCE"}
Builders == Managers \cup {"DEVELOPER"}
Makers   == Managers \cup {"FINANCE", "DEVELOPER"}

\* A route: its method, its paths, the roles of @Roles ({} when it has none)
\* and its marks: @Public(), @AuditAction(), @Use...Lock().
Route(m, path, roles, marks) == [method |-> m, paths |-> {path}, roles |-> roles, marks |-> marks]
Get(path, roles)             == Route("GET", path, roles, {})
Anyone == {}
Public == {"public"}
Audit  == {"audit"}
Locked == {"audit", "lock"}

AuthRoutes ==
  << Route("POST", <<"auth", "register">>, Anyone, Public),
     Route("POST", <<"auth", "login">>, Anyone, Public),
     Route("POST", <<"auth", "refresh">>, Anyone, Public),
     Route("POST", <<"auth", "logout">>, Anyone, {}),
     Get(<<"auth", "me">>, Anyone),
     Get(<<"auth", "session">>, Anyone) >>

PasskeyRoutes ==
  << Route("POST", <<"auth", "passkey", "register", "options">>, Anyone, {}),
     Route("POST", <<"auth", "passkey", "register", "verify">>, Anyone, {}),
     Route("POST", <<"auth", "passkey", "authenticate", "options">>, Anyone, {}),
     Route("POST", <<"auth", "passkey", "authenticate", "verify">>, Anyone, {}),
     Get(<<"auth", "passkey", "credentials">>, Anyone),
     Route("DELETE", <<"auth", "passkey", "credentials", ":">>, Anyone, {}) >>

OrganizationRoutes ==
  << Get(<<"organizations", "current">>, Anyone),
     Route("PATCH", <<"organizations", "current">>, Managers, Audit),
     Get(<<"organizations", "members">>, Anyone),
     Route("POST", <<"organizations", "members">>, Managers, Audit),
     Route("PATCH", <<"organizations", "members", ":">>, Managers, Audit),
     Route("DELETE", <<"organizations", "members", ":">>, Managers, Audit) >>

AgentRoutes ==
  << Get(<<"agents">>, Anyone),
     Route("POST", <<"agents">>, Builders, Audit),
     Get(<<"agents", ":">>, Anyone),
     Route("PATCH", <<"agents", ":">>, Builders, Locked) >>

AgentLifecycleRoutes ==
  << Route("POST", <<"agents", ":", "pause">>, Builders, Locked),
     Route("POST", <<"agents", ":", "resume">>, Builders, Locked),
     Route("POST", <<"agents", ":", "suspend">>, Managers, Locked),
     Route("POST", <<"agents", ":", "wallet">>, Builders, Locked),
     Route("DELETE", <<"agents", ":">>, Managers, Locked),
     Route("POST", <<"agents", ":", "execute">>, Anyone, {}) >>

WalletRoutes ==
  << Get(<<"wallets">>, Anyone),
     Route("POST", <<"wallets">>, Makers, Audit),
     Get(<<"wallets", ":">>, Anyone),
     Get(<<"wallets", ":", "balances">>, Anyone) >>

WalletStatusRoutes ==
  << Route("PATCH", <<"wallets", ":">>, Makers, Audit),
     Route("POST", <<"wallets", ":", "freeze">>, Money, Audit),
     Route("POST", <<"wallets", ":", "unfreeze">>, Money, Audit),
     Route("DELETE", <<"wallets", ":">>, Managers, Audit) >>

PolicyRoutes ==
  << Get(<<"policies">>, Anyone),
     Route("POST", <<"policies">>, Money, Audit),
     Route("POST", <<"policies", "simulate">>, Anyone, {}),
     Get(<<"policies", ":">>, Anyone),
     Route("PATCH", <<"policies", ":">>, Money, Audit),
     Route("DELETE", <<"policies", ":">>, Managers, Audit) >>

RiskRoutes == << Route("POST", <<"risk", "assess">>, Anyone, {}) >>

\* Mutant: allocate loses its @Roles.
BudgetRoutes_AllocateOpen ==
  << Get(<<"budgets">>, Anyone),
     Route("POST", <<"budgets">>, Money, Audit),
     Get(<<"budgets", ":">>, Anyone),
     Route("PATCH", <<"budgets", ":">>, Money, Locked),
     Route("POST", <<"budgets", ":", "allocate">>, Anyone, Locked),
     Route("DELETE", <<"budgets", ":">>, Money, Locked) >>

BudgetRoutes ==
  << Get(<<"budgets">>, Anyone),
     Route("POST", <<"budgets">>, Money, Audit),
     Get(<<"budgets", ":">>, Anyone),
     Route("PATCH", <<"budgets", ":">>, Money, Locked),
     Route("POST", <<"budgets", ":", "allocate">>, Money, Locked),
     Route("DELETE", <<"budgets", ":">>, Money, Locked) >>

TransactionRoutes ==
  << Get(<<"transactions">>, Anyone),
     Route("POST", <<"transactions">>, Makers, Locked),
     Route("POST", <<"transactions", "simulate">>, Anyone, {}),
     Get(<<"transactions", ":">>, Anyone),
     Route("POST", <<"transactions", ":", "cancel">>, Money, Audit) >>

ApprovalRoutes ==
  << Get(<<"proposals">>, Anyone),
     Get(<<"proposals", ":">>, Anyone),
     Route("POST", <<"proposals", ":", "decision">>, Money, Audit),
     Route("POST", <<"proposals", ":", "approve">>, Money, Audit),
     Route("POST", <<"proposals", ":", "reject">>, Money, Audit) >>

AnalyticsRoutes ==
  << Get(<<"analytics", "overview">>, Anyone), Get(<<"analytics", "spend-by-agent">>, Anyone) >>

NotificationRoutes ==
  << Get(<<"notifications">>, Anyone),
     Get(<<"notifications", "unread-count">>, Anyone),
     Route("POST", <<"notifications", "read">>, Anyone, {}),
     Route("POST", <<"notifications", "read-all">>, Anyone, {}) >>

ApiKeyRoutes ==
  << Get(<<"developer", "api-keys">>, Builders),
     Route("POST", <<"developer", "api-keys">>, Builders, Audit),
     Route("DELETE", <<"developer", "api-keys", ":">>, Builders, Audit) >>

MemoryRoutes ==
  << Get(<<"memory">>, Anyone),
     Route("POST", <<"memory">>, Makers, {}),
     Get(<<"memory", ":">>, Anyone) >>

WebhookRoutes ==
  << Get(<<"webhooks">>, Builders),
     Route("POST", <<"webhooks">>, Builders, Audit),
     Get(<<"webhooks", ":">>, Builders),
     Route("PATCH", <<"webhooks", ":">>, Builders, Audit),
     Route("POST", <<"webhooks", ":", "rotate-secret">>, Builders, Audit),
     Route("DELETE", <<"webhooks", ":">>, Builders, Audit) >>

WebhookIngressRoutes == << Route("POST", <<"webhooks", "receive">>, Anyone, Public) >>

StellarRoutes ==
  << Get(<<"stellar", "network">>, Anyone),
     Route("POST", <<"stellar", "soroban", "invoke">>, Anyone, {}),
     Route("POST", <<"stellar", "soroban", "submit">>, Anyone, {}) >>

\* The audit controller carries its roles on the class.
Auditors == Managers \cup {"AUDITOR"}

AuditRoutes ==
  << Get(<<"audit", "export">>, Auditors),
     Get(<<"audit">>, Auditors),
     Get(<<"audit", "export", "stream">>, Auditors) >>

\* Mutant: the entry route is declared before the literal ones.
AuditIntegrityRoutes_EntryFirst ==
  << Get(<<"audit", ":">>, Auditors),
     Get(<<"audit", "integrity", "verify">>, Auditors),
     Get(<<"audit", "integrity", ":">>, Auditors),
     Get(<<"audit", "archives">>, Auditors),
     Get(<<"audit", "archives", ":">>, Auditors) >>

AuditIntegrityRoutes ==
  << Get(<<"audit", "integrity", "verify">>, Auditors),
     Get(<<"audit", "integrity", ":">>, Auditors),
     Get(<<"audit", "archives">>, Auditors),
     Get(<<"audit", "archives", ":">>, Auditors),
     Get(<<"audit", ":">>, Auditors) >>

AiRoutes ==
  << Get(<<"ai", "briefing">>, Anyone),
     Get(<<"ai", "assistant", "seed">>, Anyone),
     Route("POST", <<"ai", "chat">>, Anyone, {}) >>

HealthRoutes ==
  LET Probe(names) == [method |-> "GET", paths |-> {<<"health", n>> : n \in names},
                       roles |-> Anyone, marks |-> Public]
  IN << Probe({"live"}), Probe({"ready"}), Probe({"liveness"}), Probe({"ready", "readiness"}),
        Probe({"database"}), Probe({"redis"}), Probe({"stellar"}),
        Route("GET", <<"health">>, Anyone, Public) >>

MetricsRoutes == << Route("GET", <<"metrics">>, Anyone, Public) >>

DeadLetterRoutes ==
  << Get(<<"admin", "dead-letter">>, Managers),
     Route("POST", <<"admin", "dead-letter", ":", ":", "retry">>, Managers, {}),
     Route("DELETE", <<"admin", "dead-letter", ":", ":">>, Managers, {}) >>

DlqBulkRoutes ==
  << Get(<<"admin", "dlq">>, Managers),
     Get(<<"admin", "dlq", "stats">>, Managers),
     Route("POST", <<"admin", "dlq", "retry-all">>, Managers, {}),
     Route("DELETE", <<"admin", "dlq", "purge">>, Managers, {}) >>

DlqJobRoutes ==
  << Route("POST", <<"admin", "dlq", ":", "retry-all">>, Managers, {}),
     Route("DELETE", <<"admin", "dlq", ":", "purge">>, Managers, {}),
     Get(<<"admin", "dlq", ":", ":">>, Managers),
     Get(<<"admin", "dlq", ":">>, Managers),
     Route("POST", <<"admin", "dlq", ":", ":", "retry">>, Managers, {}),
     Route("POST", <<"admin", "dlq", ":", "retry">>, Managers, {}),
     Route("DELETE", <<"admin", "dlq", ":", ":">>, Managers, {}),
     Route("DELETE", <<"admin", "dlq", ":">>, Managers, {}) >>

QueueRoutes ==
  << Get(<<"admin", "queues", "failed">>, Managers),
     Get(<<"admin", "queues", "failed", ":", ":">>, Managers),
     Get(<<"admin", "queues", "health">>, Managers),
     Route("POST", <<"admin", "queues", "retry">>, Managers, {}),
     Route("POST", <<"admin", "queues", ":", "retry">>, Managers, {}),
     Route("DELETE", <<"admin", "queues", "purge">>, Managers, {}),
     Route("DELETE", <<"admin", "queues", ":", "purge">>, Managers, {}) >>

\* The order of the modules in app.module.ts.
Routes ==
  FlattenSeq(<< AuthRoutes, PasskeyRoutes, OrganizationRoutes, AgentRoutes, AgentLifecycleRoutes,
    WalletRoutes, WalletStatusRoutes, PolicyRoutes, RiskRoutes, BudgetRoutes, TransactionRoutes,
    ApprovalRoutes, AnalyticsRoutes, NotificationRoutes, ApiKeyRoutes, MemoryRoutes, WebhookRoutes,
    WebhookIngressRoutes, StellarRoutes, AuditRoutes, AuditIntegrityRoutes, AiRoutes, HealthRoutes,
    MetricsRoutes, DeadLetterRoutes, DlqBulkRoutes, DlqJobRoutes, QueueRoutes >>)

Fits(pattern, path) ==
  Len(pattern) = Len(path) /\ \A i \in 1..Len(path) : pattern[i] \in {":", path[i]}

\* The routes whose pattern fits a request, and the one that gets it.
Matching(method, path) ==
  {i \in DOMAIN Routes : Routes[i].method = method /\ \E p \in Routes[i].paths : Fits(p, path)}

Resolve(method, path) == CHOOSE i \in Matching(method, path) : \A j \in Matching(method, path) : i <= j

\* JwtAuthGuard, then RolesGuard: OWNER satisfies every requirement.
CanActivate(route, caller) ==
  CASE "public" \in route.marks -> "ok"
    [] caller = "anonymous" -> "401"
    [] route.roles # Anyone /\ caller # "OWNER" /\ caller \notin route.roles -> "403"
    [] OTHER -> "ok"

RoutesInit == served = [method |-> "", path |-> <<>>, caller |-> "anonymous", route |-> 0, answer |-> ""]

\* A request for one of the declared paths, its parameters filled in.
Dispatch ==
  /\ served.route = 0
  /\ \E i \in DOMAIN Routes, caller \in UserRole \cup {"anonymous"} :
      \E p \in Routes[i].paths :
        LET path == [k \in DOMAIN p |-> IF p[k] = ":" THEN "some-id" ELSE p[k]]
            r    == Resolve(Routes[i].method, path)
        IN served' = [method |-> Routes[i].method, path |-> path, caller |-> caller,
                      route |-> r, answer |-> CanActivate(Routes[r], caller)]

RoutesNext == Dispatch

RoutesSpec == RoutesInit /\ [][RoutesNext]_routeVars

----------------------------------------------------------------------------
Parameters(i) ==
  CHOOSE n \in 0..5 : \E p \in Routes[i].paths :
    Fits(p, served.path) /\ n = Cardinality({k \in DOMAIN p : p[k] = ":"})

(* No literal path is captured by a parameter of an earlier route, of the   *)
(* same controller or of another: the first match is a most specific one.   *)
MostSpecificWins ==
  served.route # 0 =>
    \A j \in Matching(served.method, served.path) : Parameters(served.route) <= Parameters(j)

(* A handler whose calls are recorded under an audit action runs only for a *)
(* caller with one of its roles, and never for a role that can only look;   *)
(* and whoever may delete a resource may also create one.                   *)
AuditedNeedsRole ==
  served.answer = "ok" =>
    /\ "audit" \in Routes[served.route].marks =>
         served.caller \in {"OWNER"} \cup (Routes[served.route].roles \ {"AUDITOR", "VIEWER"})
    /\ served.method = "DELETE" =>
         \A j \in Matching("POST", Front(served.path)) : CanActivate(Routes[j], served.caller) = "ok"

-----------------------------------------------------------------------------
(***************************************************************************)
(* IdempotencyInterceptor (common/interceptors/idempotency.interceptor.ts): *)
(* requests that carry one idempotency key to one route.  A cached response *)
(* is replayed; otherwise the handler runs and its response is cached in a  *)
(* tap the response does not wait for.  Requests start in order.            *)
(***************************************************************************)

CONSTANTS MaxReplayRequests, ReplayTtl, MaxReplayClock, MaxReplayFaults

VARIABLES replayClock,
          cachedResponse,   \* the request whose response is cached, 0 for none
          expiresAt,
          replayRequest,
          ran,              \* requests whose handler ran to its end
          overlap,          \* the handler ran while another one was running or being cached
          replayFaults

replayVars ==
    <<replayClock, cachedResponse, expiresAt, replayRequest, ran, overlap, replayFaults>>

ReplayRequests == 1..MaxReplayRequests

ReplayInit ==
    /\ replayClock = 0 /\ cachedResponse = 0 /\ expiresAt = 0
    /\ replayRequest = [r \in ReplayRequests |-> [at |-> "new"]]
    /\ ran = {} /\ overlap = FALSE /\ replayFaults = 0

LiveEntry == cachedResponse # 0 /\ replayClock < expiresAt

(* Another request whose response is still to be cached.                    *)
Pending(r) == \E q \in ReplayRequests \ {r} : replayRequest[q].at \in {"handler", "caching"}

(* redis.get(): its error is not caught and fails the request.              *)
Intercept(r) ==
    /\ replayRequest[r].at = "new" /\ \A q \in 1..(r - 1) : replayRequest[q].at # "new"
    /\ \/ /\ replayRequest' = [replayRequest EXCEPT ![r] =
                IF LiveEntry THEN [at |-> "replayed", of |-> cachedResponse] ELSE [at |-> "handler"]]
          /\ overlap' = (overlap \/ (~ LiveEntry /\ Pending(r)))
          /\ UNCHANGED replayFaults
       \/ /\ replayFaults < MaxReplayFaults /\ replayFaults' = replayFaults + 1
          /\ replayRequest' = [replayRequest EXCEPT ![r] = [at |-> "error"]]
          /\ UNCHANGED overlap
    /\ UNCHANGED <<replayClock, cachedResponse, expiresAt, ran>>

(* The response is cached when the handler fails as well.                   *)
Handle_Failure(r) ==
    /\ replayRequest[r].at = "handler"
    /\ \/ replayRequest' = [replayRequest EXCEPT ![r] = [at |-> "caching"]] /\ ran' = ran \cup {r}
       \/ replayRequest' = [replayRequest EXCEPT ![r] = [at |-> "caching"]] /\ UNCHANGED ran
    /\ UNCHANGED <<replayClock, cachedResponse, expiresAt, overlap, replayFaults>>

(* The handler; an exception skips the tap and nothing is cached.           *)
Handle(r) ==
    /\ replayRequest[r].at = "handler"
    /\ \/ replayRequest' = [replayRequest EXCEPT ![r] = [at |-> "caching"]] /\ ran' = ran \cup {r}
       \/ replayRequest' = [replayRequest EXCEPT ![r] = [at |-> "error"]] /\ UNCHANGED ran
    /\ UNCHANGED <<replayClock, cachedResponse, expiresAt, overlap, replayFaults>>

(* SET ... EX ttl, whose error is ignored.                                  *)
CacheResponse(r) ==
    /\ replayRequest[r].at = "caching"
    /\ \/ /\ cachedResponse' = r /\ expiresAt' = replayClock + ReplayTtl
          /\ UNCHANGED replayFaults
       \/ /\ replayFaults < MaxReplayFaults /\ replayFaults' = replayFaults + 1
          /\ UNCHANGED <<cachedResponse, expiresAt>>
    /\ replayRequest' = [replayRequest EXCEPT ![r] = [at |-> "done"]]
    /\ UNCHANGED <<replayClock, ran, overlap>>

ReplayTick ==
    /\ replayClock < MaxReplayClock /\ replayClock' = replayClock + 1
    /\ UNCHANGED <<cachedResponse, expiresAt, replayRequest, ran, overlap, replayFaults>>

ReplayNext ==
    \/ \E r \in ReplayRequests : Intercept(r) \/ Handle(r) \/ CacheResponse(r)
    \/ ReplayTick

ReplaySpec == ReplayInit /\ [][ReplayNext]_replayVars

----------------------------------------------------------------------------
(* A key runs its handler to the end twice only when the requests           *)
(* overlapped, the first response had expired, or Redis failed; and what is *)
(* replayed is the response of a handler that ran.                          *)
SecondRunNeedsRace ==
    /\ Cardinality(ran) > 1 => overlap \/ replayFaults > 0 \/ replayClock >= ReplayTtl
    /\ \A r \in ReplayRequests : replayRequest[r].at = "replayed" => replayRequest[r].of \in ran
=============================================================================
