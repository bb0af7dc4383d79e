---------------------------- MODULE RequestAudit ----------------------------
(***************************************************************************)
(* What is said of a request when it is over: to the client by the global  *)
(* filter, and to the audit log by the three interceptors.                 *)
(***************************************************************************)
EXTENDS Integers, Outbox, EventBus

-----------------------------------------------------------------------------
(***************************************************************************)
(* What a client is told of an error: the exceptions services throw        *)
(* (common/exceptions), the status of each error code and the global       *)
(* filter that turns anything thrown into a problem details body           *)
(* (common/filters).  A thrown value is a record: its class `t`, and what  *)
(* the filter reads of it.                                                 *)
(***************************************************************************)

\* Errors that are not DomainExceptions: Nest's HttpException with or without a
\* code in its response, a Prisma request error, an error of a library that
\* carries a status, and any other.
Http(status, code) == [t |-> "http", status |-> status, code |-> code]
Prisma(code) == [t |-> "prisma", status |-> 0, code |-> code]
Library(status) == [t |-> "library", status |-> status, code |-> "none"]
Unexpected == [t |-> "other", status |-> 0, code |-> "none"]

-----------------------------------------------------------------------------
(* Codes                                                                   *)

\* ERROR_STATUS, by status.
CodesWithStatus ==
  [s \in {202, 400, 401, 403, 404, 409, 410, 422, 423, 429, 500, 501, 502, 503} |->
     CASE s = 202 -> {"APPROVAL_REQUIRED"}
       [] s = 400 -> {"BAD_REQUEST", "INVALID_STELLAR_ADDRESS", "INVALID_STELLAR_TRANSACTION"}
       [] s = 401 -> {"UNAUTHORIZED", "INVALID_CREDENTIALS", "TOKEN_EXPIRED", "INVALID_TOKEN",
                      "SESSION_REVOKED"}
       [] s = 403 -> {"FORBIDDEN"}
       [] s = 404 -> {"NOT_FOUND"}
       [] s = 409 -> {"CONFLICT", "PROPOSAL_NOT_PENDING", "AGENT_NOT_ACTIVE",
                      "LOCK_ACQUISITION_FAILED"}
       [] s = 410 -> {"PROPOSAL_EXPIRED"}
       [] s = 422 -> {"VALIDATION_ERROR", "POLICY_VIOLATION", "BUDGET_EXCEEDED",
                      "INSUFFICIENT_FUNDS", "RISK_TOO_HIGH", "VELOCITY_LIMIT_EXCEEDED",
                      "CONTRACT_REVERTED", "CONTRACT_PANIC"}
       [] s = 423 -> {"WALLET_FROZEN", "EMERGENCY_LOCK"}
       [] s = 429 -> {"RATE_LIMITED"}
       [] s = 500 -> {"INTERNAL_ERROR"}
       [] s = 501 -> {"NOT_IMPLEMENTED"}
       [] s = 502 -> {"STELLAR_ERROR"}
       [] s = 503 -> {"PRICE_UNAVAILABLE", "CIRCUIT_OPEN"}]

ErrorCodes == UNION {CodesWithStatus[s] : s \in DOMAIN CodesWithStatus}

ERROR_STATUS(code) == CHOOSE s \in DOMAIN CodesWithStatus : code \in CodesWithStatus[s]

\* The codes that the subclasses of DomainException carry.  A velocity limit is
\* reported under the code of a policy.
SubclassCodes ==
  {"NOT_FOUND", "VALIDATION_ERROR", "CONFLICT", "UNAUTHORIZED", "FORBIDDEN",
   "POLICY_VIOLATION", "BUDGET_EXCEEDED", "RISK_TOO_HIGH", "NOT_IMPLEMENTED",
   "CONTRACT_REVERTED", "CONTRACT_PANIC", "INSUFFICIENT_FUNDS", "CIRCUIT_OPEN",
   "LOCK_ACQUISITION_FAILED"}

\* A DomainException is an HttpException with the status of its code.
Domain(code) == [t |-> "domain", status |-> ERROR_STATUS(code), code |-> code]

StatusToErrorCode(status) ==
  CASE status = 400 -> "BAD_REQUEST"
    [] status = 404 -> "NOT_FOUND"
    [] status = 401 -> "UNAUTHORIZED"
    [] status = 403 -> "FORBIDDEN"
    [] status = 409 -> "CONFLICT"
    [] status = 429 -> "RATE_LIMITED"
    [] status = 422 -> "VALIDATION_ERROR"
    [] status = 500 -> "INTERNAL_ERROR"
    [] status = 501 -> "NOT_IMPLEMENTED"
    [] OTHER -> "undefined"

-----------------------------------------------------------------------------
(* resolveError                                                            *)

Problem(status, code, generic) == [status |-> status, code |-> code, generic |-> generic]

\* A status without a code of its own keeps a generic one.
ByStatus(status) ==
  LET mapped == StatusToErrorCode(status)
  IN  Problem(status,
              CASE mapped # "undefined" -> mapped
                [] mapped = "undefined" /\ status >= 500 -> "INTERNAL_ERROR"
                [] OTHER -> "BAD_REQUEST",
              mapped = "undefined")

ResolveHttp(e) ==
  IF e.code \in ErrorCodes THEN Problem(e.status, e.code, FALSE) ELSE ByStatus(e.status)

ResolvePrisma(e) ==
  CASE e.code = "P2025" -> Problem(404, "NOT_FOUND", FALSE)
    [] e.code = "P2002" -> Problem(409, "CONFLICT", FALSE)
    [] OTHER -> Problem(400, "BAD_REQUEST", FALSE)

AsExpressError(e) == e.t = "library" /\ e.status >= 400 /\ e.status <= 599

ResolveError(e) ==
  CASE e.t = "domain" -> Problem(e.status, e.code, FALSE)
    [] e.t = "prisma" -> ResolvePrisma(e)
    [] e.t = "http" -> ResolveHttp(e)
    [] AsExpressError(e) -> ByStatus(e.status)
    [] OTHER -> Problem(500, "INTERNAL_ERROR", FALSE)

IsHttpException(e) == e.t \in {"domain", "http"}

-----------------------------------------------------------------------------
(***************************************************************************)
(* The three audit interceptors that every request passes through          *)
(* (app.module.ts registers all of them): AuditLogInterceptor writes once  *)
(* the response is sent, AuditInterceptor when the handler ends, and       *)
(* StructuredAuditInterceptor publishes audit.recorded on the event bus    *)
(* (EventBus), whose listener writes the row. The route's decorators say   *)
(* which of them act.  What the client gets is the global filter's doing   *)
(* (above), which runs after the interceptors have seen the error.         *)
(***************************************************************************)

CONSTANT MaxAuditFaults   \* calls of record() that may fail

VARIABLES
  audited,      \* the request: its route, what it carries, how far it is
  responseCode, \* response.statusCode as it stands
  requestRows,  \* audit rows: the interceptor and the status it recorded
  auditFaults

requestAuditVars == <<audited, responseCode, requestRows, auditFaults>>

\* A handler returns, or throws: one of each kind that the filter tells apart.
Returned == [t |-> "value", status |-> 0, code |-> "none"]

HandlerEndings ==
  {Returned, Domain("POLICY_VIOLATION"), Domain("CIRCUIT_OPEN"),
   Http(400, "VALIDATION_ERROR"), Http(405, "none"), Prisma("P2025"), Prisma("P2003"),
   Library(404), Unexpected}

\* The route's decorators, where an organization is found, how the handler ends.
AuditedRequests ==
  [log : BOOLEAN, action : BOOLEAN, skip : BOOLEAN,
   userOrg : BOOLEAN, traceOrg : BOOLEAN, paramOrg : BOOLEAN, headerOrg : BOOLEAN,
   ends : HandlerEndings]

SuccessCode == 200

-----------------------------------------------------------------------------

AuditLogActs(r) ==
  r.log /\ ~r.skip /\ ~r.action /\ (r.userOrg \/ r.paramOrg \/ r.headerOrg)

AuditActs_Everywhere(r) == ~r.skip /\ r.userOrg

AuditActs(r) == ~r.skip /\ ~r.action /\ r.userOrg

StructuredActs(r) ==
  r.action /\ ~r.skip /\ (r.userOrg \/ r.traceOrg \/ r.paramOrg)

\* Mutant: the response's status, which the filter has yet to set.
StructuredStatus_Response(r) == responseCode

\* resolveStatusCode(): the exception's status, else the response's.
StructuredStatus(r) == IF IsHttpException(r.ends) THEN r.ends.status ELSE responseCode

\* The handler ends and the taps run, the inner interceptor's first: the event
\* is published without waiting, the inline row is on its way.
HandlerEnds ==
  /\ audited.pc = "handler"
  /\ audited' = [audited EXCEPT !.pc = "tapped",
                   !.pending = {[by |-> "inline", status |-> responseCode] :
                                  x \in {y \in {1} : AuditActs(audited.route)}},
                   !.published = IF StructuredActs(audited.route)
                                 THEN StructuredStatus(audited.route) ELSE 0]
  /\ IF StructuredActs(audited.route) THEN Emit("audit.recorded", TRUE) ELSE UNCHANGED busVars
  /\ UNCHANGED <<responseCode, requestRows, auditFaults>>

\* The exception filter sets the status after the interceptors have unwound,
\* the response is sent, and 'finish' starts the first interceptor's write.
SendResponse ==
  /\ audited.pc = "tapped"
  /\ responseCode' = IF audited.route.ends = Returned THEN SuccessCode
                     ELSE ResolveError(audited.route.ends).status
  /\ audited' = [audited EXCEPT !.pc = "sent",
                   !.pending = @ \cup {[by |-> "finish", status |-> responseCode'] :
                                         x \in {y \in {1} : AuditLogActs(audited.route)}}]
  /\ UNCHANGED <<requestRows, auditFaults, busVars>>

\* persistAudit(), persistAuditLog(): a failure is logged, never thrown.
PersistRow ==
  \E row \in audited.pending :
    /\ audited' = [audited EXCEPT !.pending = @ \ {row}]
    /\ \/ requestRows' = requestRows \cup {row} /\ UNCHANGED auditFaults
       \/ /\ auditFaults < MaxAuditFaults
          /\ auditFaults' = auditFaults + 1
          /\ UNCHANGED requestRows
    /\ UNCHANGED <<responseCode, busVars>>

RequestAuditInit ==
  /\ \E r \in AuditedRequests :
       audited = [route |-> r, pc |-> "handler", pending |-> {}, published |-> 0]
  /\ responseCode = SuccessCode /\ requestRows = {} /\ auditFaults = 0
  /\ BusInit

RequestAuditNext ==
  \/ HandlerEnds \/ SendResponse \/ PersistRow
  \/ BusSteps /\ UNCHANGED requestAuditVars

RequestAuditSpec == RequestAuditInit /\ [][RequestAuditNext]_<<requestAuditVars, busVars>>

-----------------------------------------------------------------------------

(* A route marked @AuditAction() leaves at most one audit row, counting    *)
(* the rows the interceptors write themselves and the ones that the event  *)
(* bus's two listeners write of the published event; a route marked        *)
(* @SkipAudit() leaves none.                                               *)
OneRowPerAction ==
  LET rows == Cardinality(requestRows) + Cardinality(eventRows)
  IN  /\ audited.route.action => rows <= 1
      /\ audited.route.skip => rows = 0

(* The status an audit row or event gives is the one the client was sent,  *)
(* for the interceptor that waits for the response and, but for errors     *)
(* whose status only the filter knows, for the one that publishes an       *)
(* event; and the code in the body blames the same side as the status.     *)
RecordedAsSent ==
  LET e == audited.route.ends IN
  audited.pc = "sent" =>
    /\ \A row \in requestRows : row.by = "finish" => row.status = responseCode
    /\ audited.published # 0 /\ (e = Returned \/ IsHttpException(e)) =>
         audited.published = responseCode
    /\ e # Returned =>
         (responseCode >= 500) = (ERROR_STATUS(ResolveError(e).code) >= 500)

\* What happened is on record once and as it happened: an outbox row says what became
\* of its event, an event or an audited request has at most one audit row although
\* several listeners and interceptors hear of it, and the row gives the status that was
\* sent.  See RowIsTrue, OneRowPerEvent, OneRowPerAction, RecordedAsSent.
RecordsAreTrue == RowIsTrue /\ OneRowPerEvent /\ OneRowPerAction /\ RecordedAsSent
=============================================================================
